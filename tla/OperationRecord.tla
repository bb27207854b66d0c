--------------------------- MODULE OperationRecord ---------------------------
(***************************************************************************)
(* The durable record of one consequential operation and the decisions the *)
(* store takes on it (class OperationStore in common/operations.py).  Each *)
(* operator is the body of one decide() or change() closure: a function of *)
(* the record that was read and of the time at which it is looked at.      *)
(* OperationStore runs them inside the optimistic read-decide-CAS loop.    *)
(*                                                                         *)
(* Abstracted: a digest pair (arguments, preview) is one element of Digest;*)
(* a saved result is the name of the request whose execution produced it;  *)
(* the bound arguments, the tool name and the timestamps shown to people   *)
(* are left out.  A lease_until or claim_id of None is 0 or NoClaim.       *)
(***************************************************************************)
EXTENDS Integers, RevisionedStore

CONSTANTS
    Request,     \* requests and deliveries that may touch the operation; a claim_id is its request
    Digest,      \* digests of (validated arguments, preview)
    Lease,       \* lease_seconds()
    PendingTTL,  \* pending_ttl_seconds()
    Retention,   \* retention_seconds()
    NoClaim,     \* claim_id = None
    NoDigest,    \* the claim binds no digest (commit, task)
    NoAnswer     \* no confirmation answer

ASSUME DurationsPositive ==
    /\ Lease \in Nat \ {0}
    /\ PendingTTL \in Nat \ {0}
    /\ Retention \in Nat \ {0}

ASSUME NullsDistinct ==
    /\ NoClaim \notin Request
    /\ NoDigest \notin Digest
    /\ NoAnswer \notin {"accept", "decline"}

Kind == {"commit", "confirmation", "task"}
Pending == {"prepared", "awaiting_input"}
Terminal == {"succeeded", "failed", "outcome_unknown"}
State == Pending \cup {"executing"} \cup Terminal
Answer == {"accept", "decline"}

Record == [kind : Kind,
           state : State,
           resume : Pending,                    \* resume_state
           claim : Request \cup {NoClaim},      \* claim_id
           lease : Nat,                         \* lease_until
           pending : Nat,                       \* pending_expires_at
           digest : Digest \cup {NoDigest},
           answer : Answer \cup {NoAnswer},
           result : Request \cup {NoClaim},     \* whose result is saved
           hints : BOOLEAN,                     \* reconcile hints are present
           reconciled : BOOLEAN]

\* What a caller passes to claim(): the kind it expects, the digest it binds, its answer.
Ask == [kind : Kind, digest : Digest \cup {NoDigest}, answer : Answer \cup {NoAnswer}]

(***************************************************************************)
(* Records as they are first written.                                      *)
(***************************************************************************)
BlankRecord(kind, state, digest, pending) ==
    [kind |-> kind, state |-> state, resume |-> "prepared", claim |-> NoClaim,
     lease |-> 0, pending |-> pending, digest |-> digest, answer |-> NoAnswer,
     result |-> NoClaim, hints |-> FALSE, reconciled |-> FALSE]

\* open_commit: prepared, waiting for its commit token to come back.
CommitRecord(digest, t) == BlankRecord("commit", "prepared", digest, t + PendingTTL)

\* open_confirmation: the question was asked in the same breath.
ConfirmationRecord(digest, t) ==
    BlankRecord("confirmation", "awaiting_input", digest, t + PendingTTL)

\* claim_task_delivery on an unknown task: executing from the start.
TaskRecord(r, t) ==
    [BlankRecord("task", "executing", NoDigest, t + Lease) EXCEPT !.claim = r, !.lease = t + Lease]

(***************************************************************************)
(* claim: what the record says to a request, checked in the code's order.  *)
(* "lapsed" is the executing record whose lease ran out: the request turns *)
(* it into outcome_unknown and is answered "unknown".                      *)
(***************************************************************************)
Replay == [succeeded |-> "saved", failed |-> "failed", outcome_unknown |-> "unknown"]

\* Mutant of ClaimStatus: a lapsed claim is taken over and executed again.
ClaimStatusTakeover(rec, ask, t) ==
    IF rec.kind # ask.kind THEN "missing"
    ELSE IF rec.state \in Pending \/ (rec.state = "executing" /\ rec.lease <= t) THEN "claimed"
    ELSE IF rec.state = "executing" THEN "in_progress"
    ELSE Replay[rec.state]

\* Mutant of ClaimStatus: the recorded answer is not compared.
ClaimStatusAnyAnswer(rec, ask, t) ==
    IF rec.kind # ask.kind THEN "missing"
    ELSE IF ask.digest # NoDigest /\ rec.digest # ask.digest THEN "payload_changed"
    ELSE IF rec.state \in Pending THEN IF rec.pending <= t THEN "missing" ELSE "claimed"
    ELSE IF rec.state = "executing" THEN IF rec.lease > t THEN "in_progress" ELSE "lapsed"
    ELSE Replay[rec.state]

\* Mutant of ClaimStatus: an executing record is in progress for ever.
ClaimStatusNoLease(rec, ask, t) ==
    IF rec.kind # ask.kind THEN "missing"
    ELSE IF rec.state \in Pending THEN IF rec.pending <= t THEN "missing" ELSE "claimed"
    ELSE IF rec.state = "executing" THEN "in_progress"
    ELSE Replay[rec.state]

ClaimStatus(rec, ask, t) ==
    IF rec.kind # ask.kind THEN "missing"
    ELSE IF ask.digest # NoDigest /\ rec.digest # ask.digest THEN "payload_changed"
    ELSE IF ask.answer # NoAnswer /\ rec.answer \notin {NoAnswer, ask.answer} THEN "answer_changed"
    ELSE IF rec.state \in Pending THEN IF rec.pending <= t THEN "missing" ELSE "claimed"
    ELSE IF rec.state = "executing" THEN IF rec.lease > t THEN "in_progress" ELSE "lapsed"
    ELSE Replay[rec.state]

Granted(rec, ask, r, t) ==
    [rec EXCEPT !.state = "executing",
                !.resume = rec.state,
                !.claim = r,
                !.lease = t + Lease,
                !.answer = IF ask.answer = NoAnswer THEN @ ELSE ask.answer]

\* The claimant never settled: its effect is unknown and it is not run again.
Lapsed(rec) == [rec EXCEPT !.state = "outcome_unknown"]

(***************************************************************************)
(* claim_task_delivery on an existing record: a redelivery does not wait   *)
(* for the lease (the queue redelivers only when the worker is gone), and  *)
(* it does not look at pending_expires_at.                                 *)
(***************************************************************************)
\* Mutant of DeliveryStatus: a redelivery restarts an execution that never settled.
DeliveryStatusRestart(rec) ==
    IF rec.kind # "task" THEN "missing"
    ELSE IF rec.state \in Pending \cup {"executing"} THEN "claimed"
    ELSE Replay[rec.state]

DeliveryStatus(rec) ==
    IF rec.kind # "task" THEN "missing"
    ELSE IF rec.state = "executing" THEN "lapsed"
    ELSE IF rec.state \in Pending THEN "claimed"
    ELSE Replay[rec.state]

Redelivered(rec, r, t) ==
    [rec EXCEPT !.state = "executing",
                !.resume = rec.state,
                !.claim = r,
                !.lease = t + Lease,
                !.pending = t + Lease]

(***************************************************************************)
(* _settle: the claimant reports how its execution ended.  The write only  *)
(* happens while the record still carries its claim and is in a state the  *)
(* settlement may leave.                                                   *)
(***************************************************************************)
Settlement == {"succeed", "fail", "mark_unknown", "park", "release"}

\* Mutant of SettlesFrom: release is also taken by a record that lapsed meanwhile.
SettlesFromLapsed ==
    [succeed |-> {"executing", "outcome_unknown"},
     fail |-> {"executing", "outcome_unknown"},
     mark_unknown |-> {"executing"},
     park |-> {"executing"},
     release |-> {"executing", "outcome_unknown"}]

SettlesFrom ==
    [succeed |-> {"executing", "outcome_unknown"},
     fail |-> {"executing", "outcome_unknown"},
     mark_unknown |-> {"executing"},
     park |-> {"executing"},
     release |-> {"executing"}]

MaySettle(rec, how, r) == rec.claim = r /\ rec.state \in SettlesFrom[how]

Settled(rec, how, r, hints, t) ==
    CASE how = "succeed" -> [rec EXCEPT !.state = "succeeded", !.result = r, !.lease = 0]
      [] how = "fail" -> [rec EXCEPT !.state = "failed", !.lease = 0]
      [] how = "mark_unknown" -> [rec EXCEPT !.state = "outcome_unknown", !.hints = hints, !.lease = 0]
      [] how = "park" -> [rec EXCEPT !.state = "awaiting_input", !.claim = NoClaim, !.lease = 0,
                                     !.pending = t + PendingTTL]
      [] how = "release" -> [rec EXCEPT !.state = rec.resume, !.claim = NoClaim, !.lease = 0]

\* How long the settled record is kept; release keeps the original pending expiry.
SettledTTL(rec, how, t) ==
    CASE how = "park" -> PendingTTL
      [] how = "release" -> Later(1, rec.pending - t)
      [] OTHER -> Retention

\* resolve_unknown: reconciliation proved that the operation took effect.
Reconciled(rec) == [rec EXCEPT !.state = "succeeded", !.reconciled = TRUE]
=============================================================================

---------------------------- MODULE OperationStore ----------------------------
(***************************************************************************)
(* One consequential operation, the requests that try to execute it, and   *)
(* the Google calls they make.                                             *)
(*                                                                         *)
(* A request (a commit, an answered confirmation, or one queue delivery of *)
(* a background task) claims the operation's record with an optimistic     *)
(* read-decide-CAS loop, runs the tool body, and settles the record from   *)
(* what its mutation tracker saw (settle_after_return and                  *)
(* settle_after_failure).  Requests run on different replicas: they        *)
(* interleave at every store access, they crash, their settlement write    *)
(* may never arrive, their clocks differ, and a Google call may take       *)
(* effect long after its caller gave up on it.                             *)
(*                                                                         *)
(* Only non-repeatable Google calls are modelled: uncertain_calls and      *)
(* rejected_non_repeatable ignore all others.                              *)
(***************************************************************************)
EXTENDS OperationRecord, FiniteSets

CONSTANTS
    OpKind,       \* kind of the operation under study
    CasAttempts,  \* _CAS_ATTEMPTS
    MaxCalls,     \* bound: Google calls one execution starts
    MaxTime,      \* bound: the clock
    MaxSkew,      \* how far a replica's clock may be from the store's
    Reconcilable, \* the tool registers a reconciliation hint before it calls Google
    Resendable    \* the tool posts to Chat under a generated key: the HTTP client sends its call again

ASSUME OpKindIsKind == OpKind \in Kind
ASSUME BoundsNatural == /\ CasAttempts \in Nat \ {0}
                        /\ MaxCalls \in Nat
                        /\ MaxTime \in Nat
                        /\ MaxSkew \in Nat
                        /\ Reconcilable \in BOOLEAN
                        /\ Resendable \in BOOLEAN

\* No tool that posts to Chat is declared with task=True (chat/tools.py).
ASSUME PostsAreNoTasks == Resendable => OpKind # "task"

VARIABLES
    now,      \* the store's clock
    slot,     \* the record's slot in the store
    pc,       \* where each request is
    ask,      \* what each request passed to claim()
    job,      \* the decision closure each request runs in _update
    draft,    \* the write a request decided on and has not sent yet
    tries,    \* CAS conflicts of the current _update loop
    again,    \* deliveries that already retried a vanished record
    call,     \* the request's outstanding Google call
    seen,     \* how the request's Google calls ended, as its tracker recorded it
    started,  \* Google calls the request started
    effect,   \* requests one of whose calls changed Google state
    loose,    \* requests with an abandoned call that may still reach Google
    ending,   \* how the tool body ended
    reply,    \* what the caller was told
    dropped   \* history: a record was created again that somebody had a stake in

vars == <<now, slot, pc, ask, job, draft, tries, again, call, seen, started, effect, loose, ending, reply, dropped>>
googleVars == <<call, seen, started, effect, loose>>

\* Kinds of request that can reach this key: the worker alone builds task ids,
\* a client may present any string as a commit token.
Asks ==
    LET commits == [kind : {"commit"}, digest : {NoDigest}, answer : {NoAnswer}]
        answers == [kind : {"confirmation"}, digest : Digest, answer : Answer]
        deliveries == [kind : {"task"}, digest : {NoDigest}, answer : {NoAnswer}]
    IN  CASE OpKind = "commit" -> commits
          [] OpKind = "confirmation" -> commits \cup answers
          [] OpKind = "task" -> commits \cup deliveries

PC == {"idle", "create", "read", "write", "body", "ending", "resolve", "done", "crashed"}
Job == {"claim", "resolve"} \cup Settlement
Ending == {"ask", "return", "error_unknown", "error_pre", "error_other",
           "raise_unknown", "raise_pre", "raise_other"}
ClaimReply == {"missing", "payload_changed", "answer_changed", "in_progress", "saved", "failed", "unknown"}
Reply == {"none", "contended", "settled"} \cup ClaimReply

Nothing == [rev |-> 0, val |-> BlankRecord(OpKind, "prepared", NoDigest, 0), ttl |-> 0, out |-> "none"]
Unseen == [applied |-> FALSE, rejected |-> FALSE, uncertain |-> FALSE]
NoAsk == [kind |-> OpKind, digest |-> NoDigest, answer |-> NoAnswer]

Init ==
    /\ now = 0
    /\ slot = [rev |-> 0, val |-> Nothing.val, exp |-> 0]
    /\ pc = [r \in Request |-> "idle"]
    /\ ask = [r \in Request |-> NoAsk]
    /\ job = [r \in Request |-> "claim"]
    /\ draft = [r \in Request |-> Nothing]
    /\ tries = [r \in Request |-> 0]
    /\ again = {}
    /\ call = [r \in Request |-> "none"]
    /\ seen = [r \in Request |-> Unseen]
    /\ started = [r \in Request |-> 0]
    /\ effect = {}
    /\ loose = {}
    /\ ending = [r \in Request |-> "return"]
    /\ reply = [r \in Request |-> "none"]
    /\ dropped = FALSE

\* What a replica's clock may show.
Reading == {t \in 0 .. MaxTime + MaxSkew : t <= now + MaxSkew /\ now <= t + MaxSkew}

Tick ==
    /\ now < MaxTime
    /\ now' = now + 1
    /\ UNCHANGED <<slot, pc, ask, job, draft, tries, again, googleVars, ending, reply, dropped>>

(***************************************************************************)
(* prepare_workspace_action or the asking round of a confirmation opens    *)
(* the record, under an id drawn at random: once.                          *)
(***************************************************************************)
Open ==
    /\ OpKind \in {"commit", "confirmation"}
    /\ slot.rev = 0
    /\ \E d \in Digest, t \in Reading :
          slot' = Created(IF OpKind = "commit" THEN CommitRecord(d, t) ELSE ConfirmationRecord(d, t),
                          PendingTTL, now)
    /\ UNCHANGED <<now, pc, ask, job, draft, tries, again, googleVars, ending, reply, dropped>>

Arrive(r) ==
    /\ pc[r] = "idle"
    /\ \E q \in Asks :
          /\ ask' = [ask EXCEPT ![r] = q]
          /\ pc' = [pc EXCEPT ![r] = IF q.kind = "task" THEN "create" ELSE "read"]
    /\ UNCHANGED <<now, slot, job, draft, tries, again, googleVars, ending, reply, dropped>>

\* The record that is gone was more than released: a claimant had not given it
\* back, or somebody is about to write what he decided on it.
Staked == slot.rev > 0 /\ (slot.val.state \notin Pending \/ \E p \in Request : pc[p] = "write")

\* claim_task_delivery first tries to create the executing record.
CreateTask(r) ==
    /\ pc[r] = "create"
    /\ \/ /\ ~Live(slot, now)
          /\ \E t \in Reading : slot' = Created(TaskRecord(r, t), Lease + Retention, now)
          /\ pc' = [pc EXCEPT ![r] = "body"]
          /\ dropped' = (dropped \/ Staked)
       \/ /\ Live(slot, now)
          /\ pc' = [pc EXCEPT ![r] = "read"]
          /\ UNCHANGED <<slot, dropped>>
    /\ UNCHANGED <<now, ask, job, draft, tries, again, googleVars, ending, reply>>

(***************************************************************************)
(* _update: read the record, decide, compare-and-set, at most CasAttempts  *)
(* times.  A decision that writes leaves its draft for the CAS; the others *)
(* end the loop at once.                                                   *)
(***************************************************************************)
Finish(r, answer) ==
    /\ pc' = [pc EXCEPT ![r] = "done"]
    /\ reply' = [reply EXCEPT ![r] = answer]

Draft(r, val, ttl, out) ==
    /\ draft' = [draft EXCEPT ![r] = [rev |-> slot.rev, val |-> val, ttl |-> ttl, out |-> out]]
    /\ pc' = [pc EXCEPT ![r] = "write"]
    /\ UNCHANGED <<reply, again>>

\* The record is gone.  A delivery claims once more from the start
\* (run_task_delivery); a reconciliation or a settlement just ends.
Vanished(r) ==
    IF job[r] = "claim" /\ ask[r].kind = "task" /\ r \notin again
    THEN /\ pc' = [pc EXCEPT ![r] = "create"]
         /\ again' = again \cup {r}
         /\ UNCHANGED reply
    ELSE /\ Finish(r, CASE job[r] = "claim" -> "missing"
                        [] job[r] = "resolve" -> "unknown"
                        [] OTHER -> "settled")
         /\ UNCHANGED again

\* The claim is over and was not granted.  An unknown outcome is looked up with
\* Google, from the record in hand, before it is answered.
Refused(r, out, rec) ==
    IF out = "missing" THEN Vanished(r) /\ draft' = [draft EXCEPT ![r] = Nothing]
    ELSE IF out = "unknown"
    THEN /\ pc' = [pc EXCEPT ![r] = "resolve"]
         /\ draft' = [draft EXCEPT ![r] = [Nothing EXCEPT !.val = rec]]
         /\ UNCHANGED <<reply, again>>
    ELSE Finish(r, out) /\ draft' = [draft EXCEPT ![r] = Nothing] /\ UNCHANGED again

DecideClaim(r, rec, t) ==
    LET delivery == ask[r].kind = "task"
        status == IF delivery THEN DeliveryStatus(rec) ELSE ClaimStatus(rec, ask[r], t)
        grant == IF delivery THEN Redelivered(rec, r, t) ELSE Granted(rec, ask[r], r, t)
    IN  \/ status = "claimed" /\ Draft(r, grant, Lease + Retention, "claimed")
        \/ status = "lapsed" /\ Draft(r, Lapsed(rec), Retention, "unknown")
        \/ status \notin {"claimed", "lapsed"} /\ Refused(r, status, rec)

DecideSettle(r, rec, t) ==
    LET hints == Reconcilable /\ started[r] > 0
    IN  \/ /\ MaySettle(rec, job[r], r)
           /\ Draft(r, Settled(rec, job[r], r, hints, t), SettledTTL(rec, job[r], t), "settled")
        \/ /\ ~MaySettle(rec, job[r], r)
           /\ Finish(r, "settled")
           /\ UNCHANGED <<draft, again>>

DecideResolve(r, rec) ==
    \/ rec.state = "outcome_unknown" /\ Draft(r, Reconciled(rec), Retention, "saved")
    \/ /\ rec.state # "outcome_unknown"
       /\ Finish(r, IF rec.state = "succeeded" THEN "saved" ELSE "unknown")
       /\ UNCHANGED <<draft, again>>

Read(r) ==
    /\ pc[r] = "read"
    /\ \/ ~Live(slot, now) /\ Vanished(r) /\ UNCHANGED draft
       \/ /\ Live(slot, now)
          /\ \E t \in Reading :
                \/ job[r] = "claim" /\ DecideClaim(r, slot.val, t)
                \/ job[r] = "resolve" /\ DecideResolve(r, slot.val)
                \/ job[r] \in Settlement /\ DecideSettle(r, slot.val, t)
    /\ UNCHANGED <<now, slot, ask, job, tries, googleVars, ending, dropped>>

\* The CAS was taken: a granted claim runs the body, a lapsed one is looked up.
Written(r) ==
    LET out == draft[r].out
    IN  /\ slot' = Replaced(slot, draft[r].val, draft[r].ttl, now)
        /\ \/ /\ out = "claimed"
              /\ pc' = [pc EXCEPT ![r] = "body"]
              /\ draft' = [draft EXCEPT ![r] = Nothing]
              /\ UNCHANGED <<reply, again>>
           \/ out # "claimed" /\ Refused(r, out, draft[r].val)
        /\ UNCHANGED tries

\* Mutant of Conflict: one round too many.
ConflictOnceMore(r) ==
    /\ tries' = [tries EXCEPT ![r] = @ + 1]
    /\ draft' = [draft EXCEPT ![r] = Nothing]
    /\ \/ tries[r] + 1 <= CasAttempts /\ pc' = [pc EXCEPT ![r] = "read"] /\ UNCHANGED reply
       \/ tries[r] + 1 > CasAttempts /\ Finish(r, "contended")
    /\ UNCHANGED <<slot, again>>

Conflict(r) ==
    /\ tries' = [tries EXCEPT ![r] = @ + 1]
    /\ draft' = [draft EXCEPT ![r] = Nothing]
    /\ \/ /\ tries[r] + 1 < CasAttempts
          /\ pc' = [pc EXCEPT ![r] = "read"]
          /\ UNCHANGED reply
       \/ tries[r] + 1 = CasAttempts /\ Finish(r, "contended")
    /\ UNCHANGED <<slot, again>>

Write(r) ==
    /\ pc[r] = "write"
    /\ LET status == CasStatus(slot, draft[r].rev, now)
       IN  \/ status = "ok" /\ Written(r)
           \/ status = "conflict" /\ Conflict(r)
           \/ /\ status = "missing"
              /\ Vanished(r)
              /\ draft' = [draft EXCEPT ![r] = Nothing]
              /\ UNCHANGED <<slot, tries>>
    /\ UNCHANGED <<now, ask, job, googleVars, ending, dropped>>

(***************************************************************************)
(* resolve_claim: reconciliation can only prove that the change exists,    *)
(* from a hint in the record; anything else leaves the outcome unknown.    *)
(***************************************************************************)
\* Mutant of Resolve: a hint is taken for the proof.
ResolveOptimistic(r) ==
    /\ pc[r] = "resolve"
    /\ IF draft[r].val.hints
       THEN pc' = [pc EXCEPT ![r] = "read"] /\ job' = [job EXCEPT ![r] = "resolve"] /\ UNCHANGED reply
       ELSE Finish(r, "unknown") /\ UNCHANGED job
    /\ draft' = [draft EXCEPT ![r] = Nothing]
    /\ tries' = [tries EXCEPT ![r] = 0]
    /\ UNCHANGED <<now, slot, ask, again, googleVars, ending, dropped>>

Resolve(r) ==
    /\ pc[r] = "resolve"
    /\ \/ /\ draft[r].val.hints
          /\ effect # {}
          /\ pc' = [pc EXCEPT ![r] = "read"]
          /\ job' = [job EXCEPT ![r] = "resolve"]
          /\ UNCHANGED reply
       \/ Finish(r, "unknown") /\ UNCHANGED job
    /\ draft' = [draft EXCEPT ![r] = Nothing]
    /\ tries' = [tries EXCEPT ![r] = 0]
    /\ UNCHANGED <<now, slot, ask, again, googleVars, ending, dropped>>

(***************************************************************************)
(* The tool body and its Google calls (MutationTracker).                   *)
(***************************************************************************)
Declined(r) == ask[r].answer = "decline"

\* _start: refused once the layer's tracker is closed, that is after the body.
StartCall(r) ==
    /\ pc[r] = "body"
    /\ ~Declined(r)
    /\ call[r] = "none"
    /\ started[r] < MaxCalls
    /\ call' = [call EXCEPT ![r] = "sent"]
    /\ started' = [started EXCEPT ![r] = @ + 1]
    /\ UNCHANGED <<now, slot, pc, ask, job, draft, tries, again, seen, effect, loose, ending, reply, dropped>>

\* Google executes an outstanding call, or one whose caller gave up long ago.
Land(r) ==
    /\ \/ call[r] = "sent" /\ call' = [call EXCEPT ![r] = "landed"] /\ UNCHANGED loose
       \/ r \in loose /\ loose' = loose \ {r} /\ UNCHANGED call
    /\ effect' = effect \cup {r}
    /\ UNCHANGED <<now, slot, pc, ask, job, draft, tries, again, seen, started, ending, reply, dropped>>

\* _finish: a result means applied, a definitive 4xx is taken for not executed,
\* anything else is uncertain.  Only the last answer counts: of a call that was
\* sent again (http_retry_budget) an earlier attempt may have landed, or may still.
\* An abandoned thread still gets here, after its body ended.
FinishCall(r) ==
    /\ pc[r] # "crashed"
    /\ call[r] # "none"
    /\ \/ /\ call[r] = "landed"
          /\ seen' = [seen EXCEPT ![r].applied = TRUE]
          /\ UNCHANGED loose
       \/ /\ call[r] = "sent" \/ Resendable
          /\ seen' = [seen EXCEPT ![r].rejected = TRUE]
          /\ \/ UNCHANGED loose
             \/ Resendable /\ call[r] = "sent" /\ loose' = loose \cup {r}
       \/ /\ seen' = [seen EXCEPT ![r].uncertain = TRUE]
          /\ loose' = IF call[r] = "sent" THEN loose \cup {r} ELSE loose
    /\ call' = [call EXCEPT ![r] = "none"]
    /\ UNCHANGED <<now, slot, pc, ask, job, draft, tries, again, started, effect, ending, reply, dropped>>

\* Mutant of Uncertain: a call whose thread was abandoned is not counted.
UncertainEnded(r, bodyFailed) == seen[r].uncertain \/ (bodyFailed /\ seen[r].applied)

\* uncertain_calls: an applied call counts once the body failed.
Uncertain(r, bodyFailed) ==
    call[r] # "none" \/ seen[r].uncertain \/ (bodyFailed /\ seen[r].applied)

(***************************************************************************)
(* How the body of the claiming layer can end.  A commit and a task run    *)
(* the tool inside a guard of its own, which has already turned a failure  *)
(* with uncertain calls into outcome_unknown; only the tool's consent gate *)
(* asks, before anything ran.  A cancellation comes through as it is, and  *)
(* so does, to its own confirmation, the error a chat post ends with: it   *)
(* has no code yet (_execute_message_request).                             *)
(***************************************************************************)
Guarded == OpKind \in {"commit", "task"}

Endings(r) ==
    LET quiet == ~Uncertain(r, TRUE)
    IN  {e \in Ending :
            /\ Declined(r) => e = "return"
            /\ e = "ask" => Guarded /\ started[r] = 0
            /\ e = "return" => (Guarded => ~Uncertain(r, FALSE))
            /\ e \in {"error_unknown", "error_pre", "error_other"} => OpKind = "commit"
            /\ e \in {"error_unknown", "raise_unknown"} => Guarded /\ ~quiet
            /\ e \in {"error_pre", "error_other", "raise_pre"} => (Guarded => quiet)
            /\ e = "raise_pre" /\ Resendable => Guarded \/ started[r] = 0}

\* Mutant of EndBody: the deadline waits for the worker thread.
EndBodyJoined(r) ==
    /\ pc[r] = "body"
    /\ call[r] = "none"
    /\ \E e \in Endings(r) : ending' = [ending EXCEPT ![r] = e]
    /\ pc' = [pc EXCEPT ![r] = "ending"]
    /\ UNCHANGED <<now, slot, ask, job, draft, tries, again, googleVars, reply, dropped>>

EndBody(r) ==
    /\ pc[r] = "body"
    /\ \E e \in Endings(r) : ending' = [ending EXCEPT ![r] = e]
    /\ pc' = [pc EXCEPT ![r] = "ending"]
    /\ UNCHANGED <<now, slot, ask, job, draft, tries, again, googleVars, reply, dropped>>

(***************************************************************************)
(* settle_after_return and settle_after_failure pick the settlement.       *)
(***************************************************************************)
Raised(r) == ending[r] \in {"raise_unknown", "raise_pre", "raise_other"}

\* Mutant of SettlementOf: a rejected call decides before the uncertain ones do.
SettlementOfRejection(r) ==
    LET how == ending[r]
    IN  IF how = "ask" THEN "park"
        ELSE IF how \in {"error_other", "raise_other"} /\ seen[r].rejected THEN "fail"
        ELSE IF how \in {"error_unknown", "raise_unknown"} \/ Uncertain(r, Raised(r)) THEN "mark_unknown"
        ELSE IF how = "return" THEN "succeed"
        ELSE "release"

SettlementOf(r) ==
    LET how == ending[r]
    IN  IF how = "ask" THEN "park"
        ELSE IF how \in {"error_unknown", "raise_unknown"} \/ Uncertain(r, Raised(r)) THEN "mark_unknown"
        ELSE IF how = "return" THEN "succeed"
        ELSE IF how \in {"error_other", "raise_other"} /\ seen[r].rejected THEN "fail"
        ELSE "release"

Settle(r) ==
    /\ pc[r] = "ending"
    /\ job' = [job EXCEPT ![r] = SettlementOf(r)]
    /\ pc' = [pc EXCEPT ![r] = "read"]
    /\ tries' = [tries EXCEPT ![r] = 0]
    /\ UNCHANGED <<now, slot, ask, draft, again, googleVars, ending, reply, dropped>>

\* _shielded gives up after ten seconds and swallows a store error.
SettleLost(r) ==
    /\ pc[r] \in {"read", "write"}
    /\ job[r] \in Settlement
    /\ Finish(r, "settled")
    /\ draft' = [draft EXCEPT ![r] = Nothing]
    /\ UNCHANGED <<now, slot, ask, job, tries, again, googleVars, ending, dropped>>

\* The process dies; a call it already sent is still on its way.
Crash(r) ==
    /\ pc[r] \notin {"idle", "done", "crashed"}
    /\ pc' = [pc EXCEPT ![r] = "crashed"]
    /\ draft' = [draft EXCEPT ![r] = Nothing]
    /\ UNCHANGED <<now, slot, ask, job, tries, again, googleVars, ending, reply, dropped>>

Step(r) ==
    \/ Arrive(r) \/ CreateTask(r) \/ Read(r) \/ Write(r) \/ Resolve(r)
    \/ StartCall(r) \/ Land(r) \/ FinishCall(r)
    \/ EndBody(r) \/ Settle(r) \/ SettleLost(r) \/ Crash(r)

Next == Tick \/ Open \/ \E r \in Request : Step(r)

Spec == Init /\ [][Next]_vars
-----------------------------------------------------------------------------
(***************************************************************************)
(* What must hold.                                                         *)
(***************************************************************************)
TypeOK ==
    /\ now \in Nat
    /\ slot \in [rev : Nat, val : Record, exp : Nat]
    /\ pc \in [Request -> PC]
    /\ ask \in [Request -> Ask]
    /\ job \in [Request -> Job]
    /\ draft \in [Request -> [rev : Nat, val : Record, ttl : Nat, out : Reply \cup {"claimed"}]]
    /\ tries \in [Request -> 0 .. CasAttempts]
    /\ again \subseteq Request
    /\ call \in [Request -> {"none", "sent", "landed"}]
    /\ seen \in [Request -> [applied : BOOLEAN, rejected : BOOLEAN, uncertain : BOOLEAN]]
    /\ started \in [Request -> 0 .. MaxCalls]
    /\ effect \subseteq Request
    /\ loose \subseteq Request
    /\ ending \in [Request -> Ending]
    /\ reply \in [Request -> Reply]
    /\ dropped \in BOOLEAN

\* r changed Google state, or something it sent still may.
MayHaveActed(r) == r \in effect \cup loose \/ call[r] # "none"

\* One of r's calls was sent again, and the server takes the answer to the last
\* attempt for the answer to all of them (_definitive_rejection).
Misjudged(r) == Resendable /\ seen[r].rejected

\* A commit's guard sees the code of such an answer and may hand the operation
\* back; a confirmation's guard records it as failed.
Disowned(r) == OpKind = "commit" /\ Misjudged(r)

\* The promise of the whole design ("runs at most once", commit_workspace_action
\* and run_task_delivery): of all the requests for one operation, at most one
\* ever gets a non-repeatable call to Google.  It does not extend to commits of
\* chat posts that were sent again and refused then, nor to a task whose record
\* the store dropped from under somebody.
ActsAtMostOnce ==
    dropped \/ \A p, q \in Request :
                  MayHaveActed(p) /\ MayHaveActed(q) => p = q \/ Disowned(p) \/ Disowned(q)

\* release and park put the record back where a new request may execute it
\* ("nothing non-repeatable reached Google"): while a live record can be
\* claimed, no earlier request has changed anything, or can change it later,
\* with the same exceptions.
ClaimableMeansUntouched ==
    Live(slot, now) /\ slot.val.state \in Pending =>
        dropped \/ \A r \in Request : MayHaveActed(r) => Disowned(r)

\* A failed record is repeated to every later caller as "already failed, not
\* re-executed": then the change does not exist, and will not come to exist,
\* unless the failure is that of a post that was sent again.
FailedMeansNothingHappened ==
    slot.val.state = "failed" => dropped \/ \A r \in Request : MayHaveActed(r) => Misjudged(r)

\* One continuation carries one answer: an operation the user declined once
\* never acts, whatever later or concurrent requests answer, and also when an
\* accepted claim was handed back first.
DeclinedNeverActs ==
    slot.val.answer = "decline" => \A r \in Request : ~MayHaveActed(r)

\* A caller who gets a saved result gets that of an execution that really
\* returned, or one reconciliation proved from an effect that exists.
SavedRepliesAreReal ==
    \A r \in Request : reply[r] = "saved" =>
        \/ \E p \in Request : pc[p] # "body" /\ ending[p] = "return" /\ slot.val.result = p
        \/ slot.val.reconciled /\ effect # {}

\* succeeded and failed are final; outcome_unknown leaves only for one of them,
\* by the word of its own claimant or by reconciliation, never back to a state
\* that can be claimed.
TerminalStaysTerminal ==
    [][slot.val.state \in Terminal /\ slot'.rev > slot.rev =>
          /\ slot.val.state = "outcome_unknown"
          /\ slot'.val.state \in {"succeeded", "failed"}]_vars

\* An answer, once recorded, survives release, parking and lease expiry.
AnswerNeverChanges ==
    [][slot.val.answer # NoAnswer /\ slot'.rev > slot.rev => slot'.val.answer = slot.val.answer]_vars

\* A record nobody claimed before is not honoured after its expiry, neither a
\* commit token nor a confirmation, even by a request that read it in time and
\* stalled before its CAS: the store drops the key no later than the record
\* says, whatever the difference between the replicas' clocks.
NoLateFirstClaim ==
    [][\A r \in Request : pc[r] = "write" /\ pc'[r] = "body" /\ slot.rev = 1 /\ ask[r].kind # "task" =>
          now < slot.val.pending + MaxSkew]_vars

(***************************************************************************)
(* The store as an implementation of AtMostOnce: a record that cannot be   *)
(* claimed belongs to the claimant it names.                               *)
(***************************************************************************)
Owner == IF slot.val.state \in Pending THEN NoClaim ELSE slot.val.claim

Promise == INSTANCE AtMostOnce
              WITH NoOwner <- NoClaim, owner <- Owner,
                   tried <- {r \in Request : MayHaveActed(r)}, acted <- effect

\* However requests race, stall, crash and lapse, what they do to one operation
\* is what the abstract owner discipline allows, step by step (the exceptions of
\* ActsAtMostOnce are hypotheses of the theorems).
KeepsPromise == Promise!Spec

(***************************************************************************)
(* Why it holds: an inductive invariant.                                   *)
(***************************************************************************)
Running(r) == pc[r] \in {"body", "ending"}

\* The record names r as its claimant and cannot be claimed.
Holds(r) == slot.val.claim = r /\ slot.val.state \notin Pending

\* Only the worker claims deliveries, and only of tasks.
NoDeliveries == OpKind # "task" => \A r \in Request : ask[r].kind # "task" /\ pc[r] # "create"

\* Whoever runs the body, or may have changed Google state, holds the record.
OnlyHolderActs == \A r \in Request : Running(r) \/ (MayHaveActed(r) /\ ~Disowned(r)) => Holds(r)

\* The tracker forgets nothing but the attempts before a refusal: what took
\* effect is in flight, applied or uncertain, and what still may is uncertain.
TrackerKnows ==
    \A r \in Request :
        /\ r \in effect => call[r] = "landed" \/ seen[r].applied \/ seen[r].uncertain \/ Misjudged(r)
        /\ r \in loose => seen[r].uncertain \/ Misjudged(r)
        /\ started[r] = 0 => ~MayHaveActed(r) /\ ~Misjudged(r)

\* What the end of a body says about its calls, until it is settled.
EndingIsHonest ==
    \A r \in Request : pc[r] = "ending" =>
        /\ ending[r] = "ask" => started[r] = 0
        /\ ending[r] \in {"error_pre", "error_other"} => OpKind = "commit" /\ ~Uncertain(r, TRUE)
        /\ ending[r] = "raise_pre" /\ Resendable => OpKind = "commit" \/ started[r] = 0

\* A settlement that clears the record is only chosen by a request without effect.
ClearedIsUntouched ==
    \A r \in Request :
        /\ job[r] # "claim" => pc[r] \in {"read", "write", "done", "crashed"}
        /\ job[r] \in {"park", "release"} => (MayHaveActed(r) => Disowned(r))
        /\ job[r] = "fail" => (MayHaveActed(r) => Misjudged(r))

\* A draft that can still be written continues the record it was decided on.
DraftContinues(r) ==
    LET old == slot.val
        new == draft[r].val
    IN  \/ /\ job[r] = "claim" /\ draft[r].out = "claimed"
           /\ old.state \in Pending
           /\ new.state = "executing" /\ new.claim = r
        \/ /\ job[r] = "claim" /\ draft[r].out = "unknown"
           /\ old.state = "executing"
           /\ new.state = "outcome_unknown" /\ new.claim = old.claim
        \/ /\ job[r] = "resolve" /\ draft[r].out = "saved"
           /\ old.state = "outcome_unknown"
           /\ new.state = "succeeded" /\ new.claim = old.claim
        \/ /\ job[r] \in {"succeed", "mark_unknown", "fail"} /\ draft[r].out = "settled"
           /\ old.claim = r /\ old.state \in {"executing", "outcome_unknown"}
           /\ new.state \in Terminal /\ new.claim = old.claim
           /\ new.state = "outcome_unknown" => old.state = "executing"
           /\ new.state = "failed" => job[r] = "fail"
        \/ /\ job[r] \in {"park", "release"} /\ draft[r].out = "settled"
           /\ old.claim = r /\ old.state = "executing"
           /\ new.state \in Pending

DraftsAreFresh ==
    \A r \in Request : pc[r] = "write" =>
        /\ draft[r].rev \in 1 .. slot.rev
        /\ draft[r].rev = slot.rev => DraftContinues(r)

FailedIsOver ==
    slot.val.state = "failed" => \A r \in Request : ~Running(r) /\ (MayHaveActed(r) => Misjudged(r))

\* The invariant the proofs rest on, as long as nothing was dropped.  Its heart is
\* OnlyHolderActs: a request that runs, or has run with effect, is the one the
\* record names, so a second claim, which needs a pending record, finds nobody who
\* did anything.
SafetyInv ==
    /\ NoDeliveries
    /\ OnlyHolderActs
    /\ TrackerKnows
    /\ EndingIsHonest
    /\ ClearedIsUntouched
    /\ DraftsAreFresh
    /\ FailedIsOver
    /\ slot.rev = 0 => slot.val.state \in Pending

(***************************************************************************)
(* Liveness.  A live process takes its steps; every body ends (the tool    *)
(* deadline cancels it) and time goes on.  Nothing forces a caller to      *)
(* come, Google to answer, or a process to stay alive.                     *)
(***************************************************************************)
Progress(r) ==
    CreateTask(r) \/ Read(r) \/ Write(r) \/ Resolve(r) \/ EndBody(r) \/ Settle(r)

Fairness == WF_vars(Tick) /\ \A r \in Request : WF_vars(Progress(r))

FairSpec == Spec /\ Fairness

\* Every caller is answered: no store race keeps a request in its CAS loop, and
\* no record state is without an answer.
EveryRequestEnds ==
    \A r \in Request : pc[r] # "idle" ~> pc[r] \in {"done", "crashed"}

\* A crashed claimant does not block its operation: a caller that comes after
\* the lease, with the claimed arguments and answer, moves the record on (or
\* finds somebody else did).
LapsedClaimIsResolved ==
    \A r \in Request :
        slot.val.state = "executing" /\ slot.val.lease + MaxSkew <= now
            /\ pc[r] = "read" /\ job[r] = "claim" /\ ask[r].kind = OpKind
            /\ ask[r].digest \in {NoDigest, slot.val.digest}
            /\ slot.val.answer \in {NoAnswer, ask[r].answer}
        ~> ~Live(slot, now) \/ slot.val.state # "executing" \/ pc[r] = "crashed"
=============================================================================

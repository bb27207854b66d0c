----------------------------- MODULE CommitLayers -----------------------------
(***************************************************************************)
(* One commit and the tool call nested in it: four layers, each with its   *)
(* mutation tracker, and the worker threads that call Google under them.   *)
(*                                                                         *)
(*   1  confirmation guard of the tool   (settles the tool's confirmation) *)
(*   2  OperationOutcomeMiddleware of the nested call                      *)
(*   3  confirmation guard of commit_workspace_action (settles the commit) *)
(*   4  OperationOutcomeMiddleware of the commit                           *)
(*                                                                         *)
(* A call registers with the tracker of every layer, innermost first, and  *)
(* reports its end to each of them, one lock at a time, on a thread that a *)
(* cancellation abandons but does not stop.  The layers end from the       *)
(* inside out, each closing its tracker before it looks at it.  This is    *)
(* common/repeat_safety.py under settle_after_return, settle_after_failure *)
(* and record_uncertain_outcome of common/operations.py.                   *)
(***************************************************************************)
EXTENDS Integers, FiniteSets

CONSTANTS
    Call,   \* non-repeatable Google calls the tool makes
    Resent  \* those the HTTP client may send again: chat posts under a generated key

ASSUME ResentAreCalls == Resent \subseteq Call

Layers == 1 .. 4
Guards == {1, 3}

VARIABLES
    top,       \* the innermost layer that has not ended; 0 while the body runs, 5 when all have
    result,    \* what the layer below handed up
    closed,    \* layers whose tracker refuses new calls
    inFlight, applied, rejected, uncertain,  \* what each tracker holds
    outcomeRef,  \* layers whose tracker knows the reference of an unknown outcome
    rec,       \* the operation each guard claimed; the tool may have asked the user itself, or not
    step,      \* where each call's thread is
    at,        \* the next layer the thread registers with or reports to
    fate,      \* what the thread reports
    sent,      \* calls that went out
    effect     \* calls Google executed

trackers == <<inFlight, applied, rejected, uncertain>>
layerVars == <<top, result, closed, outcomeRef, rec>>
threadVars == <<step, at, fate, sent, effect>>
vars == <<layerVars, trackers, threadVars>>

\* The layers with an operation to settle (tracker.operation).
Claimed == {l \in Guards : rec[l] # "none"}

Result == {"return", "error_unknown", "error_other", "error_pre", "raise_other", "raise_pre", "cancel"}
RecordState == {"none", "executing", "succeeded", "failed", "outcome_unknown", "released"}
ThreadStep == {"new", "start", "undo", "refused", "sent", "finish", "over"}
Fate == {"applied", "rejected", "uncertain"}

Init ==
    /\ top = 0
    /\ result = "return"
    /\ closed = {}
    /\ inFlight = [l \in Layers |-> {}]
    /\ applied = [l \in Layers |-> {}]
    /\ rejected = [l \in Layers |-> {}]
    /\ uncertain = [l \in Layers |-> {}]
    /\ outcomeRef = {}
    /\ rec \in [Guards -> {"none", "executing"}] /\ rec[3] = "executing"
    /\ step = [c \in Call |-> "new"]
    /\ at = [c \in Call |-> 1]
    /\ fate = [c \in Call |-> "uncertain"]
    /\ sent = {}
    /\ effect = {}

(***************************************************************************)
(* A worker thread (track_provider_call).                                  *)
(***************************************************************************)
Thread(c, from, to, layer) ==
    /\ step[c] = from
    /\ step' = [step EXCEPT ![c] = to]
    /\ at' = [at EXCEPT ![c] = layer]

Add(set, l, c) == [set EXCEPT ![l] = @ \cup {c}]
Remove(set, l, c) == [set EXCEPT ![l] = @ \ {c}]

Begin(c) ==
    /\ Thread(c, "new", "start", 1)
    /\ UNCHANGED <<layerVars, trackers, fate, sent, effect>>

\* Mutant of Register: the tracker is not asked whether it is closed.
RegisterAlways(c) ==
    LET l == at[c]
    IN  /\ l \in Layers
        /\ inFlight' = Add(inFlight, l, c)
        /\ Thread(c, "start", "start", l + 1)
        /\ UNCHANGED <<layerVars, applied, rejected, uncertain, fate, sent, effect>>

\* _start at one tracker: register, or, if it is closed, back out of all.
Register(c) ==
    LET l == at[c]
    IN  /\ step[c] = "start"
        /\ l \in Layers
        /\ \/ l \notin closed /\ inFlight' = Add(inFlight, l, c) /\ Thread(c, "start", "start", l + 1)
           \/ l \in closed /\ Thread(c, "start", "undo", l - 1) /\ UNCHANGED inFlight
        /\ UNCHANGED <<layerVars, applied, rejected, uncertain, fate, sent, effect>>

BackOut(c) ==
    /\ step[c] = "undo"
    /\ \/ at[c] = 0 /\ Thread(c, "undo", "refused", 0) /\ UNCHANGED inFlight
       \/ /\ at[c] > 0
          /\ inFlight' = Remove(inFlight, at[c], c)
          /\ Thread(c, "undo", "undo", at[c] - 1)
    /\ UNCHANGED <<layerVars, applied, rejected, uncertain, fate, sent, effect>>

Send(c) ==
    /\ at[c] = 5
    /\ Thread(c, "start", "sent", 5)
    /\ sent' = sent \cup {c}
    /\ UNCHANGED <<layerVars, trackers, fate, effect>>

\* The call's thread has an answer it takes for "not executed"; of a call that
\* was sent again the answer is that of the last attempt only.
Refused(c) == step[c] \in {"finish", "over"} /\ fate[c] = "rejected"
Misjudged(c) == c \in Resent /\ Refused(c)

\* Google executes a call that is out, or that its thread gave up on.
Land(c) ==
    /\ c \in sent \ effect
    /\ \/ step[c] = "sent"
       \/ step[c] \in {"finish", "over"} /\ fate[c] = "uncertain"
       \/ Misjudged(c)
    /\ effect' = effect \cup {c}
    /\ UNCHANGED <<layerVars, trackers, step, at, fate, sent>>

\* An answer (applied), a definitive 4xx (rejected, _definitive_rejection), or
\* neither.  A refused call that was sent again may have landed all the same.
Answer(c) ==
    /\ Thread(c, "sent", "finish", 1)
    /\ \E f \in Fate :
          /\ f = "applied" => c \in effect
          /\ f = "rejected" => c \notin effect \/ c \in Resent
          /\ fate' = [fate EXCEPT ![c] = f]
    /\ UNCHANGED <<layerVars, trackers, sent, effect>>

\* _finish at one tracker: out of the calls in flight, into its list.
Report(c) ==
    LET l == at[c]
    IN  /\ step[c] = "finish"
        /\ inFlight' = Remove(inFlight, l, c)
        /\ applied' = IF fate[c] = "applied" THEN Add(applied, l, c) ELSE applied
        /\ rejected' = IF fate[c] = "rejected" THEN Add(rejected, l, c) ELSE rejected
        /\ uncertain' = IF fate[c] = "uncertain" THEN Add(uncertain, l, c) ELSE uncertain
        /\ Thread(c, "finish", IF l = 4 THEN "over" ELSE "finish", IF l = 4 THEN 5 ELSE l + 1)
        /\ UNCHANGED <<layerVars, fate, sent, effect>>

(***************************************************************************)
(* The layers.  Above a guard the execution guard turns an exception into  *)
(* an error result and ProductionControlMiddleware's deadline turns a      *)
(* cancellation, fresh or already under way, into a TimeoutError; above a  *)
(* middleware StructuredToolErrorMiddleware turns what is raised into an   *)
(* error result, and gives Google's own errors their code; anywhere the    *)
(* client, or a deadline further out, may cancel.                          *)
(***************************************************************************)
AsError(r) ==
    CASE r = "raise_other" -> {r, "error_other", "error_pre"}
      [] r = "raise_pre" -> {r, "error_pre"}
      [] OTHER -> {r}

\* Layer l ends and hands r up.
HandUp(l, r) ==
    /\ top' = l + 1
    /\ result' \in AsError(r) \cup {"cancel"} \cup (IF l \in Guards THEN {"raise_other"} ELSE {})

EndBody ==
    /\ top = 0
    /\ top' = 1
    /\ result' \in {"return", "raise_other", "raise_pre", "cancel"}
    /\ UNCHANGED <<closed, outcomeRef, rec, trackers, threadVars>>

Raised == result \in {"raise_other", "raise_pre", "cancel"}

\* settle_* and the failing middleware close the tracker before they look at it.
Close(l) ==
    /\ top = l
    /\ l \in Guards \/ result \in {"raise_other", "raise_pre"}
    /\ l \notin closed
    /\ closed' = closed \cup {l}
    /\ UNCHANGED <<top, result, outcomeRef, rec, trackers, threadVars>>

\* uncertain_calls
Unsure(l, bodyFailed) == inFlight[l] \cup uncertain[l] \cup (IF bodyFailed THEN applied[l] ELSE {}) # {}

\* Mutant of RecordUncertain: evidence is written although an enclosing layer
\* claimed the operation, and the chain takes it for the record.
RecordUncertainTwice(l) ==
    \/ l \in outcomeRef /\ UNCHANGED <<rec, outcomeRef>>
    \/ /\ l \notin outcomeRef
       /\ rec' = IF l \in Claimed THEN [rec EXCEPT ![l] = "outcome_unknown"] ELSE rec
       /\ outcomeRef' = outcomeRef \cup (l .. 4)

\* record_uncertain_outcome: mark the own operation, leave it to an enclosing
\* claimant, or write evidence; whoever records tells the whole chain.
RecordUncertain(l) ==
    \/ l \in outcomeRef /\ UNCHANGED <<rec, outcomeRef>>
    \/ /\ l \notin outcomeRef
       /\ l \in Claimed
       /\ rec' = [rec EXCEPT ![l] = "outcome_unknown"]
       /\ outcomeRef' = outcomeRef \cup (l .. 4)
    \/ /\ l \notin outcomeRef
       /\ l \notin Claimed
       /\ \E m \in Claimed : m > l
       /\ UNCHANGED <<rec, outcomeRef>>
    \/ /\ l \notin outcomeRef
       /\ l \notin Claimed
       /\ \A m \in Claimed : m < l
       /\ outcomeRef' = outcomeRef \cup (l .. 4)
       /\ UNCHANGED rec

\* The state a guard settles its claim in once nothing is uncertain.
Settlement(l) ==
    CASE result = "return" -> "succeeded"
      [] result = "error_unknown" -> "outcome_unknown"
      [] result \in {"error_other", "raise_other", "cancel"} /\ rejected[l] # {} -> "failed"
      [] OTHER -> "released"

\* settle_after_return and settle_after_failure.
SettleGuard(l) ==
    /\ l \in Guards
    /\ top = l
    /\ l \in closed
    /\ \/ /\ Unsure(l, Raised)
          /\ RecordUncertain(l)
          /\ HandUp(l, IF result = "cancel" THEN result ELSE "error_unknown")
       \/ /\ ~Unsure(l, Raised)
          /\ rec' = IF l \in Claimed THEN [rec EXCEPT ![l] = Settlement(l)] ELSE rec
          /\ HandUp(l, result)
          /\ UNCHANGED outcomeRef
    /\ UNCHANGED <<closed, trackers, threadVars>>

\* OperationOutcomeMiddleware: only an exception makes it look.
EndMiddleware(l) ==
    /\ l \in Layers \ Guards
    /\ top = l
    /\ \/ /\ l \notin closed
          /\ result \notin {"raise_other", "raise_pre"}
          /\ HandUp(l, result)
          /\ UNCHANGED <<rec, outcomeRef>>
       \/ /\ l \in closed
          /\ Unsure(l, TRUE)
          /\ RecordUncertain(l)
          /\ HandUp(l, "error_unknown")
       \/ /\ l \in closed
          /\ ~Unsure(l, TRUE)
          /\ HandUp(l, result)
          /\ UNCHANGED <<rec, outcomeRef>>
    /\ UNCHANGED <<closed, trackers, threadVars>>

Next ==
    \/ EndBody
    \/ \E l \in Layers : Close(l) \/ SettleGuard(l) \/ EndMiddleware(l)
    \/ \E c \in Call :
          Begin(c) \/ Register(c) \/ BackOut(c) \/ Send(c) \/ Land(c) \/ Answer(c) \/ Report(c)

Spec == Init /\ [][Next]_vars
-----------------------------------------------------------------------------
TypeOK ==
    /\ top \in 0 .. 5
    /\ result \in Result
    /\ closed \subseteq Layers
    /\ inFlight \in [Layers -> SUBSET Call] /\ applied \in [Layers -> SUBSET Call]
    /\ rejected \in [Layers -> SUBSET Call] /\ uncertain \in [Layers -> SUBSET Call]
    /\ outcomeRef \subseteq Layers
    /\ rec \in [Guards -> RecordState]
    /\ step \in [Call -> ThreadStep]
    /\ at \in [Call -> 0 .. 5]
    /\ fate \in [Call -> Fate]
    /\ effect \subseteq sent /\ sent \subseteq Call

\* The call changed Google state, or still may.
MayHaveActed(c) == c \in effect \/ (c \in sent /\ ~(Refused(c) /\ c \notin Resent))

\* An operation is only cleared for another try, or recorded as failed, if none
\* of its calls had an effect or still can, whatever abandoned threads do while
\* and after the layers end ("must not start a send nobody will account for").
\* It does not extend to a chat post that was sent again and refused then.
ClearedMeansUntouched ==
    \A l \in Guards : rec[l] \in {"released", "failed"} => \A c \in Call : MayHaveActed(c) => Misjudged(c)

\* "Marks the claimed operation (this layer's or an enclosing one's)": once its
\* guard has ended, no operation is left executing for its lease to find - save
\* the commit, when the confirmation of its nested tool has already recorded the
\* unknown outcome for the whole chain.
ClaimsSettledUnlessToldAlready ==
    \A l \in Guards : top > l /\ rec[l] = "executing" => l = 3 /\ rec[1] = "outcome_unknown"
=============================================================================

------------------------------ MODULE ToolCalls ------------------------------
(***************************************************************************)
(* One intention of a client, carried through the consent gate, the tool   *)
(* body and the settlement of what its Google calls did: tool calls,       *)
(* dry runs, prepare and commit, confirmation questions and their answers. *)
(* common/consent.py decides, common/confirmation.py asks and wraps the    *)
(* body, common/approvals.py and server.py prepare and commit,             *)
(* common/operations.py settles; auth/google_auth.py resends requests.     *)
(*                                                                         *)
(* The client sends one request at a time and gets every reply (racing     *)
(* requests and lapsing records are OperationStore's subject); it may      *)
(* repeat a commit or an answer whenever it likes.  It calls the tool or   *)
(* prepares it afresh after an error, unless an earlier reply has said     *)
(* that the action was or may have been taken, and calls a tool that is    *)
(* hinted idempotent whenever it likes.                                    *)
(***************************************************************************)
EXTENDS GoogleMethods, Sequences

CONSTANTS
    ToolBodies,  \* tool name -> the runs of its body
    Policies,    \* tool name -> its policy
    TaskTools,      \* tools a client may run as a background task
    PreviewReads,   \* tools whose preview reads the account
    MaxRequests, MaxFaults,  \* bounds: requests of the client, failures
    MaxRetries      \* get_runtime_settings().http_retries

\* Hinted idempotent though a batch update is not: what they replaced once
\* they do not find again.
TextReplacers == {"docs_replace_document_text", "slides_replace_text_in_presentation"}

trigger_for(p, arguments) == \E trigger \in p.triggers : trigger \subseteq arguments

\* A call whose outcome no tracker has to settle.
RepeatsSafely(called) == Tracked(called) => Classify(called) \in CALL_REPEAT_SAFE

ASSUME EveryToolHasAPolicy == DOMAIN ToolBodies \subseteq DOMAIN Policies
\* The draft of gmail_send_draft is named by its id; every other preview that
\* reads the account shares what it reads with the body.
ASSUME PreviewsAreShared ==
    \A tool \in (PreviewReads \cap DOMAIN ToolBodies) \ {"gmail_send_draft"} : \A run \in ToolBodies[tool] :
        \E i \in DOMAIN run.calls : run.calls[i].shared
ASSUME BodiesAreFinite ==
    \A tool \in DOMAIN ToolBodies : \A run \in ToolBodies[tool] :
        Len(run.calls) \in Nat /\ DOMAIN run.calls = 1 .. Len(run.calls)
\* What cannot be taken back fires a trigger of its tool, however the
\* arguments are combined.
ASSUME HarmFiresTriggers ==
    \A tool \in DOMAIN ToolBodies : \A run \in ToolBodies[tool] :
        (\E i \in DOMAIN run.calls : run.calls[i].method \in Irreversible)
            => trigger_for(Policies[tool], run.args)
\* A tool hinted idempotent only makes calls that are safe to repeat.
ASSUME HintedRepeatsSafely ==
    \A tool \in DOMAIN ToolBodies \ TextReplacers : Policies[tool].idempotent =>
        \A run \in ToolBodies[tool] : \A i \in DOMAIN run.calls : RepeatsSafely(run.calls[i])
ASSUME BoundsAreNumbers == MaxRequests \in Nat /\ MaxFaults \in Nat /\ MaxRetries \in Nat

VARIABLES
    call,      \* what the client wants: a tool, what its arguments are like, and the body's calls
    setting,   \* MCP_CONSENT, how the client can be asked, and whether it runs calls as tasks
    world,     \* the version of what the preview reads, 1 or 2
    pc,        \* where the request in hand is: idle, prompted, body, returned, raised or refused
    version,   \* of the arguments this request carries: 1 as shown, 2 edited
    via,       \* the tool itself ("call") or commit_workspace_action ("commit")
    seen,      \* the world this request's preview was rendered from; 0 if it read none
    step, try, \* the body's call, and how often this one was resent
    tracker,   \* how the calls that must not be repeated ended
    landed,    \* what Google (or this machine) executed
    token,     \* the prepared operation's record, and the world its preview showed
    question,  \* the latest confirmation's record
    consents,  \* what the user agreed to
    reply,     \* to the latest request
    told,      \* whether a reply has said that the action was or may have been taken
    requests, faults

configVars == <<call, setting>>
bodyVars == <<step, try, tracker, landed>>
recordVars == <<token, question, consents>>
vars == <<configVars, world, pc, version, via, seen, bodyVars, recordVars, reply, told, requests, faults>>

policy == Policies[call.tool]

Asks == trigger_for(policy, call.args)
Gated == Asks /\ setting.mode # "off"

Answers == {"none", "accept", "decline"}
NoQuestion == [state |-> "none", version |-> 0, world |-> 0, answer |-> "none", via |-> "call"]
Settled == {"succeeded", "failed", "unknown"}
RecordStates == {"none", "open", "executing"} \cup Settled

------------------------------------------------------------------------------
Intentions ==
    UNION {{[tool |-> tool, args |-> run.args, calls |-> run.calls] : run \in ToolBodies[tool]} :
              tool \in DOMAIN ToolBodies}

Settings == [mode : {"off", "preview_only", "required"},
             client : {"mute", "legacy", "modern"},
             background : BOOLEAN]

\* A task needs a tool that supports it and a client that runs tasks; where
\* nobody is asked one setting stands for all.
Init ==
    /\ call \in Intentions
    /\ setting \in Settings
    /\ setting.background => (call.tool \in TaskTools /\ setting.client # "legacy")
    /\ setting.mode = "required" \/ setting.client = "modern"
    /\ Gated \/ setting = [mode |-> IF Asks THEN "off" ELSE "required",
                          client |-> "modern", background |-> FALSE]
    /\ world = 1
    /\ pc = "idle"
    /\ version = 1
    /\ via = "call"
    /\ seen = 0
    /\ step = 0
    /\ try = 0
    /\ tracker = {}
    /\ landed = {}
    /\ token = [state |-> "none", world |-> 0]
    /\ question = NoQuestion
    /\ consents = {}
    /\ reply = "none"
    /\ told = FALSE
    /\ requests = 0
    /\ faults = 0

\* Somebody edits the draft, or the message that is replied to is filed.
Change ==
    /\ call.tool \in PreviewReads
    /\ world = 1
    /\ world' = 2
    /\ UNCHANGED <<configVars, pc, version, via, seen, bodyVars, recordVars, reply, told, requests, faults>>

------------------------------------------------------------------------------
(***************************************************************************)
(* The gate: TaskConsentMiddleware, then enforce_consent.                  *)
(***************************************************************************)
Arrive(v, how) ==
    /\ pc = "idle"
    /\ requests < MaxRequests
    /\ requests' = requests + 1
    /\ version' = v
    /\ via' = how
    /\ UNCHANGED <<configVars, world, try, tracker, landed, told>>

Rendered == IF call.tool \in PreviewReads THEN world ELSE 0

Reply(what) == pc' = "idle" /\ reply' = what /\ UNCHANGED step
RunBody == pc' = "body" /\ step' = 1 /\ UNCHANGED reply
Spend == faults < MaxFaults /\ faults' = faults + 1

\* render_preview raises: what it reads is gone, or Google does not answer.
PreviewFails ==
    /\ call.tool \in PreviewReads
    /\ Spend
    /\ seen' = 0
    /\ Reply("error")

\* A background task asks through its own input loop, whatever the client is.
_client_can_be_asked(how) == setting.client # "mute" \/ (setting.background /\ how = "call")

\* Mutant of _task_capable: the middleware lets every task be submitted.
_task_capable_never == FALSE
_task_capable == call.tool \in TaskTools

\* confirmation_required, with the prepare step to take instead.
Refused ==
    \/ setting.mode = "preview_only"
    \/ ~_client_can_be_asked("call")
    \/ _task_capable /\ setting.client = "mute"

\* confirm_destructive_action: an inline prompt, or a question that is saved
\* and whose answer arrives with a later request.
Ask(how, parked) ==
    /\ \/ /\ setting.client = "legacy"
          /\ pc' = "prompted"
          /\ seen' = Rendered
          /\ UNCHANGED <<question, reply, step>>
       \/ /\ setting.client # "legacy"
          /\ seen' = 0
          /\ question' = [state |-> "open", version |-> 1, world |-> Rendered,
                          answer |-> "none", via |-> how]
          /\ Reply("ask")
    /\ token' = [token EXCEPT !.state = IF how = "commit" /\ setting.client = "legacy"
                                        THEN "executing" ELSE parked]
    /\ UNCHANGED faults

CallTool ==
    /\ Arrive(1, "call")
    /\ token.state = "none"
    /\ \/ ~told /\ reply \in {"none", "error", "dry_run"}
       \/ policy.idempotent /\ reply # "confirmation_required"
    /\ \/ ~Gated /\ RunBody /\ seen' = 0 /\ UNCHANGED <<faults, question, token>>
       \/ Gated /\ Refused /\ Reply("confirmation_required") /\ seen' = 0
            /\ UNCHANGED <<faults, question, token>>
       \/ Gated /\ ~Refused /\ PreviewFails /\ UNCHANGED <<question, token>>
       \/ Gated /\ ~Refused /\ Ask("call", "none")
    /\ UNCHANGED consents

\* Mutant of DryRun: a call whose trigger the flag silences goes on to the body.
DryRunRuns ==
    /\ policy.dry_run
    /\ reply = "none"
    /\ Arrive(1, "call")
    /\ RunBody
    /\ UNCHANGED <<seen, faults, recordVars>>

\* dry_run = true: the preview, and no body.
DryRun ==
    /\ policy.dry_run
    /\ reply = "none"
    /\ Arrive(1, "call")
    /\ Reply("dry_run")
    /\ UNCHANGED <<seen, faults, recordVars>>

------------------------------------------------------------------------------
(***************************************************************************)
(* prepare_workspace_action and commit_workspace_action.                   *)
(***************************************************************************)
Prepare ==
    /\ Arrive(1, "call")
    /\ ~told
    /\ reply \in {"none", "confirmation_required", "dry_run", "error"}
    /\ \/ ~Asks /\ Reply("error") /\ seen' = 0 /\ UNCHANGED <<faults, token>>
       \/ Asks /\ PreviewFails /\ UNCHANGED token
       \/ /\ Asks
          /\ token' = [state |-> "open", world |-> Rendered]
          /\ seen' = 0
          /\ Reply("prepared")
          /\ UNCHANGED faults
    /\ UNCHANGED <<question, consents>>

\* The user saw the prepared preview: committing it is an agreement to it.
CommitConsent == [how |-> "commit", version |-> 1, world |-> token.world]

\* A token already used: the saved result, the failure or "unknown" again.
ReplayCommit ==
    /\ token.state \in Settled
    /\ Arrive(1, "commit")
    /\ Reply("replayed")
    /\ UNCHANGED <<seen, faults, recordVars>>

\* The client that cannot be asked has consented by committing; the others
\* are asked, and the token waits for the answer.
Commit ==
    /\ token.state = "open"
    /\ Arrive(1, "commit")
    /\ consents' = consents \cup {CommitConsent}
    /\ \/ /\ ~Gated \/ setting.mode = "preview_only" \/ ~_client_can_be_asked("commit")
          /\ RunBody
          /\ seen' = IF Gated THEN Rendered ELSE 0
          /\ token' = [token EXCEPT !.state = "executing"]
          /\ UNCHANGED <<faults, question>>
       \/ Gated /\ PreviewFails /\ UNCHANGED <<question, token>>
       \/ /\ Gated /\ setting.mode = "required" /\ _client_can_be_asked("commit")
          /\ Ask("commit", "open")

------------------------------------------------------------------------------
(***************************************************************************)
(* Answers.                                                                *)
(***************************************************************************)
\* What an accepted answer agrees to; an answer that contradicts an earlier
\* one is the client's replay, not the user's.
UserAgreed(answer) ==
    IF answer = "accept" /\ question.answer # "decline"
    THEN consents \cup {[how |-> "question", version |-> question.version, world |-> question.world]}
    ELSE consents

\* Mutant of _verify_claims: only the arguments are compared with the question.
_verify_claims_arguments(v) == v = question.version
_verify_claims(v) == v = question.version /\ Rendered = question.world

\* The answering round of a question: the preview is rendered again, the
\* continuation must be of these arguments and this preview, and the
\* record takes one answer only.  A client that went on to prepare the
\* action leaves the question of its call unanswered.
Answer(v, answer) ==
    LET claimable == question.state = "open" /\ question.answer \in {"none", answer}
        accepted == _verify_claims(v) /\ claimable /\ answer = "accept"
        declined == _verify_claims(v) /\ claimable /\ answer = "decline"
        ended(record, how) == [record EXCEPT !.state = IF question.via = "commit" THEN how ELSE @]
    IN  /\ question.state # "none"
        /\ token.state = IF question.via = "commit" THEN "open" ELSE "none"
        /\ question.via = "commit" => v = 1
        /\ setting.background => v = 1
        /\ Arrive(v, question.via)
        /\ consents' = UserAgreed(answer)
        /\ \/ PreviewFails /\ UNCHANGED <<question, token>>
           \/ /\ accepted
              /\ RunBody
              /\ question' = [question EXCEPT !.state = "executing", !.answer = answer]
              /\ token' = ended(token, "executing")
              /\ seen' = Rendered
              /\ UNCHANGED faults
           \/ /\ declined
              /\ Reply("cancelled")
              /\ question' = [question EXCEPT !.state = "succeeded", !.answer = answer]
              /\ token' = ended(token, "succeeded")
              /\ seen' = 0
              /\ UNCHANGED faults
           \/ /\ ~accepted /\ ~declined
              /\ Reply(IF _verify_claims(v) /\ question.state \in Settled THEN "replayed" ELSE "error")
              /\ seen' = 0
              /\ UNCHANGED <<faults, question, token>>

\* The inline prompt of a legacy client.
Prompted(answer) ==
    /\ pc = "prompted"
    /\ \/ /\ answer = "accept"
          /\ consents' = consents \cup {[how |-> "prompt", version |-> version, world |-> seen]}
          /\ RunBody
          /\ UNCHANGED <<token, seen>>
       \/ /\ answer = "decline"
          /\ Reply("cancelled")
          /\ token' = [token EXCEPT !.state = IF via = "commit" THEN "succeeded" ELSE @]
          /\ seen' = 0
          /\ UNCHANGED consents
    /\ UNCHANGED <<configVars, world, version, via, try, tracker, landed, question, told, requests, faults>>

------------------------------------------------------------------------------
(***************************************************************************)
(* The body: LazyGoogleRequest.execute under track_provider_call, with     *)
(* RetryingHttpRequest.execute resending what may be resent.               *)
(***************************************************************************)
Step == call.calls[step]
HasNext == pc = "body" /\ step <= Len(call.calls)

\* memoized: the preview has read it in this very request.
memoized == Step.shared /\ seen # 0

Calling == HasNext /\ ~memoized

\* Two executions are one when Google sees the same key twice, or when
\* nothing is added by the second.
Identity ==
    IF Step.method \notin Adds \/ Step.key = "caller" THEN <<0, 0>>
    ELSE IF Step.key = "generated" THEN <<requests, 0>> ELSE <<requests, try>>

\* What the preview read is reused by a body that shares its reads.
Content ==
    IF call.tool \notin PreviewReads THEN 0
    ELSE IF seen # 0 /\ \E i \in DOMAIN call.calls : call.calls[i].shared THEN seen ELSE world

Landed ==
    IF is_mutating(Step)
    THEN landed \cup {[step |-> step, identity |-> Identity, version |-> version, world |-> Content]}
    ELSE landed

\* Mutant of Ended: calls that may be repeated are remembered as well.
EndedAll(outcome) == IF Tracked(Step) THEN tracker \cup {outcome} ELSE tracker

Ended(outcome) ==
    IF Tracked(Step) /\ Classify(Step) \notin CALL_REPEAT_SAFE THEN tracker \cup {outcome} ELSE tracker

InBody == UNCHANGED <<configVars, world, version, via, recordVars, requests, reply, told>>

Succeeds ==
    /\ Calling
    /\ landed' = Landed
    /\ tracker' = Ended("applied")
    /\ try' = 0
    /\ step' = IF Step.then = "return" THEN Len(call.calls) + 1 ELSE step + 1
    /\ pc' = IF Step.then = "raise" THEN "raised" ELSE pc
    /\ UNCHANGED <<seen, faults>>
    /\ InBody

SkipShared ==
    /\ HasNext
    /\ memoized
    /\ step' = step + 1
    /\ UNCHANGED <<pc, seen, try, tracker, landed, faults>>
    /\ InBody

MayLand(failure) == landed' = landed \/ (failure = "lost" /\ landed' = Landed)

Resendable(failure) ==
    failure \in {"throttled", "lost"} /\ try < http_retry_budget(Step, MaxRetries)

Resend(failure) ==
    /\ Calling
    /\ Resendable(failure)
    /\ Spend
    /\ MayLand(failure)
    /\ try' = try + 1
    /\ UNCHANGED <<pc, seen, step, tracker>>
    /\ InBody

_definitive_rejection(failure) == failure \in Rejections

\* "refused" is a raise whose code says that nothing was attempted (429).
Fails(failure) ==
    /\ Calling
    /\ Step.method \in Local => failure = "lost"
    /\ ~Resendable(failure)
    /\ Spend
    /\ MayLand(failure)
    /\ tracker' = Ended(IF _definitive_rejection(failure) THEN "rejected" ELSE "uncertain")
    /\ try' = 0
    /\ \/ failure \in Step.skip /\ step' = step + 1 /\ UNCHANGED pc
       \/ /\ failure \notin Step.skip
          /\ pc' = IF failure = "throttled" THEN "refused" ELSE "raised"
          /\ UNCHANGED step
    /\ UNCHANGED seen
    /\ InBody

\* The deadline cancels the body; the thread of its call goes on.
Deadline ==
    /\ Calling
    /\ Spend
    /\ MayLand("lost")
    /\ tracker' = Ended("uncertain")
    /\ try' = 0
    /\ pc' = "raised"
    /\ UNCHANGED <<seen, step>>
    /\ InBody

\* A failure of the body's own: a file, an answer it cannot read, an open
\* circuit, or credentials, whose error says that nothing was attempted.
BodyRaises ==
    /\ pc = "body"
    /\ try = 0
    /\ Spend
    /\ pc' \in {"raised", "refused"}
    /\ UNCHANGED <<seen, step, try, tracker, landed>>
    /\ InBody

BodyReturns ==
    /\ pc = "body"
    /\ step > Len(call.calls)
    /\ pc' = "returned"
    /\ UNCHANGED <<seen, step, try, tracker, landed, faults>>
    /\ InBody

------------------------------------------------------------------------------
(***************************************************************************)
(* settle_after_return, settle_after_failure, and the middleware for tools *)
(* without a guard: the records of this request and the reply.             *)
(***************************************************************************)
uncertain_calls == "uncertain" \in tracker \/ (pc # "returned" /\ "applied" \in tracker)

\* A raw error of Google carries no code for the tool's own guard, so there a
\* throttled call may count as refused for good; the commit sees the code.
Settlements(coded) ==
    IF uncertain_calls THEN {"unknown"}
    ELSE IF pc = "returned" THEN {"succeeded"}
    ELSE IF "rejected" \notin tracker THEN {"open"}
    ELSE IF pc = "raised" THEN {"failed"}
    ELSE IF coded THEN {"open"} ELSE {"open", "failed"}

settle(record, how) == [record EXCEPT !.state = IF @ = "executing" THEN how ELSE @]

Settle ==
    /\ pc \in {"returned", "raised", "refused"}
    /\ \E how \in Settlements(FALSE) : question' = settle(question, how)
    /\ \E how \in Settlements(TRUE) : token' = settle(token, how)
    /\ reply' = IF uncertain_calls THEN "unknown" ELSE IF pc = "returned" THEN "done" ELSE "error"
    /\ told' = (told \/ reply' # "error")
    /\ pc' = "idle"
    /\ step' = 0
    /\ tracker' = {}
    /\ seen' = 0
    /\ try' = 0
    /\ UNCHANGED <<configVars, world, version, via, landed, consents, requests, faults>>

Next ==
    \/ Change
    \/ CallTool
    \/ DryRun
    \/ Prepare
    \/ Commit
    \/ ReplayCommit
    \/ \E v \in {1, 2}, answer \in {"accept", "decline"} : Answer(v, answer)
    \/ \E answer \in {"accept", "decline"} : Prompted(answer)
    \/ Succeeds
    \/ SkipShared
    \/ \E failure \in Failures : Resend(failure) \/ Fails(failure)
    \/ Deadline
    \/ BodyRaises
    \/ BodyReturns
    \/ Settle

Spec == Init /\ [][Next]_vars

------------------------------------------------------------------------------
Identities == (0 .. MaxRequests) \X (0 .. MaxRetries)

TypeOK ==
    /\ call.tool \in DOMAIN ToolBodies
    /\ setting \in Settings
    /\ world \in {1, 2}
    /\ pc \in {"idle", "prompted", "body", "returned", "raised", "refused"}
    /\ version \in {1, 2}
    /\ via \in {"call", "commit"}
    /\ seen \in {0, 1, 2}
    /\ step \in Nat
    /\ try \in 0 .. MaxRetries
    /\ tracker \subseteq {"applied", "rejected", "uncertain"}
    /\ landed \subseteq [step : Nat, identity : Identities, version : {1, 2}, world : {0, 1, 2}]
    /\ token \in [state : RecordStates, world : {0, 1, 2}]
    /\ question \in [state : RecordStates, version : {0, 1}, world : {0, 1, 2}, answer : Answers,
                     via : {"call", "commit"}]
    /\ consents \subseteq [how : {"commit", "question", "prompt"}, version : {1, 2}, world : {0, 1, 2}]
    /\ reply \in {"none", "error", "dry_run", "confirmation_required", "prepared", "ask", "cancelled",
                  "replayed", "done", "unknown"}
    /\ told \in BOOLEAN
    /\ requests \in 0 .. MaxRequests
    /\ faults \in 0 .. MaxFaults
    \* A record is executing only while its request is; nothing else is left behind.
    /\ "executing" \in {token.state, question.state} => pc # "idle"

\* A consequential call changes nothing anywhere before the user has agreed to
\* it: to the question, at the prompt, or by letting the prepared action be
\* committed; an answer that contradicts the user's first one is not theirs.
NothingBeforeConsent == Gated /\ landed # {} => consents # {}

\* What cannot be taken back is always asked for: no run of any tool, however
\* its arguments are combined, reaches an irreversible method ungated.
HarmIsAsked ==
    setting.mode # "off" /\ (\E l \in landed : call.calls[l.step].method \in Irreversible)
        => consents # {}

MustAsk == Gated /\ setting.mode = "required" /\ setting.client # "mute"

\* Where a client can be asked, what is executed is what its user was shown:
\* the arguments of the question, and the account as its preview read it.
\* gmail_send_draft names its draft by id only: see the README.
RunsAsShown ==
    MustAsk =>
        \A l \in landed : \E c \in consents :
            /\ c.how \in {"question", "prompt"}
            /\ c.version = l.version
            /\ call.tool # "gmail_send_draft" => c.world = l.world

Executions(s) == {l.identity : l \in {x \in landed : x.step = s}}

\* One intention adds one thing: whatever is lost, resent, answered twice or
\* committed again, and however often the client calls again as long as no
\* reply said "done" or "unknown" (or always, for a tool hinted idempotent),
\* no call of the body is executed under two identities.  Chat messages under
\* a generated key and the text replacement tools are left to the README.
NoDuplicates ==
    \A s \in DOMAIN call.calls :
        /\ call.calls[s].key # "generated"
        /\ call.tool \notin TextReplacers
        => \A x, y \in Executions(s) : x = y

\* common/repeat_safety.py:24-26: "HTTP-level retries inside one call are safe,
\* a new tool call is not", so a call that Google may have executed is never
\* reported as a plain error.
GeneratedKeysAreEnough ==
    \A s \in DOMAIN call.calls :
        call.calls[s].key = "generated" => \A x, y \in Executions(s) : x = y

\* A tool hinted idempotent never answers that its outcome is unknown and must
\* be verified before it is repeated.
HintedNeverUnknown ==
    policy.idempotent /\ call.tool \notin TextReplacers => reply # "unknown"

\* A question is only put to a client that can answer it: no task parks for an
\* answer that cannot come, and a client without elicitation is sent to
\* prepare and commit.
NeverAskedInVain == setting.client = "mute" => reply # "ask" /\ pc # "prompted"
=============================================================================

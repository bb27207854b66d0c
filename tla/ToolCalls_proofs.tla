--------------------------- MODULE ToolCalls_proofs ---------------------------
(***************************************************************************)
(* Whatever the tools and their policies are, nothing consequential runs   *)
(* before the user has agreed, what runs is what a user who can be asked   *)
(* was shown, and nobody is asked who cannot answer.                       *)
(***************************************************************************)
EXTENDS ToolCalls, TLAPS

Busy == pc \in {"body", "returned", "raised", "refused"}

Shares == \E i \in DOMAIN call.calls : call.calls[i].shared

\* The user's agreement to what this request carries.
AgreedHere ==
    \E c \in consents : c.how \in {"question", "prompt"} /\ c.version = version /\ c.world = seen

\* What the preview of this request read.
SeenIsRendered ==
    /\ call.tool \in PreviewReads => seen \in {1, 2}
    /\ call.tool \notin PreviewReads => seen = 0

(***************************************************************************)
(* The inductive invariant: the agreement is there as soon as the body     *)
(* starts, and it is to this request's arguments and preview.              *)
(***************************************************************************)
ConsentInv ==
    /\ world \in {1, 2}
    /\ call.tool \in PreviewReads \ {"gmail_send_draft"} => Shares
    /\ pc = "prompted" => SeenIsRendered
    /\ Gated /\ Busy => consents # {}
    /\ MustAsk /\ Busy => AgreedHere /\ SeenIsRendered
    /\ NothingBeforeConsent
    /\ RunsAsShown

\* The intention and the setting never change.
LEMMA IntentionStays == [Next]_vars => call' = call /\ setting' = setting
  BY DEF vars, configVars, InBody, Next, Change, CallTool, DryRun, Prepare, Commit, ReplayCommit,
         Answer, Arrive, Prompted, Succeeds, SkipShared, Resend, Fails, Deadline, BodyRaises,
         BodyReturns, Settle

\* Nothing has run or been asked yet.
LEMMA ConsentInit == Init => ConsentInv
  <1> SUFFICES ASSUME Init PROVE ConsentInv
    OBVIOUS
  <1>1. call.tool \in PreviewReads \ {"gmail_send_draft"} => Shares
    <2>1. PICK tool \in DOMAIN ToolBodies : call \in {[tool |-> tool, args |-> run.args, calls |-> run.calls] :
                                                    run \in ToolBodies[tool]}
      BY DEF Init, Intentions
    <2>2. PICK run \in ToolBodies[tool] : call = [tool |-> tool, args |-> run.args, calls |-> run.calls]
      BY <2>1
    <2> QED
      BY <2>2, PreviewsAreShared DEF Shares
  <1> QED
    BY <1>1 DEF Init, ConsentInv, Busy, NothingBeforeConsent, RunsAsShown

\* Steps that leave the request where it is, and take no agreement back.
LEMMA ConsentKept ==
    ASSUME ConsentInv, UNCHANGED <<call, setting, world, version, seen, landed>>,
           consents \subseteq consents',
           Busy' => Busy, pc' = "prompted" => pc = "prompted"
    PROVE  ConsentInv'
  <1>1. consents # {} => consents' # {}
    OBVIOUS
  <1>2. AgreedHere => AgreedHere'
    BY DEF AgreedHere
  <1>3. Gated' = Gated /\ MustAsk' = MustAsk /\ Shares' = Shares /\ SeenIsRendered' = SeenIsRendered
    BY DEF Gated, MustAsk, Asks, policy, Shares, SeenIsRendered
  <1>4. RunsAsShown'
    BY <1>3 DEF ConsentInv, RunsAsShown
  <1>5. NothingBeforeConsent'
    BY <1>1, <1>3 DEF ConsentInv, NothingBeforeConsent
  <1> QED
    BY <1>1, <1>2, <1>3, <1>4, <1>5 DEF ConsentInv

\* Steps of the body: what they execute is this request's, and agreed to.
LEMMA BodyKept ==
    ASSUME ConsentInv, pc = "body", UNCHANGED <<call, setting, world, version, seen, consents>>,
           landed' = landed \/ landed' = Landed,
           pc' \in {"body", "returned", "raised", "refused"}
    PROVE  ConsentInv'
  <1>0. consents' = consents /\ call' = call
    OBVIOUS
  <1>1. Gated' = Gated /\ MustAsk' = MustAsk /\ Shares' = Shares /\ SeenIsRendered' = SeenIsRendered
        /\ AgreedHere' = AgreedHere
    BY DEF Gated, MustAsk, Asks, policy, Shares, SeenIsRendered, AgreedHere
  <1>2. NothingBeforeConsent'
    BY <1>1 DEF ConsentInv, NothingBeforeConsent, Busy
  <1>3. RunsAsShown'
    <2> DEFINE Agreed(l) == \E c \in consents : /\ c.how \in {"question", "prompt"}
                                                /\ c.version = l.version
                                                /\ call.tool # "gmail_send_draft" => c.world = l.world
    <2>1. ASSUME MustAsk, NEW l \in landed PROVE Agreed(l)
      BY <2>1 DEF ConsentInv, RunsAsShown
    <2>2. ASSUME MustAsk PROVE Agreed([step |-> step, identity |-> Identity, version |-> version, world |-> Content])
      <3>1. AgreedHere /\ SeenIsRendered
        BY <2>2 DEF ConsentInv, Busy
      <3>2. call.tool # "gmail_send_draft" => Content = seen
        BY <3>1 DEF ConsentInv, Content, SeenIsRendered, Shares
      <3> QED
        BY <3>1, <3>2 DEF AgreedHere
    <2>3. MustAsk => \A l \in landed' : Agreed(l)
      BY <2>1, <2>2 DEF Landed
    <2> QED
      BY <1>0, <1>1, <2>3 DEF RunsAsShown
  <1> QED
    BY <1>1, <1>2, <1>3 DEF ConsentInv, Busy

\* The body starts: ungated, or with an agreement.
LEMMA BodyStarts ==
    ASSUME ConsentInv, UNCHANGED <<call, setting, world, landed>>, pc' = "body",
           consents \subseteq consents',
           Gated => consents' # {},
           MustAsk => AgreedHere' /\ SeenIsRendered'
    PROVE  ConsentInv'
  <1>1. Gated' = Gated /\ MustAsk' = MustAsk /\ Shares' = Shares
    BY DEF Gated, MustAsk, Asks, policy, Shares
  <1>2. RunsAsShown'
    BY <1>1 DEF ConsentInv, RunsAsShown
  <1> QED
    BY <1>1, <1>2 DEF ConsentInv, NothingBeforeConsent, Busy

\* The request waits, is answered or is over: no body runs.
LEMMA NoBody ==
    ASSUME ConsentInv, UNCHANGED <<call, setting, landed>>, world' \in {1, 2},
           consents \subseteq consents',
           \/ pc' = "idle"
           \/ pc' = "prompted" /\ SeenIsRendered'
    PROVE  ConsentInv'
  <1>1. Gated' = Gated /\ MustAsk' = MustAsk /\ Shares' = Shares
    BY DEF Gated, MustAsk, Asks, policy, Shares
  <1>2. RunsAsShown'
    BY <1>1 DEF ConsentInv, RunsAsShown
  <1> QED
    BY <1>1, <1>2 DEF ConsentInv, NothingBeforeConsent, Busy

\* What a preview read, if it read anything, was the account as it is.
LEMMA RenderedIsWorld ==
    ASSUME ConsentInv, UNCHANGED call, seen' = Rendered
    PROVE  SeenIsRendered'
  BY DEF ConsentInv, Rendered, SeenIsRendered

LEMMA AskKept ==
    ASSUME ConsentInv, NEW how, NEW parked, Ask(how, parked), UNCHANGED <<call, setting, world, landed>>,
           consents \subseteq consents'
    PROVE  ConsentInv'
  <1>1. CASE pc' = "prompted" /\ seen' = Rendered
    BY <1>1, RenderedIsWorld, NoBody DEF ConsentInv
  <1>2. CASE pc' = "idle"
    BY <1>2, NoBody DEF ConsentInv
  <1> QED
    BY <1>1, <1>2 DEF Ask, Reply

LEMMA CallToolKept == ASSUME ConsentInv, CallTool PROVE ConsentInv'
  <1>0. UNCHANGED <<call, setting, world, landed, consents>>
    BY DEF CallTool, Arrive, configVars
  <1>1. CASE ~Gated /\ RunBody
    BY <1>0, <1>1, BodyStarts DEF RunBody, MustAsk
  <1>2. CASE Reply("confirmation_required") \/ PreviewFails
    BY <1>0, <1>2, NoBody DEF Reply, PreviewFails, ConsentInv
  <1>3. CASE Ask("call", "none")
    BY <1>0, <1>3, AskKept
  <1> QED
    BY <1>1, <1>2, <1>3 DEF CallTool

LEMMA CommitKept == ASSUME ConsentInv, Commit PROVE ConsentInv'
  <1>0. UNCHANGED <<call, setting, world, landed>> /\ consents' = consents \cup {CommitConsent}
    BY DEF Commit, Arrive, configVars
  <1>1. CASE /\ ~Gated \/ setting.mode = "preview_only" \/ ~_client_can_be_asked("commit")
             /\ RunBody
    <2>1. ~MustAsk
      BY <1>1 DEF MustAsk, _client_can_be_asked
    <2>2. CommitConsent \in consents'
      BY <1>0
    <2> QED
      BY <1>0, <1>1, <2>1, <2>2, BodyStarts DEF RunBody
  <1>2. CASE PreviewFails
    BY <1>0, <1>2, NoBody DEF PreviewFails, Reply, ConsentInv
  <1>3. CASE Ask("commit", "open")
    BY <1>0, <1>3, AskKept
  <1> QED
    BY <1>1, <1>2, <1>3 DEF Commit

LEMMA AnswerKept ==
    ASSUME ConsentInv, NEW v, NEW answer, Answer(v, answer) PROVE ConsentInv'
  <1>0. /\ UNCHANGED <<call, setting, world, landed>> /\ version' = v
        /\ consents' = UserAgreed(answer) /\ consents \subseteq consents'
    BY DEF Answer, Arrive, configVars, UserAgreed
  <1>1. CASE /\ RunBody /\ seen' = Rendered /\ answer = "accept" /\ _verify_claims(v)
             /\ question.answer \in {"none", answer}
    <2>1. AgreedHere'
      <3> DEFINE c == [how |-> "question", version |-> question.version, world |-> question.world]
      <3>1. c \in consents'
        BY <1>0, <1>1 DEF UserAgreed
      <3>2. c.version = version' /\ c.world = seen' /\ c.how = "question"
        BY <1>0, <1>1 DEF _verify_claims
      <3> QED
        BY <3>1, <3>2 DEF AgreedHere
    <2>2. consents' # {}
      BY <2>1 DEF AgreedHere
    <2> QED
      BY <1>0, <1>1, <2>1, <2>2, RenderedIsWorld, BodyStarts DEF RunBody
  <1>2. CASE pc' = "idle"
    BY <1>0, <1>2, NoBody DEF ConsentInv
  <1> QED
    BY <1>1, <1>2 DEF Answer, PreviewFails, Reply

LEMMA PromptedKept ==
    ASSUME ConsentInv, NEW answer, Prompted(answer) PROVE ConsentInv'
  <1>0. UNCHANGED <<call, setting, world, version, landed>> /\ pc = "prompted"
    BY DEF Prompted, configVars
  <1>1. CASE /\ consents' = consents \cup {[how |-> "prompt", version |-> version, world |-> seen]}
             /\ RunBody /\ seen' = seen
    <2> DEFINE c == [how |-> "prompt", version |-> version, world |-> seen]
    <2>1. c \in consents' /\ c.how = "prompt" /\ c.version = version' /\ c.world = seen'
      BY <1>0, <1>1
    <2>2. AgreedHere' /\ consents' # {}
      BY <2>1 DEF AgreedHere
    <2>3. SeenIsRendered'
      BY <1>0, <1>1 DEF ConsentInv, SeenIsRendered
    <2> QED
      BY <1>0, <1>1, <2>2, <2>3, BodyStarts DEF RunBody
  <1>2. CASE pc' = "idle" /\ consents' = consents
    BY <1>0, <1>2, NoBody DEF ConsentInv
  <1> QED
    BY <1>1, <1>2 DEF Prompted, Reply

LEMMA ConsentNext == ConsentInv /\ [Next]_vars => ConsentInv'
  <1> SUFFICES ASSUME ConsentInv, [Next]_vars PROVE ConsentInv'
    OBVIOUS
  <1> USE DEF configVars, bodyVars, recordVars, InBody
  <1>1. CASE Change
    <2>1. /\ UNCHANGED <<call, setting, version, seen, landed, consents, pc>> /\ world' \in {1, 2}
      BY <1>1 DEF Change
    <2>2. Gated' = Gated /\ MustAsk' = MustAsk /\ Shares' = Shares /\ SeenIsRendered' = SeenIsRendered
          /\ AgreedHere' = AgreedHere
      BY <2>1 DEF Gated, MustAsk, Asks, policy, Shares, SeenIsRendered, AgreedHere
    <2> QED
      BY <2>1, <2>2 DEF ConsentInv, NothingBeforeConsent, RunsAsShown, Busy
  <1>2. CASE CallTool
    BY <1>2, CallToolKept
  <1>3. CASE DryRun \/ Prepare \/ ReplayCommit
    BY <1>3, NoBody DEF DryRun, Prepare, ReplayCommit, Arrive, Reply, PreviewFails, ConsentInv
  <1>4. CASE Commit
    BY <1>4, CommitKept
  <1>5. ASSUME NEW v \in {1, 2}, NEW answer \in {"accept", "decline"}, Answer(v, answer)
        PROVE  ConsentInv'
    BY <1>5, AnswerKept
  <1>6. ASSUME NEW answer \in {"accept", "decline"}, Prompted(answer)
        PROVE  ConsentInv'
    BY <1>6, PromptedKept
  <1>7. CASE Succeeds
    <2>1. pc' \in {"body", "raised"} /\ pc = "body"
      BY <1>7 DEF Succeeds, Calling, HasNext
    <2> QED
      BY <1>7, <2>1, BodyKept DEF Succeeds
  <1>8. CASE SkipShared \/ BodyRaises \/ BodyReturns
    BY <1>8, BodyKept DEF SkipShared, BodyRaises, BodyReturns, Calling, HasNext
  <1>9. ASSUME NEW failure \in Failures, Resend(failure)
        PROVE  ConsentInv'
    BY <1>9, BodyKept DEF Resend, Calling, HasNext, MayLand
  <1>10. ASSUME NEW failure \in Failures, Fails(failure)
         PROVE  ConsentInv'
    <2>1. pc' \in {"body", "raised", "refused"} /\ pc = "body"
      BY <1>10 DEF Fails, Calling, HasNext
    <2> QED
      BY <1>10, <2>1, BodyKept DEF Fails, MayLand
  <1>11. CASE Deadline
    BY <1>11, BodyKept DEF Deadline, Calling, HasNext, MayLand
  <1>12. CASE Settle
    BY <1>12, NoBody DEF Settle, ConsentInv
  <1>13. CASE UNCHANGED vars
    BY <1>13, ConsentKept DEF vars, Busy
  <1> QED
    BY <1>1, <1>2, <1>3, <1>4, <1>5, <1>6, <1>7, <1>8, <1>9, <1>10, <1>11, <1>12, <1>13 DEF Next

\* For every set of tools and every policy table: a consequential call changes
\* nothing before its user has agreed (enforce_consent, consent.py).
THEOREM ConsentComesFirst == Spec => []NothingBeforeConsent
  <1>1. ConsentInv => NothingBeforeConsent
    BY DEF ConsentInv
  <1> QED
    BY <1>1, ConsentInit, ConsentNext, PTL DEF Spec

\* For every set of tools and every policy table: where the user can be asked,
\* what runs carries the arguments and the preview the user agreed to
\* (_verify_claims, confirmation.py).
THEOREM ShownIsRun == Spec => []RunsAsShown
  <1>1. ConsentInv => RunsAsShown
    BY DEF ConsentInv
  <1> QED
    BY <1>1, ConsentInit, ConsentNext, PTL DEF Spec
------------------------------------------------------------------------------
(***************************************************************************)
(* Who is asked: a task is only asked through its input loop when a client *)
(* with elicitation submitted it, as the middleware refuses the others.    *)
(***************************************************************************)
AskInv ==
    /\ setting.background => call.tool \in TaskTools
    /\ NeverAskedInVain

\* A question or a prompt implies a client that can answer.
LEMMA AskedCanAnswer ==
    ASSUME AskInv, NEW how, NEW parked, Ask(how, parked), setting.client # "mute",
           UNCHANGED <<call, setting>>
    PROVE  AskInv'
  BY DEF AskInv, NeverAskedInVain

LEMMA AskNext == AskInv /\ [Next]_vars => AskInv'
  <1> SUFFICES ASSUME AskInv, [Next]_vars PROVE AskInv'
    OBVIOUS
  <1>0. call' = call /\ setting' = setting
    BY IntentionStays
  <1>1. CASE CallTool
    <2>1. CASE ~Gated /\ RunBody
      BY <1>0, <2>1 DEF RunBody, AskInv, NeverAskedInVain
    <2>2. CASE Reply("confirmation_required") \/ PreviewFails
      BY <1>0, <2>2 DEF Reply, PreviewFails, AskInv, NeverAskedInVain
    <2>3. CASE ~Refused /\ Ask("call", "none")
      <3>1. setting.client # "mute"
        BY <2>3 DEF Refused, _client_can_be_asked, _task_capable, AskInv
      <3> QED
        BY <1>0, <2>3, <3>1, AskedCanAnswer
    <2> QED
      BY <1>1, <2>1, <2>2, <2>3 DEF CallTool
  <1>2. CASE Commit
    <2>1. CASE RunBody
      BY <1>0, <2>1 DEF RunBody, AskInv, NeverAskedInVain
    <2>2. CASE PreviewFails
      BY <1>0, <2>2 DEF Reply, PreviewFails, AskInv, NeverAskedInVain
    <2>3. CASE _client_can_be_asked("commit") /\ Ask("commit", "open")
      <3>1. setting.client # "mute"
        BY <2>3 DEF _client_can_be_asked
      <3> QED
        BY <1>0, <2>3, <3>1, AskedCanAnswer
    <2> QED
      BY <1>2, <2>1, <2>2, <2>3 DEF Commit
  <1>3. ASSUME NEW v, NEW answer, Answer(v, answer) PROVE AskInv'
    BY <1>0, <1>3 DEF Answer, PreviewFails, RunBody, Reply, AskInv, NeverAskedInVain
  <1>4. ASSUME NEW answer, Prompted(answer) PROVE AskInv'
    BY <1>0, <1>4 DEF Prompted, RunBody, Reply, AskInv, NeverAskedInVain
  <1>5. CASE Change \/ DryRun \/ Prepare \/ ReplayCommit \/ Settle
    BY <1>0, <1>5 DEF Change, DryRun, Prepare, ReplayCommit, Settle, PreviewFails, Reply,
                      AskInv, NeverAskedInVain
  <1>6. ASSUME pc = "body", reply' = reply, pc' \in {"body", "raised", "refused", "returned"} PROVE AskInv'
    BY <1>0, <1>6 DEF AskInv, NeverAskedInVain
  <1>7. CASE Succeeds \/ SkipShared \/ Deadline \/ BodyRaises \/ BodyReturns
    BY <1>6, <1>7 DEF Succeeds, SkipShared, Deadline, BodyRaises, BodyReturns, Calling, HasNext, InBody
  <1>8. ASSUME NEW failure, Resend(failure) \/ Fails(failure) PROVE AskInv'
    BY <1>6, <1>8 DEF Resend, Fails, Calling, HasNext, InBody
  <1>9. CASE UNCHANGED vars
    BY <1>0, <1>9 DEF vars, AskInv, NeverAskedInVain
  <1> QED
    BY <1>1, <1>2, <1>3, <1>4, <1>5, <1>7, <1>8, <1>9 DEF Next

\* For every table: a client without elicitation is never left with a question,
\* not even through a background task (_task_capable, TaskConsentMiddleware).
THEOREM OnlyAskedIfAnswerable == Spec => []NeverAskedInVain
  <1>1. Init => AskInv
    BY DEF Init, AskInv, NeverAskedInVain
  <1>2. AskInv => NeverAskedInVain
    BY DEF AskInv
  <1> QED
    BY <1>1, <1>2, AskNext, PTL DEF Spec
------------------------------------------------------------------------------
(***************************************************************************)
(* Types, and no record left executing when its request is over.           *)
(***************************************************************************)
TypeInv ==
    /\ TypeOK
    /\ Len(call.calls) \in Nat
    /\ question.state # "none" => question.version = 1
    /\ pc = "prompted" => /\ question.state # "executing"
                          /\ token.state = "executing" => via = "commit"

\* A request begins: the bounds are the gate's.
LEMMA ArrivedTypes ==
    ASSUME TypeInv, NEW v \in {1, 2}, NEW how \in {"call", "commit"}, Arrive(v, how)
    PROVE  /\ requests' \in 0 .. MaxRequests /\ version' = v /\ via' = how
           /\ UNCHANGED <<call, setting, world, try, tracker, landed, told>>
           /\ pc = "idle" /\ token.state # "executing" /\ question.state # "executing"
  BY BoundsAreNumbers DEF TypeInv, TypeOK, Arrive, configVars

LEMMA SpentTypes ==
    ASSUME TypeInv, Spend PROVE faults' \in 0 .. MaxFaults
  BY BoundsAreNumbers DEF TypeInv, TypeOK, Spend

LEMMA RenderedTypes == ASSUME TypeInv PROVE Rendered \in {0, 1, 2}
  BY DEF TypeInv, TypeOK, Rendered

\* What the gate may leave behind, whichever way a request takes through it.
GateTypes ==
    /\ seen' \in {0, 1, 2} /\ step' \in Nat /\ faults' \in 0 .. MaxFaults
    /\ token' \in [state : RecordStates, world : {0, 1, 2}]
    /\ question' \in [state : RecordStates, version : {0, 1}, world : {0, 1, 2}, answer : Answers,
                      via : {"call", "commit"}]
    /\ question'.state # "none" => question'.version = 1
    /\ consents' \subseteq [how : {"commit", "question", "prompt"}, version : {1, 2}, world : {0, 1, 2}]
    /\ reply' \in {"none", "error", "dry_run", "confirmation_required", "prepared", "ask", "cancelled",
                   "replayed", "done", "unknown"}
    /\ pc' \in {"idle", "prompted", "body"}
    /\ "executing" \in {token'.state, question'.state} => pc' # "idle"
    /\ pc' = "prompted" => /\ question'.state # "executing"
                           /\ token'.state = "executing" => via' = "commit"

LEMMA GateIsTyped ==
    ASSUME TypeInv, NEW v \in {1, 2}, NEW how \in {"call", "commit"}, Arrive(v, how), GateTypes
    PROVE  TypeInv'
  <1>1. /\ requests' \in 0 .. MaxRequests /\ version' = v /\ via' = how
        /\ UNCHANGED <<call, setting, world, try, tracker, landed, told>>
    BY ArrivedTypes
  <1> QED
    BY <1>1 DEF TypeInv, TypeOK, GateTypes

LEMMA PreviewFailsTyped ==
    ASSUME TypeInv, pc = "idle", PreviewFails, UNCHANGED <<question, token>>,
           consents' \subseteq [how : {"commit", "question", "prompt"}, version : {1, 2}, world : {0, 1, 2}]
    PROVE  GateTypes
  <1>1. faults' \in 0 .. MaxFaults
    BY SpentTypes DEF PreviewFails
  <1> QED
    BY <1>1 DEF TypeInv, TypeOK, PreviewFails, Reply, GateTypes

LEMMA AskTyped ==
    ASSUME TypeInv, pc = "idle", NEW how \in {"call", "commit"}, NEW parked \in {"none", "open"},
           Ask(how, parked), via' = how,
           consents' \subseteq [how : {"commit", "question", "prompt"}, version : {1, 2}, world : {0, 1, 2}]
    PROVE  GateTypes
  <1>0. Rendered \in {0, 1, 2}
    BY RenderedTypes
  <1>1. token' \in [state : RecordStates, world : {0, 1, 2}]
        /\ (token'.state = "executing" => how = "commit" /\ setting.client = "legacy")
    <2>1. token \in [state : RecordStates, world : {0, 1, 2}] /\ parked \in RecordStates
          /\ "executing" \in RecordStates
      BY DEF TypeInv, TypeOK, RecordStates
    <2> QED
      BY <2>1 DEF Ask
  <1>2. CASE setting.client = "legacy"
    BY <1>0, <1>1, <1>2 DEF Ask, TypeInv, TypeOK, GateTypes
  <1>3. CASE setting.client # "legacy"
    <2>1. question' = [state |-> "open", version |-> 1, world |-> Rendered, answer |-> "none", via |-> how]
          /\ pc' = "idle" /\ reply' = "ask" /\ seen' = 0 /\ step' = step /\ faults' = faults
      BY <1>3 DEF Ask, Reply
    <2>2. "open" \in RecordStates /\ "none" \in Answers
      BY DEF RecordStates, Answers
    <2> QED
      BY <1>0, <1>1, <1>3, <2>1, <2>2 DEF TypeInv, TypeOK, GateTypes
  <1> QED
    BY <1>2, <1>3

LEMMA CallToolTyped == ASSUME TypeInv, CallTool PROVE TypeInv'
  <1>0. Arrive(1, "call") /\ UNCHANGED consents
    BY DEF CallTool
  <1>1. pc = "idle" /\ via' = "call" /\ token.state # "executing" /\ question.state # "executing"
    BY <1>0, ArrivedTypes
  <1>2. CASE RunBody /\ seen' = 0 /\ UNCHANGED <<faults, question, token>>
    BY <1>0, <1>1, <1>2, GateIsTyped DEF RunBody, GateTypes, TypeInv, TypeOK
  <1>3. CASE Reply("confirmation_required") /\ seen' = 0 /\ UNCHANGED <<faults, question, token>>
    BY <1>0, <1>1, <1>3, GateIsTyped DEF Reply, GateTypes, TypeInv, TypeOK
  <1>4. CASE PreviewFails /\ UNCHANGED <<question, token>>
    <2>1. consents' \subseteq [how : {"commit", "question", "prompt"}, version : {1, 2}, world : {0, 1, 2}]
      BY <1>0 DEF TypeInv, TypeOK
    <2> QED
      BY <1>0, <1>1, <1>4, <2>1, PreviewFailsTyped, GateIsTyped
  <1>5. CASE Ask("call", "none")
    <2>1. consents' \subseteq [how : {"commit", "question", "prompt"}, version : {1, 2}, world : {0, 1, 2}]
      BY <1>0 DEF TypeInv, TypeOK
    <2> QED
      BY <1>0, <1>1, <1>5, <2>1, AskTyped, GateIsTyped
  <1> QED
    BY <1>2, <1>3, <1>4, <1>5 DEF CallTool

LEMMA PreparedTyped == ASSUME TypeInv, Prepare \/ DryRun PROVE TypeInv'
  <1>0. Arrive(1, "call") /\ UNCHANGED <<consents, question>>
    BY DEF Prepare, DryRun, recordVars
  <1>1. pc = "idle" /\ via' = "call" /\ token.state # "executing" /\ question.state # "executing"
    BY <1>0, ArrivedTypes
  <1>2. consents' \subseteq [how : {"commit", "question", "prompt"}, version : {1, 2}, world : {0, 1, 2}]
    BY <1>0 DEF TypeInv, TypeOK
  <1>3. CASE PreviewFails /\ UNCHANGED token
    BY <1>0, <1>1, <1>2, <1>3, PreviewFailsTyped, GateIsTyped
  <1>4. CASE Reply("error") /\ seen' = 0 /\ UNCHANGED <<faults, token>>
    BY <1>0, <1>1, <1>2, <1>4, GateIsTyped DEF Reply, GateTypes, TypeInv, TypeOK
  <1>5. CASE /\ token' = [state |-> "open", world |-> Rendered]
             /\ seen' = 0
             /\ Reply("prepared")
             /\ UNCHANGED faults
    BY <1>0, <1>1, <1>2, <1>5, RenderedTypes, GateIsTyped
       DEF Reply, GateTypes, TypeInv, TypeOK, RecordStates
  <1>6. CASE DryRun
    BY <1>0, <1>1, <1>2, <1>6, GateIsTyped DEF DryRun, recordVars, Reply, GateTypes, TypeInv, TypeOK
  <1> QED
    BY <1>3, <1>4, <1>5, <1>6 DEF Prepare

LEMMA CommitTyped == ASSUME TypeInv, Commit \/ ReplayCommit PROVE TypeInv'
  <1>0. Arrive(1, "commit")
    BY DEF Commit, ReplayCommit
  <1>1. pc = "idle" /\ via' = "commit" /\ token.state # "executing" /\ question.state # "executing"
    BY <1>0, ArrivedTypes
  <1>2. CASE ReplayCommit
    BY <1>0, <1>1, <1>2, GateIsTyped DEF ReplayCommit, recordVars, Reply, GateTypes, TypeInv, TypeOK
  <1>3. CASE Commit
    <2>1. consents' \subseteq [how : {"commit", "question", "prompt"}, version : {1, 2}, world : {0, 1, 2}]
      BY <1>3 DEF Commit, CommitConsent, TypeInv, TypeOK
    <2>2. CASE /\ RunBody
               /\ seen' = IF Gated THEN Rendered ELSE 0
               /\ token' = [token EXCEPT !.state = "executing"]
               /\ UNCHANGED <<faults, question>>
      <3>1. seen' \in {0, 1, 2}
        BY <2>2, RenderedTypes
      <3>2. token' \in [state : RecordStates, world : {0, 1, 2}]
        BY <2>2 DEF TypeInv, TypeOK, RecordStates
      <3>3. GateTypes
        BY <1>1, <2>1, <2>2, <3>1, <3>2 DEF RunBody, GateTypes, TypeInv, TypeOK
      <3> QED
        BY <1>0, <3>3, GateIsTyped
    <2>3. CASE PreviewFails /\ UNCHANGED <<question, token>>
      BY <1>0, <1>1, <2>1, <2>3, PreviewFailsTyped, GateIsTyped
    <2>4. CASE Ask("commit", "open")
      BY <1>0, <1>1, <2>1, <2>4, AskTyped, GateIsTyped
    <2> QED
      BY <1>3, <2>2, <2>3, <2>4 DEF Commit
  <1> QED
    BY <1>2, <1>3

LEMMA AnswerTyped ==
    ASSUME TypeInv, NEW v \in {1, 2}, NEW answer \in {"accept", "decline"}, Answer(v, answer)
    PROVE  TypeInv'
  <1>0. Arrive(v, question.via) /\ question.via \in {"call", "commit"} /\ question.state # "none"
    BY DEF Answer, TypeInv, TypeOK
  <1>1. pc = "idle" /\ token.state # "executing" /\ question.state # "executing"
    BY <1>0, ArrivedTypes
  <1>2. consents' \subseteq [how : {"commit", "question", "prompt"}, version : {1, 2}, world : {0, 1, 2}]
    BY <1>0 DEF Answer, UserAgreed, TypeInv, TypeOK
  <1> DEFINE ended(record, how) == [record EXCEPT !.state = IF question.via = "commit" THEN how ELSE @]
             answered(how) == [question EXCEPT !.state = how, !.answer = answer]
  <1>3. ASSUME NEW how \in RecordStates
        PROVE  /\ ended(token, how) \in [state : RecordStates, world : {0, 1, 2}]
               /\ ended(token, how).state \in {how, token.state}
               /\ answered(how) \in [state : RecordStates, version : {0, 1}, world : {0, 1, 2},
                                     answer : Answers, via : {"call", "commit"}]
               /\ answered(how).version = 1 /\ answered(how).state = how
    <2>1. token \in [state : RecordStates, world : {0, 1, 2}]
          /\ question \in [state : RecordStates, version : {0, 1}, world : {0, 1, 2}, answer : Answers,
                           via : {"call", "commit"}]
          /\ question.version = 1 /\ answer \in Answers
      BY <1>0 DEF TypeInv, TypeOK, Answers
    <2> QED
      BY <2>1
  <1>4. {"executing", "succeeded"} \subseteq RecordStates
    BY DEF RecordStates, Settled
  <1>5. CASE PreviewFails /\ UNCHANGED <<question, token>>
    BY <1>0, <1>1, <1>2, <1>5, PreviewFailsTyped, GateIsTyped
  <1>6. CASE /\ RunBody /\ question' = answered("executing") /\ token' = ended(token, "executing")
             /\ seen' = Rendered /\ UNCHANGED faults
    <2>1. GateTypes
      BY <1>2, <1>3, <1>4, <1>6, RenderedTypes DEF RunBody, GateTypes, TypeInv, TypeOK
    <2> QED
      BY <1>0, <2>1, GateIsTyped
  <1>7. CASE /\ Reply("cancelled") /\ question' = answered("succeeded") /\ token' = ended(token, "succeeded")
             /\ seen' = 0 /\ UNCHANGED faults
    <2>1. GateTypes
      BY <1>1, <1>2, <1>3, <1>4, <1>7 DEF Reply, GateTypes, TypeInv, TypeOK
    <2> QED
      BY <1>0, <2>1, GateIsTyped
  <1>8. CASE /\ Reply("replayed") \/ Reply("error")
             /\ seen' = 0 /\ UNCHANGED <<faults, question, token>>
    <2>1. GateTypes
      BY <1>0, <1>1, <1>2, <1>8 DEF Reply, GateTypes, TypeInv, TypeOK
    <2> QED
      BY <1>0, <2>1, GateIsTyped
  <1> QED
    BY <1>5, <1>6, <1>7, <1>8 DEF Answer

LEMMA PromptedTyped ==
    ASSUME TypeInv, NEW answer \in {"accept", "decline"}, Prompted(answer) PROVE TypeInv'
  <1>0. /\ UNCHANGED <<call, setting, world, version, via, try, tracker, landed, question, told, requests, faults>>
        /\ pc = "prompted" /\ question.state # "executing"
        /\ token.state = "executing" => via = "commit"
    BY DEF Prompted, configVars, TypeInv
  <1>1. CASE /\ consents' = consents \cup {[how |-> "prompt", version |-> version, world |-> seen]}
             /\ RunBody /\ UNCHANGED <<token, seen>>
    BY <1>0, <1>1 DEF RunBody, TypeInv, TypeOK
  <1>2. CASE /\ Reply("cancelled") /\ seen' = 0 /\ UNCHANGED consents
             /\ token' = [token EXCEPT !.state = IF via = "commit" THEN "succeeded" ELSE @]
    <2>1. token' \in [state : RecordStates, world : {0, 1, 2}] /\ token'.state # "executing"
      BY <1>0, <1>2 DEF TypeInv, TypeOK, RecordStates, Settled
    <2> QED
      BY <1>0, <1>2, <2>1 DEF Reply, TypeInv, TypeOK
  <1> QED
    BY <1>1, <1>2 DEF Prompted

\* What a step of the body changes.
LEMMA BodyTyped ==
    ASSUME TypeInv, pc = "body", InBody, UNCHANGED seen,
           landed' = landed \/ landed' = Landed,
           pc' \in {"body", "returned", "raised", "refused"},
           step' \in Nat, try' \in 0 .. MaxRetries, faults' \in 0 .. MaxFaults,
           tracker' = tracker \/ \E outcome \in {"applied", "rejected", "uncertain"} : tracker' = Ended(outcome)
    PROVE  TypeInv'
  <1>0. UNCHANGED <<call, setting, world, version, via, token, question, consents, requests, reply, told>>
    BY DEF InBody, configVars, recordVars
  <1>1. landed' \subseteq [step : Nat, identity : Identities, version : {1, 2}, world : {0, 1, 2}]
    <2>1. Content \in {0, 1, 2}
      BY DEF TypeInv, TypeOK, Content
    <2>2. Identity \in Identities
      BY BoundsAreNumbers DEF TypeInv, TypeOK, Identity, Identities
    <2>3. [step |-> step, identity |-> Identity, version |-> version, world |-> Content]
             \in [step : Nat, identity : Identities, version : {1, 2}, world : {0, 1, 2}]
      BY <2>1, <2>2 DEF TypeInv, TypeOK
    <2> QED
      BY <2>3 DEF TypeInv, TypeOK, Landed
  <1>2. tracker' \subseteq {"applied", "rejected", "uncertain"}
    BY DEF TypeInv, TypeOK, Ended
  <1> QED
    BY <1>0, <1>1, <1>2 DEF TypeInv, TypeOK

LEMMA SettleTyped == ASSUME TypeInv, Settle PROVE TypeInv'
  <1>1. PICK how \in Settlements(FALSE) : question' = settle(question, how)
    BY DEF Settle
  <1>2. PICK ending \in Settlements(TRUE) : token' = settle(token, ending)
    BY DEF Settle
  <1>3. {how, ending} \subseteq RecordStates \ {"executing", "none"}
    BY <1>1, <1>2 DEF Settlements, RecordStates, Settled
  <1>4. /\ token' \in [state : RecordStates, world : {0, 1, 2}] /\ token'.state # "executing"
        /\ question' \in [state : RecordStates, version : {0, 1}, world : {0, 1, 2}, answer : Answers,
                          via : {"call", "commit"}]
        /\ question'.state # "executing" /\ question'.version = question.version
        /\ question'.state # "none" => question.state # "none"
    BY <1>1, <1>2, <1>3 DEF settle, TypeInv, TypeOK
  <1>5. UNCHANGED <<call, setting, world, version, via, landed, consents, requests, faults>>
    BY DEF Settle, configVars
  <1>6. pc' = "idle" /\ step' = 0 /\ tracker' = {} /\ seen' = 0 /\ try' = 0
        /\ reply' \in {"unknown", "done", "error"} /\ told' \in BOOLEAN
    BY DEF Settle, TypeInv, TypeOK
  <1> QED
    BY <1>4, <1>5, <1>6, BoundsAreNumbers DEF TypeInv, TypeOK

LEMMA TypeNext == TypeInv /\ [Next]_vars => TypeInv'
  <1> SUFFICES ASSUME TypeInv, [Next]_vars PROVE TypeInv'
    OBVIOUS
  <1>0. step \in Nat /\ try \in 0 .. MaxRetries /\ faults \in 0 .. MaxFaults /\ Len(call.calls) \in Nat
        /\ 0 \in 0 .. MaxRetries
    BY BoundsAreNumbers DEF TypeInv, TypeOK
  <1>1. CASE Change
    BY <1>1 DEF Change, configVars, bodyVars, recordVars, TypeInv, TypeOK
  <1>2. CASE CallTool
    BY <1>2, CallToolTyped
  <1>3. CASE DryRun \/ Prepare
    BY <1>3, PreparedTyped
  <1>4. CASE Commit \/ ReplayCommit
    BY <1>4, CommitTyped
  <1>5. ASSUME NEW v \in {1, 2}, NEW answer \in {"accept", "decline"}, Answer(v, answer) PROVE TypeInv'
    BY <1>5, AnswerTyped
  <1>6. ASSUME NEW answer \in {"accept", "decline"}, Prompted(answer) PROVE TypeInv'
    BY <1>6, PromptedTyped
  <1>7. CASE Succeeds
    <2>1. /\ pc = "body" /\ pc' \in {"body", "raised"} /\ InBody /\ UNCHANGED <<seen, faults>>
          /\ landed' = Landed /\ tracker' = Ended("applied") /\ try' = 0
          /\ step' \in {Len(call.calls) + 1, step + 1}
      BY <1>7 DEF Succeeds, Calling, HasNext
    <2> QED
      BY <1>0, <2>1, BodyTyped
  <1>8. CASE SkipShared
    BY <1>0, <1>8, BodyTyped DEF SkipShared, Calling, HasNext
  <1>9. ASSUME NEW failure \in Failures, Resend(failure) PROVE TypeInv'
    <2>1. try + 1 \in 0 .. MaxRetries
      BY <1>0, <1>9, BoundsAreNumbers DEF Resend, Resendable, http_retry_budget
    <2>2. faults' \in 0 .. MaxFaults
      BY <1>9, SpentTypes DEF Resend
    <2> QED
      BY <1>0, <1>9, <2>1, <2>2, BodyTyped DEF Resend, Calling, HasNext, MayLand
  <1>10. ASSUME NEW failure \in Failures, Fails(failure) PROVE TypeInv'
    <2>1. faults' \in 0 .. MaxFaults
      BY <1>10, SpentTypes DEF Fails
    <2>2. /\ pc = "body" /\ pc' \in {"body", "raised", "refused"} /\ InBody /\ UNCHANGED seen
          /\ landed' = landed \/ landed' = Landed
          /\ tracker' = Ended("rejected") \/ tracker' = Ended("uncertain")
          /\ try' = 0 /\ step' \in {step, step + 1}
      BY <1>10 DEF Fails, Calling, HasNext, MayLand
    <2> QED
      BY <1>0, <2>1, <2>2, BodyTyped
  <1>11. CASE Deadline
    <2>1. faults' \in 0 .. MaxFaults
      BY <1>11, SpentTypes DEF Deadline
    <2>2. /\ pc = "body" /\ pc' = "raised" /\ InBody /\ UNCHANGED <<seen, step>>
          /\ landed' = landed \/ landed' = Landed
          /\ tracker' = Ended("uncertain") /\ try' = 0
      BY <1>11 DEF Deadline, Calling, HasNext, MayLand
    <2> QED
      BY <1>0, <2>1, <2>2, BodyTyped
  <1>12. CASE BodyRaises
    <2>1. faults' \in 0 .. MaxFaults
      BY <1>12, SpentTypes DEF BodyRaises
    <2> QED
      BY <1>0, <1>12, <2>1, BodyTyped DEF BodyRaises
  <1>13. CASE BodyReturns
    BY <1>0, <1>13, BodyTyped DEF BodyReturns
  <1>14. CASE Settle
    BY <1>14, SettleTyped
  <1>15. CASE UNCHANGED vars
    BY <1>15 DEF vars, configVars, bodyVars, recordVars, TypeInv, TypeOK
  <1> QED
    BY <1>1, <1>2, <1>3, <1>4, <1>5, <1>6, <1>7, <1>8, <1>9, <1>10, <1>11, <1>12, <1>13, <1>14, <1>15 DEF Next

LEMMA TypesHold == Spec => []TypeInv
  <1>1. Init => TypeInv
    <2> SUFFICES ASSUME Init PROVE TypeInv
      OBVIOUS
    <2>1. PICK tool \in DOMAIN ToolBodies : call \in {[tool |-> tool, args |-> run.args, calls |-> run.calls] :
                                                    run \in ToolBodies[tool]}
      BY DEF Init, Intentions
    <2>2. PICK run \in ToolBodies[tool] : call = [tool |-> tool, args |-> run.args, calls |-> run.calls]
      BY <2>1
    <2>3. call.tool \in DOMAIN ToolBodies /\ Len(call.calls) \in Nat
      BY <2>2, BodiesAreFinite
    <2>4. told \in BOOLEAN
      BY DEF Init
    <2> QED
      BY <2>3, <2>4, BoundsAreNumbers DEF Init, TypeInv, TypeOK, NoQuestion, RecordStates, Answers
  <1> QED
    BY <1>1, TypeNext, PTL DEF Spec

\* Every variable keeps its type for every table, and no record of the gate is
\* left executing when its request is over (settle_after_return,
\* settle_after_failure).
THEOREM ToolsTypeOK == Spec => []TypeOK
  <1>1. TypeInv => TypeOK
    BY DEF TypeInv
  <1> QED
    BY <1>1, TypesHold, PTL

------------------------------------------------------------------------------
(***************************************************************************)
(* What the tables promise of their tools, carried through the gate.       *)
(***************************************************************************)
\* What was executed is a call of the intention, which is one of the tables'.
IntentInv ==
    /\ call \in Intentions
    /\ pc = "body" => step \in Nat \ {0}
    /\ \A l \in landed : l.step \in DOMAIN call.calls

LEMMA IntentionOfTables ==
    ASSUME IntentInv
    PROVE  /\ call.tool \in DOMAIN ToolBodies
           /\ \E run \in ToolBodies[call.tool] : run.args = call.args /\ run.calls = call.calls
           /\ Len(call.calls) \in Nat /\ DOMAIN call.calls = 1 .. Len(call.calls)
  <1>1. PICK tool \in DOMAIN ToolBodies : call \in {[tool |-> tool, args |-> run.args, calls |-> run.calls] :
                                                  run \in ToolBodies[tool]}
    BY DEF IntentInv, Intentions
  <1>2. PICK run \in ToolBodies[tool] : call = [tool |-> tool, args |-> run.args, calls |-> run.calls]
    BY <1>1
  <1> QED
    BY <1>2, BodiesAreFinite

\* The call that the body is about to make.
LEMMA StepOfBody == ASSUME IntentInv, Calling PROVE step \in DOMAIN call.calls /\ Step = call.calls[step]
  BY IntentionOfTables DEF IntentInv, Calling, HasNext, Step

LEMMA IntentNext == TypeInv /\ IntentInv /\ [Next]_vars => IntentInv'
  <1> SUFFICES ASSUME TypeInv, IntentInv, [Next]_vars PROVE IntentInv'
    OBVIOUS
  <1>0. call' = call /\ step \in Nat /\ Len(call.calls) \in Nat
    BY IntentionStays DEF TypeInv, TypeOK
  <1>1. CASE Change \/ Settle \/ UNCHANGED vars
    BY <1>0, <1>1 DEF Change, Settle, vars, configVars, bodyVars, IntentInv
  <1>2. ASSUME landed' = landed, pc' \in {"idle", "prompted"} \/ RunBody PROVE IntentInv'
    BY <1>0, <1>2 DEF RunBody, IntentInv
  <1>3. CASE CallTool \/ DryRun \/ Prepare \/ Commit \/ ReplayCommit
    BY <1>2, <1>3 DEF CallTool, DryRun, Prepare, Commit, ReplayCommit, Arrive, PreviewFails, Reply, Ask
  <1>4. ASSUME NEW v, NEW answer, Answer(v, answer) PROVE IntentInv'
    BY <1>2, <1>4 DEF Answer, Arrive, PreviewFails, Reply
  <1>5. ASSUME NEW answer, Prompted(answer) PROVE IntentInv'
    BY <1>2, <1>5 DEF Prompted, Reply
  <1>6. ASSUME pc = "body", landed' = landed \/ (Calling /\ landed' = Landed),
               step' \in {step, step + 1, Len(call.calls) + 1}
        PROVE  IntentInv'
    <2>1. \A l \in landed' : l \in landed \/ (Calling /\ l.step = step)
      BY <1>6 DEF Landed
    <2>2. \A l \in landed' : l.step \in DOMAIN call.calls
      BY <2>1, StepOfBody DEF IntentInv
    <2> QED
      BY <1>0, <1>6, <2>2 DEF IntentInv
  <1>7. CASE Succeeds \/ SkipShared \/ Deadline \/ BodyRaises \/ BodyReturns
    BY <1>6, <1>7 DEF Succeeds, SkipShared, Deadline, BodyRaises, BodyReturns, MayLand, Calling, HasNext
  <1>8. ASSUME NEW failure, Resend(failure) \/ Fails(failure) PROVE IntentInv'
    BY <1>6, <1>8 DEF Resend, Fails, MayLand, Calling, HasNext
  <1> QED
    BY <1>1, <1>3, <1>4, <1>5, <1>7, <1>8 DEF Next

LEMMA IntentHolds == Spec => []IntentInv
  <1>1. Init => IntentInv
    BY DEF Init, IntentInv
  <1> QED
    BY <1>1, IntentNext, TypesHold, PTL DEF Spec

\* For every table whose triggers cover the irreversible methods, which is
\* checked of CONSENT_TABLE: whatever prompts, answers, commits and retries a
\* client combines, nothing that cannot be taken back happens unasked
\* (trigger_for and enforce_consent, consent.py).
THEOREM HarmComesAfterConsent == Spec => []HarmIsAsked
  <1>1. IntentInv /\ NothingBeforeConsent => HarmIsAsked
    <2> SUFFICES ASSUME IntentInv, NothingBeforeConsent, setting.mode # "off",
                        NEW l \in landed, call.calls[l.step].method \in Irreversible
                 PROVE  consents # {}
      BY DEF HarmIsAsked
    <2>1. PICK run \in ToolBodies[call.tool] : run.args = call.args /\ run.calls = call.calls
      BY IntentionOfTables
    <2>2. trigger_for(Policies[call.tool], run.args)
      BY <2>1, IntentionOfTables, HarmFiresTriggers DEF IntentInv
    <2>3. Gated
      BY <2>1, <2>2 DEF Gated, Asks, policy
    <2> QED
      BY <2>3 DEF NothingBeforeConsent
  <1> QED
    BY <1>1, IntentHolds, ConsentComesFirst, PTL

\* Nothing uncertain is ever recorded for a tool hinted idempotent.
HintedInv ==
    policy.idempotent /\ call.tool \notin TextReplacers => tracker = {} /\ reply # "unknown"

LEMMA HintedNext == IntentInv /\ HintedInv /\ [Next]_vars => HintedInv'
  <1> SUFFICES ASSUME IntentInv, HintedInv, [Next]_vars, policy.idempotent, call.tool \notin TextReplacers
               PROVE  tracker' = {} /\ reply' # "unknown"
    BY IntentionStays DEF HintedInv, policy
  <1>0. tracker = {} /\ reply # "unknown"
    BY DEF HintedInv
  <1>1. ASSUME Calling, NEW outcome PROVE Ended(outcome) = {}
    <2>1. PICK run \in ToolBodies[call.tool] : run.args = call.args /\ run.calls = call.calls
      BY IntentionOfTables
    <2>2. RepeatsSafely(run.calls[step])
      BY <1>1, <2>1, StepOfBody, IntentionOfTables, HintedRepeatsSafely DEF policy
    <2> QED
      BY <1>0, <1>1, <2>1, <2>2, StepOfBody DEF Ended, RepeatsSafely
  <1>2. CASE Change \/ UNCHANGED vars
    BY <1>0, <1>2 DEF Change, vars, bodyVars
  <1>3. CASE CallTool \/ DryRun \/ Prepare \/ Commit \/ ReplayCommit
    BY <1>0, <1>3 DEF CallTool, DryRun, Prepare, Commit, ReplayCommit, Arrive, PreviewFails, Reply, Ask, RunBody
  <1>4. ASSUME NEW v, NEW answer, Answer(v, answer) PROVE tracker' = {} /\ reply' # "unknown"
    BY <1>0, <1>4 DEF Answer, Arrive, PreviewFails, Reply, RunBody
  <1>5. ASSUME NEW answer, Prompted(answer) PROVE tracker' = {} /\ reply' # "unknown"
    BY <1>0, <1>5 DEF Prompted, Reply, RunBody
  <1>6. CASE Succeeds \/ SkipShared \/ Deadline \/ BodyRaises \/ BodyReturns
    BY <1>0, <1>1, <1>6 DEF Succeeds, SkipShared, Deadline, BodyRaises, BodyReturns, InBody
  <1>7. ASSUME NEW failure, Resend(failure) \/ Fails(failure) PROVE tracker' = {} /\ reply' # "unknown"
    BY <1>0, <1>1, <1>7 DEF Resend, Fails, InBody
  <1>8. CASE Settle
    BY <1>0, <1>8 DEF Settle, uncertain_calls
  <1> QED
    BY <1>2, <1>3, <1>4, <1>5, <1>6, <1>7, <1>8 DEF Next

\* For every table that hints only tools of repeat-safe calls, which is checked
\* of CONSENT_TABLE and the tools: a tool the client may repeat as it likes never
\* tells it to verify an outcome first (CallOutcomeTracker, uncertain_calls).
THEOREM HintsAreKept == Spec => []HintedNeverUnknown
  <1>1. Init => HintedInv
    BY DEF Init, HintedInv
  <1>2. HintedInv => HintedNeverUnknown
    BY DEF HintedInv, HintedNeverUnknown
  <1> QED
    BY <1>1, <1>2, HintedNext, IntentHolds, PTL DEF Spec
------------------------------------------------------------------------------
(***************************************************************************)
(* One intention adds one thing.                                           *)
(***************************************************************************)
\* A call of the body that adds something each time it is executed.
AddsAgain(s) == call.calls[s].method \in Adds /\ call.calls[s].key \notin {"caller", "generated"}

\* The mapped table has no method that adds among those it lets repeat.
LEMMA AddsAreTracked ==
    ASSUME NEW called, called.method \in Adds, called.key \notin {"caller", "generated"}
    PROVE  /\ Tracked(called) /\ Classify(called) \notin CALL_REPEAT_SAFE
           /\ http_retry_budget(called, MaxRetries) = 0
  <1>1. called.method \in Listed /\ called.method \notin Idempotent \cup Local
    BY DEF Adds, Listed, NonIdempotent, Idempotent, IdempotentGmail, IdempotentElsewhere, CallerKeyed, Local
  <1>2. Classify(called) = "non_idempotent"
    BY <1>1 DEF Classify
  <1> QED
    BY <1>2 DEF Tracked, CALL_REPEAT_SAFE, TRANSPORT_REPEAT_SAFE, http_retry_budget

\* Only a client that can be asked has a question, and no record waits to be
\* claimed while a body runs or a prompt is open.
RecordsInv ==
    /\ question.state # "none" => Gated /\ setting.mode = "required" /\ setting.client = "modern"
    /\ pc = "prompted" => setting.client = "legacy" /\ token.state # "open"
    /\ Busy => question.state # "open" /\ token.state # "open"

LEMMA RecordsNext == TypeInv /\ AskInv /\ RecordsInv /\ [Next]_vars => RecordsInv'
  <1> SUFFICES ASSUME TypeInv, AskInv, RecordsInv, [Next]_vars PROVE RecordsInv'
    OBVIOUS
  <1>0. /\ UNCHANGED <<call, setting>> /\ Gated' = Gated
        /\ setting.client \in {"mute", "legacy", "modern"} /\ setting.mode \in {"off", "preview_only", "required"}
        /\ token \in [state : RecordStates, world : {0, 1, 2}]
        /\ question \in [state : RecordStates, version : {0, 1}, world : {0, 1, 2}, answer : Answers,
                         via : {"call", "commit"}]
    BY IntentionStays DEF Gated, Asks, policy, TypeInv, TypeOK, Settings
  <1>1. CASE Change \/ UNCHANGED vars
    BY <1>0, <1>1 DEF Change, vars, recordVars, RecordsInv, Busy
  <1>2. ASSUME UNCHANGED question, pc' = "idle" PROVE RecordsInv'
    BY <1>0, <1>2 DEF RecordsInv, Busy
  <1>3. ASSUME NEW how \in {"call", "commit"}, NEW parked, Ask(how, parked), Gated, setting.mode = "required",
               setting.client # "mute", how = "call" => parked = "none"
        PROVE  RecordsInv'
    <2>1. CASE setting.client = "legacy"
      <3>1. pc' = "prompted" /\ question' = question /\ token'.state \in {"executing", parked}
            /\ (how = "commit" => token'.state = "executing") /\ (how = "call" => token'.state = parked)
        BY <1>0, <1>3, <2>1 DEF Ask
      <3> QED
        BY <1>0, <1>3, <2>1, <3>1 DEF RecordsInv, Busy
    <2>2. CASE setting.client # "legacy"
      <3>1. pc' = "idle"
        BY <2>2, <1>3 DEF Ask, Reply
      <3> QED
        BY <1>0, <1>3, <2>2, <3>1 DEF RecordsInv, Busy
    <2> QED
      BY <2>1, <2>2
  <1>4. CASE CallTool
    <2>1. CASE ~Gated /\ RunBody /\ UNCHANGED <<question, token>>
      <3>1. token.state = "none" /\ question.state = "none"
        BY <1>4, <2>1 DEF CallTool, RecordsInv
      <3> QED
        BY <1>0, <2>1, <3>1 DEF RunBody, RecordsInv, Busy
    <2>2. CASE (Reply("confirmation_required") \/ PreviewFails) /\ UNCHANGED question
      BY <1>2, <2>2 DEF Reply, PreviewFails
    <2>3. CASE Gated /\ ~Refused /\ Ask("call", "none")
      <3>1. setting.mode = "required" /\ setting.client # "mute"
        BY <1>0, <2>3 DEF Refused, _client_can_be_asked, _task_capable, AskInv, Gated
      <3> QED
        BY <1>3, <2>3, <3>1
    <2> QED
      BY <1>4, <2>1, <2>2, <2>3 DEF CallTool
  <1>5. CASE DryRun \/ Prepare \/ ReplayCommit
    BY <1>2, <1>5 DEF DryRun, Prepare, ReplayCommit, recordVars, PreviewFails, Reply
  <1>6. CASE Commit
    <2>1. CASE /\ ~Gated \/ setting.mode = "preview_only" \/ ~_client_can_be_asked("commit")
               /\ RunBody
               /\ token' = [token EXCEPT !.state = "executing"]
               /\ UNCHANGED question
      <3>1. question.state = "none"
        BY <2>1 DEF RecordsInv, _client_can_be_asked
      <3>2. token'.state = "executing"
        BY <1>0, <2>1
      <3> QED
        BY <1>0, <2>1, <3>1, <3>2 DEF RunBody, RecordsInv, Busy
    <2>2. CASE PreviewFails /\ UNCHANGED question
      BY <1>2, <2>2 DEF PreviewFails, Reply
    <2>3. CASE Gated /\ setting.mode = "required" /\ _client_can_be_asked("commit") /\ Ask("commit", "open")
      BY <1>3, <2>3 DEF _client_can_be_asked
    <2> QED
      BY <1>6, <2>1, <2>2, <2>3 DEF Commit
  <1>7. ASSUME NEW v, NEW answer, Answer(v, answer) PROVE RecordsInv'
    <2> DEFINE ended(record, how) == [record EXCEPT !.state = IF question.via = "commit" THEN how ELSE @]
    <2>1. question.state # "none" /\ token.state = IF question.via = "commit" THEN "open" ELSE "none"
      BY <1>7 DEF Answer
    <2>2. CASE PreviewFails /\ UNCHANGED question
      BY <1>2, <2>2 DEF PreviewFails, Reply
    <2>3. CASE /\ RunBody
               /\ question' = [question EXCEPT !.state = "executing", !.answer = answer]
               /\ token' = ended(token, "executing")
      <3>1. question'.state = "executing" /\ token'.state # "open"
        BY <1>0, <2>1, <2>3
      <3> QED
        BY <1>0, <2>1, <2>3, <3>1 DEF RunBody, RecordsInv, Busy
    <2>4. CASE pc' = "idle" /\ question' = [question EXCEPT !.state = "succeeded", !.answer = answer]
      BY <1>0, <2>1, <2>4 DEF RecordsInv, Busy
    <2>5. CASE pc' = "idle" /\ UNCHANGED question
      BY <1>2, <2>5
    <2> QED
      BY <1>7, <2>2, <2>3, <2>4, <2>5 DEF Answer, Reply
  <1>8. ASSUME NEW answer, Prompted(answer) PROVE RecordsInv'
    <2>1. CASE RunBody /\ UNCHANGED <<question, token>>
      BY <1>0, <1>8, <2>1 DEF Prompted, RunBody, RecordsInv, Busy
    <2>2. CASE pc' = "idle" /\ UNCHANGED question
      BY <1>2, <2>2
    <2> QED
      BY <1>8, <2>1, <2>2 DEF Prompted, Reply
  <1>9. ASSUME Busy, UNCHANGED <<question, token>>, pc' # "prompted" PROVE RecordsInv'
    BY <1>0, <1>9 DEF RecordsInv
  <1>10. CASE Succeeds \/ SkipShared \/ Deadline \/ BodyRaises \/ BodyReturns
    BY <1>9, <1>10 DEF Succeeds, SkipShared, Deadline, BodyRaises, BodyReturns, InBody, recordVars,
                       Calling, HasNext, Busy
  <1>11. ASSUME NEW failure, Resend(failure) \/ Fails(failure) PROVE RecordsInv'
    BY <1>9, <1>11 DEF Resend, Fails, InBody, recordVars, Calling, HasNext, Busy
  <1>12. CASE Settle
    <2>1. PICK how : question' = settle(question, how)
      BY <1>12 DEF Settle
    <2>2. question'.state # "none" => question.state # "none"
      BY <1>0, <2>1 DEF settle
    <2> QED
      BY <1>0, <1>12, <2>2 DEF Settle, RecordsInv, Busy
  <1> QED
    BY <1>1, <1>4, <1>5, <1>6, <1>7, <1>8, <1>10, <1>11, <1>12 DEF Next

\* Only a call that may be resent is ever resent.
TryInv == try # 0 => Calling /\ http_retry_budget(Step, MaxRetries) # 0

LEMMA TryNext == TypeInv /\ TryInv /\ [Next]_vars => TryInv'
  <1> SUFFICES ASSUME TypeInv, TryInv, [Next]_vars PROVE TryInv'
    OBVIOUS
  <1>0. UNCHANGED call /\ try \in Nat
    BY IntentionStays DEF TypeInv, TypeOK
  <1>1. ASSUME UNCHANGED <<pc, step, seen, try>> PROVE TryInv'
    BY <1>0, <1>1 DEF TryInv, Calling, HasNext, memoized, Step
  <1>2. CASE Change \/ UNCHANGED vars
    BY <1>1, <1>2 DEF Change, vars, bodyVars
  <1>3. ASSUME pc # "body", UNCHANGED try PROVE TryInv'
    BY <1>3 DEF TryInv, Calling, HasNext
  <1>4. CASE CallTool \/ DryRun \/ Prepare \/ Commit \/ ReplayCommit
    BY <1>3, <1>4 DEF CallTool, DryRun, Prepare, Commit, ReplayCommit, Arrive
  <1>5. ASSUME NEW v, NEW answer, Answer(v, answer) PROVE TryInv'
    BY <1>3, <1>5 DEF Answer, Arrive
  <1>6. ASSUME NEW answer, Prompted(answer) PROVE TryInv'
    BY <1>3, <1>6 DEF Prompted
  <1>7. CASE SkipShared \/ BodyReturns
    <2>1. ~Calling
      BY <1>7, <1>0 DEF SkipShared, BodyReturns, Calling, HasNext, TypeInv, TypeOK
    <2> QED
      BY <1>7, <2>1 DEF SkipShared, BodyReturns, TryInv
  <1>8. CASE Succeeds \/ Deadline \/ BodyRaises \/ Settle
    BY <1>8 DEF Succeeds, Deadline, BodyRaises, Settle, TryInv
  <1>9. ASSUME NEW failure, Fails(failure) PROVE TryInv'
    BY <1>9 DEF Fails, TryInv
  <1>10. ASSUME NEW failure, Resend(failure) PROVE TryInv'
    <2>1. Calling /\ UNCHANGED <<pc, step, seen>> /\ try < http_retry_budget(Step, MaxRetries)
      BY <1>10 DEF Resend, Resendable
    <2>2. http_retry_budget(Step, MaxRetries) # 0
      BY <1>0, <2>1
    <2> QED
      BY <1>0, <2>1, <2>2 DEF TryInv, Calling, HasNext, memoized, Step
  <1> QED
    BY <1>2, <1>4, <1>5, <1>6, <1>7, <1>8, <1>9, <1>10 DEF Next

\* What was added so far, by calls that add something each time.
Added == {l \in landed : AddsAgain(l.step)}

\* The client has been told, and no record is left that it could still use.
Spent == pc = "idle" /\ told /\ token.state # "open" /\ question.state # "open"

(***************************************************************************)
(* The inductive invariant: what was added was added by the request in     *)
(* hand, whose tracker knows of it, or else by one that used up the        *)
(* intention.                                                              *)
(***************************************************************************)
AddInv ==
    call.tool \notin TextReplacers =>
        /\ \A l \in landed : call.calls[l.step].method \notin Adds \/ call.calls[l.step].key = "caller"
                                => l.identity = <<0, 0>>
        /\ \A x, y \in Added : x.identity = y.identity
        /\ Added # {} =>
              \/ /\ Busy /\ tracker \cap {"applied", "uncertain"} # {}
                 /\ \A l \in Added : l.identity = <<requests, 0>>
              \/ Spent

\* A tool whose body adds something is not hinted idempotent.
LEMMA AddersAreNotHinted ==
    ASSUME IntentInv, call.tool \notin TextReplacers, Added # {} PROVE ~policy.idempotent
  <1>1. PICK run \in ToolBodies[call.tool] : run.args = call.args /\ run.calls = call.calls
    BY IntentionOfTables
  <1>2. PICK l \in landed : AddsAgain(l.step)
    BY DEF Added
  <1>3. l.step \in DOMAIN run.calls /\ ~RepeatsSafely(run.calls[l.step])
    BY <1>1, <1>2, AddsAreTracked DEF IntentInv, AddsAgain, RepeatsSafely
  <1> QED
    BY <1>1, <1>3, IntentionOfTables, HintedRepeatsSafely DEF policy

\* A step that executes nothing and leaves the intention used up.
LEMMA AddKept ==
    ASSUME AddInv, UNCHANGED <<call, landed>>,
           call.tool \notin TextReplacers /\ Added # {} =>
              \/ Busy /\ Busy' /\ tracker \subseteq tracker' /\ UNCHANGED requests
              \/ Spent'
    PROVE  AddInv'
  <1>1. Added' = Added
    BY DEF Added, AddsAgain
  <1> QED
    BY <1>1 DEF AddInv, Spent, Busy

\* A call of the body: what it executes is of this request.
LEMMA AddStep ==
    ASSUME IntentInv, TryInv, AddInv, Calling, UNCHANGED <<call, requests>>,
           tracker \subseteq tracker', Busy',
           \/ landed' = landed
           \/ /\ landed' = Landed
              /\ \/ tracker' = Ended("applied") \/ tracker' = Ended("uncertain")
                 \/ http_retry_budget(Step, MaxRetries) # 0
    PROVE  AddInv'
  <1>0. step \in DOMAIN call.calls /\ Step = call.calls[step] /\ Busy /\ ~Spent
    BY StepOfBody DEF Busy, Calling, HasNext, Spent
  <1>1. CASE landed' = landed
    BY <1>0, <1>1, AddKept
  <1>2. CASE landed' = Landed /\ landed' # landed
    <2> DEFINE new == [step |-> step, identity |-> Identity, version |-> version, world |-> Content]
    <2>1. landed' = landed \cup {new}
      BY <1>2 DEF Landed
    <2> SUFFICES ASSUME call.tool \notin TextReplacers PROVE AddInv'
      BY DEF AddInv
    <2>2. Step.method \notin Adds \/ Step.key = "caller" => new.identity = <<0, 0>>
      BY DEF Identity
    <2>3. \A l \in landed' : call.calls[l.step].method \notin Adds \/ call.calls[l.step].key = "caller"
                                => l.identity = <<0, 0>>
      <3>1. new.step = step
        OBVIOUS
      <3> HIDE DEF new
      <3> QED
        BY <1>0, <2>1, <2>2, <3>1 DEF AddInv
    <2>4. CASE ~AddsAgain(step)
      <3>1. Added' = Added
        BY <2>1, <2>4 DEF Added, AddsAgain
      <3> QED
        BY <1>0, <2>3, <3>1 DEF AddInv, Busy
    <2>5. CASE AddsAgain(step)
      <3>1. Tracked(Step) /\ Classify(Step) \notin CALL_REPEAT_SAFE /\ http_retry_budget(Step, MaxRetries) = 0
        BY <1>0, <2>5, AddsAreTracked DEF AddsAgain
      <3>2. try = 0
        BY <3>1 DEF TryInv
      <3>3. new.identity = <<requests, 0>>
        BY <1>0, <2>5, <3>2 DEF Identity, AddsAgain
      <3>4. tracker' \cap {"applied", "uncertain"} # {}
        BY <1>2, <3>1 DEF Ended
      <3>5. \A l \in Added' : l.identity = <<requests, 0>>
        <4>1. \A l \in Added : l.identity = <<requests, 0>>
          BY <1>0 DEF AddInv
        <4>2. \A l \in Added' : l \in Added \/ l = new
          BY <2>1 DEF Added, AddsAgain
        <4> QED
          BY <3>3, <4>1, <4>2
      <3> QED
        BY <2>3, <3>4, <3>5 DEF AddInv
    <2> QED
      BY <2>4, <2>5
  <1> QED
    BY <1>1, <1>2

LEMMA AddNext == TypeInv /\ IntentInv /\ RecordsInv /\ TryInv /\ AddInv /\ [Next]_vars => AddInv'
  <1> SUFFICES ASSUME TypeInv, IntentInv, RecordsInv, TryInv, AddInv, [Next]_vars PROVE AddInv'
    OBVIOUS
  <1>0. UNCHANGED call /\ token \in [state : RecordStates, world : {0, 1, 2}]
        /\ question \in [state : RecordStates, version : {0, 1}, world : {0, 1, 2}, answer : Answers,
                         via : {"call", "commit"}]
    BY IntentionStays DEF TypeInv, TypeOK
  <1>1. CASE Change \/ UNCHANGED vars
    BY <1>1, AddKept DEF Change, vars, configVars, bodyVars, recordVars, Busy, Spent, AddInv
  <1>2. ASSUME pc = "idle", UNCHANGED landed,
               call.tool \notin TextReplacers /\ Added # {} /\ ~policy.idempotent /\ Spent
                  => pc' = "idle" /\ UNCHANGED <<told, token, question>>
        PROVE  AddInv'
    <2>1. call.tool \notin TextReplacers /\ Added # {} => Spent /\ ~policy.idempotent
      BY <1>2, AddersAreNotHinted DEF AddInv, Busy
    <2> QED
      BY <1>0, <1>2, <2>1, AddKept DEF Spent
  <1>3. CASE CallTool
    <2>1. pc = "idle" /\ UNCHANGED landed /\ (~policy.idempotent => ~told)
      BY <1>3 DEF CallTool, Arrive
    <2> QED
      BY <1>2, <2>1 DEF Spent
  <1>4. CASE Prepare
    BY <1>2, <1>4 DEF Prepare, Arrive, Spent
  <1>5. CASE DryRun \/ ReplayCommit
    BY <1>2, <1>5 DEF DryRun, ReplayCommit, Arrive, Reply, recordVars
  <1>6. CASE Commit
    BY <1>2, <1>6 DEF Commit, Arrive, Spent
  <1>7. ASSUME NEW v, NEW answer, Answer(v, answer) PROVE AddInv'
    <2>1. pc = "idle" /\ UNCHANGED <<landed, told>>
      BY <1>7 DEF Answer, Arrive
    <2>2. question.state # "open" => pc' = "idle" /\ UNCHANGED <<token, question>>
      BY <1>7 DEF Answer, PreviewFails, Reply
    <2> QED
      BY <1>2, <2>1, <2>2 DEF Spent
  <1>8. ASSUME NEW answer, Prompted(answer) PROVE AddInv'
    <2>1. pc = "prompted" /\ UNCHANGED landed
      BY <1>8 DEF Prompted
    <2>2. call.tool \notin TextReplacers => Added = {}
      BY <2>1 DEF AddInv, Busy, Spent
    <2> QED
      BY <1>0, <2>1, <2>2, AddKept
  <1>9. \A outcome : tracker \subseteq Ended(outcome)
    BY DEF Ended
  <1>10. CASE Succeeds
    <2>1. Calling /\ landed' = Landed /\ tracker' = Ended("applied") /\ UNCHANGED requests /\ Busy'
      BY <1>10 DEF Succeeds, InBody, Busy, Calling, HasNext
    <2> QED
      BY <1>0, <1>9, <2>1, AddStep
  <1>11. CASE SkipShared \/ BodyRaises \/ BodyReturns
    <2>1. Busy /\ Busy' /\ UNCHANGED <<landed, tracker, requests>>
      BY <1>11 DEF SkipShared, BodyRaises, BodyReturns, InBody, Busy, HasNext
    <2> QED
      BY <1>0, <2>1, AddKept
  <1>12. CASE Deadline
    <2>1. /\ Calling /\ (landed' = landed \/ landed' = Landed) /\ tracker' = Ended("uncertain")
          /\ UNCHANGED requests /\ Busy'
      BY <1>12 DEF Deadline, MayLand, InBody, Busy
    <2> QED
      BY <1>0, <1>9, <2>1, AddStep
  <1>13. ASSUME NEW failure, Resend(failure) PROVE AddInv'
    <2>1. /\ Calling /\ (landed' = landed \/ landed' = Landed) /\ UNCHANGED <<tracker, requests>> /\ Busy'
          /\ try < http_retry_budget(Step, MaxRetries)
      BY <1>13 DEF Resend, Resendable, MayLand, InBody, Busy, Calling, HasNext
    <2>2. try \in Nat
      BY DEF TypeInv, TypeOK
    <2>3. http_retry_budget(Step, MaxRetries) # 0
      BY <2>1, <2>2
    <2> QED
      BY <1>0, <2>1, <2>3, AddStep
  <1>14. ASSUME NEW failure, Fails(failure) PROVE AddInv'
    <2>1. /\ Calling /\ UNCHANGED requests /\ Busy'
          /\ \/ landed' = landed /\ (tracker' = Ended("rejected") \/ tracker' = Ended("uncertain"))
             \/ landed' = Landed /\ tracker' = Ended("uncertain")
      BY <1>14 DEF Fails, MayLand, _definitive_rejection, Rejections, InBody, Busy, Calling, HasNext
    <2> QED
      BY <1>0, <1>9, <2>1, AddStep
  <1>15. CASE Settle
    <2>1. Busy /\ UNCHANGED landed /\ pc' = "idle"
      BY <1>15 DEF Settle, Busy
    <2>2. ASSUME call.tool \notin TextReplacers, Added # {} PROVE Spent'
      <3>1. tracker \cap {"applied", "uncertain"} # {}
        BY <2>1, <2>2 DEF AddInv, Spent, Busy
      <3>2. uncertain_calls \/ pc = "returned"
        BY <3>1 DEF uncertain_calls
      <3>3. told'
        BY <1>15, <3>2 DEF Settle
      <3>4. \A coded \in BOOLEAN : "open" \notin Settlements(coded)
        BY <3>2 DEF Settlements
      <3>5. token.state # "open" /\ question.state # "open"
        BY <2>1 DEF RecordsInv
      <3>6. PICK how \in Settlements(FALSE), ending \in Settlements(TRUE) :
               question' = settle(question, how) /\ token' = settle(token, ending)
        BY <1>15 DEF Settle
      <3>7. how # "open" /\ ending # "open"
        BY <3>4, <3>6
      <3>8. token'.state # "open" /\ question'.state # "open"
        BY <1>0, <3>5, <3>6, <3>7 DEF settle
      <3> QED
        BY <2>1, <3>3, <3>8 DEF Spent
    <2> QED
      BY <1>0, <2>1, <2>2, AddKept
  <1> QED
    BY <1>1, <1>3, <1>4, <1>5, <1>6, <1>7, <1>8, <1>10, <1>11, <1>12, <1>13, <1>14, <1>15 DEF Next

\* For every table that hints only tools of repeat-safe calls: however often a
\* client calls, prepares, commits and answers, whatever is lost, resent or cut
\* off, one intention adds one thing (LazyGoogleRequest.execute,
\* settle_after_return, settle_after_failure, repeat_safety.py).
THEOREM OneIntentionAddsOnce == Spec => []NoDuplicates
  <1>1. Init => RecordsInv /\ TryInv /\ AddInv
    BY DEF Init, NoQuestion, RecordsInv, TryInv, AddInv, Added, Busy
  <1>2. AddInv => NoDuplicates
    <2> SUFFICES ASSUME AddInv, NEW s \in DOMAIN call.calls, call.calls[s].key # "generated",
                        call.tool \notin TextReplacers,
                        NEW x \in landed, NEW y \in landed, x.step = s, y.step = s
                 PROVE  x.identity = y.identity
      BY DEF NoDuplicates, Executions
    <2>1. CASE AddsAgain(s)
      BY <2>1 DEF AddInv, Added
    <2>2. CASE ~AddsAgain(s)
      BY <2>2 DEF AddInv, AddsAgain
    <2> QED
      BY <2>1, <2>2
  <1>3. Init => AskInv
    BY DEF Init, AskInv, NeverAskedInVain
  <1> QED
    BY <1>1, <1>2, <1>3, AskNext, RecordsNext, TryNext, AddNext, TypesHold, IntentHolds, PTL DEF Spec
=============================================================================

# A formal model of mcp-google-workspace

`mcp-google-workspace` is an MCP server that offers Gmail, Calendar, Drive and the
other Google Workspace services as tools. Reading tools are harmless; the others send
mail, share files or delete things, through an API in which most calls may not be
repeated. Several replicas of the server may run behind a load balancer, with Redis
between them and background workers beside them. The hard part of the program is
therefore less in the tool modules than in the few that decide *whether, how often and
under which limits* a tool body runs. These are modelled as protocols; the tools themselves
are modelled as tables of the Google calls their bodies make, so that what the protocols
promise is checked for every tool that is published.

All paths below are relative to `src/src/mcp_google_workspace/`.

## 1. Inventory

| component | state | operations | hard behaviour |
|---|---|---|---|
| App state store, `common/app_state.py` | revisioned keys with expiry, in memory or Redis | create, get, compare_and_set, delete, all atomic | expiry against a stalled writer; revisions restart after expiry |
| Operation store, `common/operations.py` | one record per commit, confirmation, task: state, claim, lease, answer, digests, saved result | open, claim, claim_task_delivery, succeed, fail, mark_unknown, park, release, resolve_unknown | racing claims on replicas, crash between claim and settlement, lapsing leases, lost writes, skewed clocks |
| Mutation tracking, `common/repeat_safety.py` | per layer: calls in flight, applied, rejected, uncertain; closed flag | _start, _finish, close, uncertain_calls | worker threads that outlive a cancelled body |
| Layers of a call, `common/confirmation.py`, `common/execution.py`, `OperationOutcomeMiddleware` | the chain of trackers, the shared outcome reference | settle_after_return, settle_after_failure, record_uncertain_outcome | a commit nests a whole second call: four layers end one after the other |
| Consent gate, `common/consent.py`, `common/approvals.py`, `server.py` | the consent table; commit tokens; per request: the prepare request, the commit grant, the memo of reads | enforce_consent, TaskConsentMiddleware, prepare, commit, dry run | which of four ways a call takes; a table kept beside the code of the tools |
| Confirmation, `common/confirmation.py` | sealed continuations: digests of arguments and preview, the operation | ask, answer, decline, inline prompt | answers replayed, changed, concurrent; a preview that has changed |
| Service tools, `calendar/`, `gmail/`, `drive/`, `docs/`, `sheets/`, `slides/`, `forms/`, `tasks/`, `people/`, `keep/`, `chat/`, `gemini/`, `meet/`, `apps/tools.py`, `server.py` | none | about 150 tools, each a short sequence of Google calls | calls that may not be repeated; several calls in one body; failures that are caught |
| Background tasks, `common/execution.py`, `task_worker.py` | the Docket queue (external) | run_task_delivery | redelivery after a crash |
| Admission, `common/admission.py`, `common/production.py` | process semaphores; per principal a window and a semaphore, in a bounded table, or in Redis a sorted set of stamps and one of leases | check_rate, execution_slot, _principal_slot, the deadline | leases that lapse, lost answers, evicted state, nested calls that queue while they hold slots |
| Drain, `common/production.py`, `server_http.py` | draining flag, activity counters | begin_draining, lifespan | queued calls, a bounded wait |
| Credentials, `auth/token_store.py`, `auth/google_auth.py`, `auth/google_oauth.py` | credentials and OAuth states per principal, two locks | get_credentials with refresh, disconnect, complete_google_authorization | refresh against disconnect and re-authorization |
| Uploads, `file_uploads.py`, `common/s3_uploads.py` | metadata in Redis and objects in S3; or SQLite and files; or memory | store, list, get, delete, cleanup, key rotation | two stores without a common transaction |
| Dashboard views, `apps/state.py` | one revisioned record per view | create, resolve, update | racing updates, sliding expiry |
| Circuit breaker, `common/async_ops.py` | failures and opening time per service | allow, success, failure | late results of old calls |
| Identity, tiers, catalog, encryption, tracing, schemas, presentation, the user interfaces | none, or none a protocol depends on | | not modelled |

How they interact: every `tools/call` goes through the middleware chain of `server.py`
(error envelope, outcome tracking, admission and deadline, catalog, task consent,
resource handles), then through the execution guard and the confirmation guard to the
tool body, which makes its Google calls on worker threads. `commit_workspace_action`
re-enters the whole chain for the tool it was prepared for. Consent, commits and task
deliveries all meet in the operation store; operation records and dashboard views share
the app state store; admission uses Redis with scripts of its own.

What makes each correct:

* **operation store**: of all the requests for one operation at most one gets a
  non-repeatable call to Google; a record is only handed back or recorded as failed if
  nothing happened and nothing can still happen; a decline is never turned into an
  acceptance; saved results are real; every caller is answered.
* **consent gate**: nothing consequential happens before the user agreed, and what happens is
  what the user was shown; a client is only asked what it can answer; the table leaves no
  irreversible call ungated.
* **tools and retries**: one intention of a client adds one thing, whatever is lost, resent
  or called again; a tool hinted idempotent never leaves its client with "unknown".
* **layers**: no layer hands an operation back, or records it as failed, when the change may
  exist; every layer settles what it claimed.
* **admission**: the rate and the concurrency of a principal hold over the whole fleet;
  nobody is refused without need; calls do not wait for each other for ever; evicting a
  principal's state neither adds slots nor renews its window; a drain waits for bodies.
* **uploads**: a handle that was returned can be read until it expires; a deleted upload
  stays deleted; the quota holds; no bytes are left that nothing leads to.
* **dashboard views**: a change builds on what is stored; a view in use stays, and one that
  is gone stays gone.
* **credentials**: refreshes on several replicas do not undo each other; a late 401 does
  not delete newer credentials; a one-time state serves once; no lock is left behind.

## 2. Plan

1. `RevisionedStore`, `OperationRecord`, `OperationStore` with its abstract specification
   `AtMostOnce`: types, safety, refinement and proofs. *Done.*
2. `CommitLayers`: nested trackers and settlement. *Done, with proofs.*
3. `FleetClock`, `RateWindow`, `FleetAdmission` and their proofs. *Done.*
4. `Credentials`: use, refresh, invalidation, authorization and disconnect. *Done, with
   proofs.*
5. `Uploads` over three backends; `ProcessAdmission` with eviction and draining;
   `DashboardViews` over `RevisionedStore`. *Done, with proofs.*
6. `GoogleMethods`, the seven tables of tools, `ConsentTable`, and `ToolCalls`, which carries
   each of them through the gate, the body and the settlement. *Done, with proofs.*
7. Left: scopes in `Credentials`; the circuit breaker; `OperationStore` under `ToolCalls`
   (two requests at once through the gate).
8. Theorems: every safety and action property of the passing runs is one. Where the code
   does not keep a promise in every case, the case is named in the property, and occurs in
   the runs (sections 6 and 7). *Done.*

## 3. Modules and how they correspond to the code

| module | stands for | extends / instantiates |
|---|---|---|
| `RevisionedStore` | one key of `common/app_state.py`: `create`, `compare_and_set`, expiry | |
| `OperationRecord` | the `decide()` and `change()` closures of `common/operations.py`, as functions of a record and a time | `RevisionedStore` |
| `OperationStore` | requests for one operation: CAS loop, tool body, Google calls, settlement, crashes | `OperationRecord`; `AtMostOnce` |
| `AtMostOnce` | the promise: an owner discipline without store, leases or trackers | |
| `CommitLayers` | the four layers of a commit with its nested call, and the threads below them | |
| `FleetClock` | the clocks of Redis and of the replicas | |
| `RateWindow` | `_RATE_SCRIPT` and `consume_rate` | `FleetClock` |
| `FleetAdmission` | `execution_slot`, `_principal_slot`, `_LEASE_SCRIPT`, the deadline and nesting | `FleetClock` |
| `Credentials` | the stored Google credentials of a principal, their two locks, and everybody who writes them | |
| `Uploads` | the three upload stores and the calls that store, list, read and delete | |
| `ProcessAdmission` | `admission_state`, its eviction, `_Window`, the semaphores of `execution_slot`, the drain loop | |
| `DashboardViews` | one view of `apps/state.py` and the tools that read and change it | `RevisionedStore` |
| `GoogleMethods` | `METHOD_POLICIES` and `classify` of `common/repeat_safety.py`, and the steps of a body | |
| `CalendarTools`, `GmailTools`, `DriveTools`, `DocumentTools`, `PersonalTools`, `ChatTools`, `ServerTools` | every published tool: the runs of its body | `GoogleMethods` |
| `ConsentTable` | `CONSENT_TABLE` | |
| `ToolCalls` | one intention of a client through gate, body and settlement | `GoogleMethods`; `MCToolCalls` instantiates all tables |
| `MC*` | model values, symmetries and topologies for TLC | the module of that name |
| `*_proofs` | theorems | the module of that name; `FleetAdmission_proofs` is about `RateWindow` as well, `OperationStore_proofs` about `AtMostOnce` |

**OperationStore.** `slot` is the Redis hash (or memory entry) of the record: revision,
value, expiry. Each element of `Request` is one caller: a commit, an answered confirmation,
or one delivery of a task; its claim id is its name. `pc` and `job` say which closure of
`_update` it is running: `Read` is the `get` and the decision taken on it, `Write` the
`compare_and_set`; between them anything may happen to the record. `Written`, `Conflict`
and `Vanished` are the three answers of the CAS. A granted claim runs the body: `StartCall`
is `MutationTracker._start`, `Land` is Google executing a call - possibly long after its
caller gave up (`loose`) - and `FinishCall` is what the tracker records, also from a thread
that outlived its body. The tracker judges a call by its last answer
(`_definitive_rejection`): with `Resendable`, a post to Chat under a generated key, whose
request the HTTP client sends again, a call may be answered by a refusal although an earlier
attempt landed, or still will (`Misjudged`). `EndBody` picks any ending the code can produce in that state, and
`Settle` translates `settle_after_return` and `settle_after_failure`. `SettleLost` is the
`_shielded` write that takes too long or fails, `Crash` the death of the process; a store
error during a claim ends the request without an execution and is covered by `Crash`. The
three kinds of operation share the module; `OpKind` selects the one under study. A replica
sees `Reading`, any time within `MaxSkew` of the store's clock. `dropped` is history: a task's
record was created again although the one before was not a released one that nobody was about
to write to (`Staked`).

**CommitLayers.** `top` is the innermost layer that has not ended. A thread registers with
the trackers from the inside out and reports to them one by one; the layers close theirs in
the same order. The calls of `Resent` are sent again, so that a refusal says nothing of their
earlier attempts. `result` is what a layer hands up. `rec` holds the records that the guard of
the nested tool (layer 1, if the tool asked the user itself) and the guard of the commit
(layer 3) have to settle.

**RateWindow.** `stamps` and `stamp` are the sorted set, `expiry` its TTL. A script runs
with the clock of the calling replica. When Redis fails or its answer is lost the request is
refused (`failed`), and may have been charged all the same. A script that Redis executes only
after its caller has given up is left out: it would carry an old time.

**FleetAdmission.** `pc` follows a call through `execution_slot`; `line` and `costly` are
the FIFO waiters of the two process semaphores; `lease` and `leaseKey` are the sorted set of
leases and its TTL. `Outer` says which commit a call is nested in. `uncovered` is history: the
calls that hold a lease and can outstay it, because the lease of a shorter call took the TTL of
the set down (`CutShort`), or because the wait for an expensive slot used it up (`WaitTooLong`).

**Credentials.** Each thread is a tool call, an OAuth callback or a disconnect; a stored
generation is named after the thread that wrote it, which stands for its fingerprint. The
phases of `get_credentials` are separate steps, as are those of the callback and of
disconnect. `Watch`, `Compare` and `Delete` are the WATCH, the GET with its comparison, and the
EXEC of the conditional invalidation; `touched` are the connections whose watched key was
written meanwhile, which is all that EXEC looks at. The Redis lock of a thread of `Slow` may
lapse while the thread works under it; `overrun` is history: the threads it happened to.

**Uploads.** `record` is the Redis hash (or SQLite table) of one principal, `blob` the
objects in S3 (or files). A staged record lives `StagedFor`: the staging time, or the
upload's own TTL if that is shorter; `MayStall` says whether a storing call may outlive it. A storing call goes through prepare, reserve, puts in any order,
finalize; any put may fail, with or without its object in place, and the compensation may
fail as well. On disk the cleanup unlinks files at once (`Sweep`), while the rows it deletes
come back if the transaction of the store it runs in is rolled back. Callers list (which cleans up), read (which may rotate the key and write the
bytes back) and delete; on S3 each of their round trips is a step. `retired` and `torn`
record which uploads somebody was told are deleted, and which lost bytes or kept some by a
fault the code does not repair.

**ProcessAdmission.** `slot` is the state object a call looked up, `entry` the one in the
table; they part when the table evicts. `waiting` keeps the order in which calls came to
a lock or a semaphore; a semaphore's free slots are counted from the calls that hold one.
`Moves` changes a call's place; each action is the code between two awaits of the event loop.

**DashboardViews.** `slot` is the revisioned key of one view. A request is at `resolve` (only
`set_state` resolves first), `load` or `commit`; `touched` is when the view was last read or
written.

**Tool tables.** A tool is a set of *runs*: the properties of its arguments that the consent
table looks at, and the sequence of calls its body makes for such arguments. A call names its
discovery method, its deduplication key (none, the caller's, generated), the failures the
body survives, and what follows a success. `search_events` of `CalendarTools` is the function
of that name in `calendar/tools.py`, and so on; the name under which a tool is published
prefixes the package's, as the mounts of `server.py` do. Loops over ids make two calls.
Changes outside the tracked client (uploads, views, local files, Gemini, OAuth) are methods
of the set `Local`, which no tracker sees.

**ConsentTable.** A trigger is a set of argument properties; a call fires it by having them
all. `dry_run` marks the tools that have the flag.

**ToolCalls.** `call` is what the client wants, chosen among all runs of all tools; `setting`
is `MCP_CONSENT`, how the client can be asked, and whether it runs the call as a background
task. `CallTool`, `DryRun`, `Prepare`, `Commit`, `ReplayCommit` and `Answer` are the requests
the client can make; each is the whole gate for that request (`TaskConsentMiddleware`, then
`enforce_consent`, then `confirm_destructive_action`). `token` and `question` are the records
of the prepared operation and of the latest question. The body steps through `call.calls`:
`Succeeds`, `Resend`, `Fails`, `Deadline`, `BodyRaises`; what Google executes goes into
`landed`, with an identity that two executions share exactly when Google or the method's own
idempotence makes them one. `Settle` is both guards and `OperationOutcomeMiddleware`. `world`
is the version of what a preview reads: it changes once, at any time.

The client of `ToolCalls` sends one request at a time and gets every reply; it does not call
a tool afresh once any reply `told` it "done" or "unknown", unless the tool is hinted idempotent, and
it uses its latest token and question. Racing and lost requests are the subject of
`OperationStore`, which does not know what a body does.

## 4. Runs

Sizes are distinct states; every run ends within three minutes on two workers.

| run | instance | shows |
|---|---|---|
| `store_confirmation` | three answers, two digests, posts that may be sent again, lease 2, clock to 2; 1.2 M | types; at most one request acts; a claimable record is untouched; a declined operation never acts; an answer never changes; terminal states stay; refinement of `AtMostOnce` |
| `store_task` | three deliveries with two calls each, lease and retention 1, clock to 3; 3.6 M | at most one delivery acts; a failed task has had no effect |
| `store_fair` | two commits of a post that may be sent again, clocks one apart, with reconciliation; 600 k | saved replies are real; a token is not honoured after its expiry; every request ends; a lapsed claim is resolved |
| `layers` | a commit and a nested tool, three calls, one of them sent again; 1.5 M | a cleared record is untouched; claims are settled |
| `rate` | four requests, any of which Redis may leave unanswered, limit 2, window 4, clocks one apart; 143 k | the rate; refusals are due |
| `fleet` | two commits with expensive nested calls on one replica, an expensive call on another, two process slots, two leases, deadlines 1 and 3, clocks one apart; 620 k | the principal's limit over the fleet; every call ends |
| `credentials` | three threads on two processes, one of which may outlast its lock; 500 k | refreshes keep each other; invalidation keeps newer credentials; a state serves once; every call ends |
| `uploads` | a call that stores two files and one that stores one, two callers, three backends, clock to 3; 3.0 M | returned handles can be read; the quota; deleted stays deleted; bytes are accounted for |
| `process` | two requests and a task of two principals, a table for one, clock to 2; 166 k | the principal's limit and rate through evictions; drained means finished; every call ends |
| `tools` | all tools with all their runs, three modes, three kinds of clients, six requests, three failures, one retry; 474 k | consent first; harm is asked; what is shown is run; no duplicates; hints are honest; no question in vain |
| `tools_retry` | the same with two requests and two failures | *violated*, see section 7 |
| `views` | three requests, TTL 2, clock to 3, two attempts; 1.4 M | changes build on the latest state; what is gone stays gone; what is used stays |

**Why the bounds are enough.** Three requests are one that executed, one that moves the
record on after its lease, and one that comes after both; the proofs of section 6 take the
safety results to any number. A clock of two or three steps with leases and expiries of one
to three lets every deadline fall before, on and after every other. One Google call per
execution gives every outcome of the tracker except the mixture of outcomes, for which
`store_task` has two. There a released or executing record expires, with lease and retention
1, while two more deliveries can read the old one and create the new one; the run does not go
on behind a record that was dropped (`CONSTRAINT Undropped`), where both properties hold
trivially. Two conflicts exhaust the CAS loop. In `layers` one of three calls is sent again;
the other two give every mixture of outcomes below it. In `fleet` the two commits hold both
slots while their nested calls queue, and the lease of the fifth call meets theirs under
either clock; `Grace` is above twice the skew, without which `FleetLimitHolds` does not hold.
A commit's lease is shorter than that of an expensive call, so that it can cut one short, and
an expensive slot is one per process, so that a call can wait for it until its lease lapses:
without `uncovered` in it the property is violated within these bounds, by each of the two.
In `credentials` one slow thread is enough to have its write meet that of any other; with all
three slow (1.3 M states) the properties hold as well.
In `process` a table of one entry makes every second principal an eviction. In `tools` six
requests are enough for call, prepare, commit and answer with a repetition of two of them, or
for five calls after errors; three failures for a resend, its rejection, and a failure of the next request. In `uploads` a
staged record, a hash and an orphan each lapse after one step of three. `CasAttempts`,
`MaxCalls`, `MaxTime`, `MaxSkew`, `LastArrival`, `MaxRequests`, `MaxFaults` and `MaxRetries`
are the only bounds that cut behaviour off; each is a constant of its module. Deadlock is not
checked, because in every module the requests are finitely many and the system rightly stops
when all have ended.

## 5. Fairness

* `OperationStore`: `Tick` and each request's own steps are weakly fair. A live process runs
  its coroutines; the deadline of `ProductionControlMiddleware` cancels every body, so
  `EndBody` need not wait for Google. Nothing is assumed of arrivals, of Google, of crashes.
  No lock is involved: the CAS loop is bounded, which is what makes `EveryRequestEnds` true
  without strong fairness.
* `FleetAdmission`: the asyncio semaphores are FIFO, so the head of a line is served once a
  slot is free; polling for a lease ends with the queue time; a body ends at its deadline;
  a call whose commit is overdue is cancelled. Cancellations by callers are not fair.
* `ProcessAdmission`: the event loop serves whoever can go on, bodies end (each has a
  deadline), time passes and the drain loop keeps looking. Arrivals, cancellations and the
  beginning of a drain are not fair; anyio's locks and semaphores are first come, first served.
* `Credentials`: a live thread takes its steps (the calls to Google have timeouts, waiting
  for the Redis lock has one too) and Redis expires the lock of a dead holder.

The other modules state no liveness: their calls end by the deadlines that
`ProcessAdmission` and `FleetAdmission` are about.

## 6. What is proved

All theorems hold for every value of the constants that the named assumptions admit:
positive durations, distinct nulls, natural bounds, finite sets of requests where
cardinalities are used.

* `TypeCorrect` (`OperationStore_proofs`): `TypeOK` is inductive as it stands.
* `SafetyInvariant` (same module), for operations of every kind: `SafetyInv` holds as long as
  nothing was `dropped`. `ActsAtMostOnce` alone
  is not inductive: a claim is written long after the read it was decided on, a settlement
  long after the calls it judged. The invariant has four ideas. `OnlyHolderActs`: whoever
  runs the body or may have acted is named by the record, which cannot be claimed.
  `DraftsAreFresh`: a pending write is for the present revision only if the record it was
  decided on is still there, so a CAS that succeeds continues that record.
  `TrackerKnows`: every effect, present or still possible, shows in the tracker, unless it is
  that of an earlier attempt of a call that was sent again and refused (`Misjudged`), so that
  `EndingIsHonest` and `ClearedIsUntouched` follow: a settlement that clears the record is
  chosen by a request without effect, or by one that was misjudged. `FailedIsOver`: nobody
  runs behind a failed record. From it follow, without a hypothesis, `AtMostOneActs`,
  `ClaimableIsUntouched` and `FailedHadNoEffect`; their properties carry the exceptions:
  + a commit of a post that was sent again and then refused (`Disowned`). Its guard sees the
    code of the refusal, and hands the operation back (`operations.py:954`) if the code is one
    of those that say nothing was attempted (`approvals.py:39`), although the message may have
    been posted; the next commit posts it again;
  + such a post behind a confirmation (`Misjudged`): its guard records "failed"
    (`operations.py:917`), over a message that may have been posted. A failed record cannot be
    claimed, so at most one answer acts all the same;
  + a task whose record was `dropped` (section 7). A released record that expires with
    nobody about to write to it may be created again: that is one more grant, and no exception.
* `ImplementsPromise` (same module): every behaviour in which nothing is dropped and nobody
  disowned implements `AtMostOnce`. `AnswersKeepPromise`: confirmations do so without
  condition, and commits of tools whose calls are not sent again. `TerminalIsFinal` is the
  action property of the same invariant, for commits and confirmations.
* `DeclineIsFinal` and `AnswerStays` (same module), over `SafetyInv`. `AnswerInv`: a pending
  write for the present revision keeps the answer it read, a claim's write carries its own,
  and whoever runs behind a declined record was declined itself. A decline that is recorded
  after others ran finds nobody who acted, because it can only be recorded by a claim, and
  a claim needs a record that `OnlyHolderActs` knows to be untouched.
* `SavedIsReal` (same module). `RealInv` follows the name in a saved result back to the
  request that settled a success, and the flag of a reconciled one to an effect.
  `LateClaimsFail`: at revision 1 the key's expiry is the record's, give or take the skew.
* `OwnerActs` (`OperationStore_proofs`): under the owner discipline only the owner has acted.
* `RateIsLimited` and `RefusalsAreDue` (`FleetAdmission_proofs`). The invariant `WindowInv`
  says that a request inside the window, shortened by twice the skew, is still in the sorted
  set whichever clock pruned it, and that nothing else is; the rest is a comparison of finite
  cardinalities.
* `FleetLimitIsKept` (same module). The limit counts leases, so the invariant `LeaseInv` is
  that every clock sees the lease of every call that executes or holds its lease while it
  waits for an expensive slot, unless it is `uncovered` (`HoldersAreCovered`): its score, and
  the TTL of the whole set, lie beyond the moment its deadline, or that of the standard commit
  around it, cancels it. Then whoever finds a free lease finds room among those that are
  covered. `CommitsOutlast` is what gives a nested call that second deadline, also through
  crashes. The hypothesis `LeasesOutlast` is about the constants alone: the grace of a lease
  (30 s) is more than the slack of a cancellation and twice the skew. The two cases the code
  leaves open, a shorter lease that cuts the set's TTL and an unbounded wait for an expensive
  slot, are no hypotheses but the exception in the property: with the default deadlines of
  120 and 600 seconds both occur, and a principal can then exceed its limit by the calls they
  happen to (section 7).
* `StateOnce` and `RefreshesAreSerial` (`Credentials_proofs`). `SerialInv`: whoever is past
  the Redis lock holds it, and what a refresh loaded is still stored, gone, or replaced by a
  callback or by a refresh that outlasted its lock. Any set of threads may outlast it: the
  code does not bound a refresh by `MCP_OAUTH_REFRESH_LOCK_SECONDS`. Such a thread is promised
  nothing, nor is anybody protected from what it writes; the others keep each other's results.
* `CredentialsTypeOK` and `InvalidationIsConditional` (`Credentials_proofs`). EXEC compares
  nothing: that what it deletes is what the GET saw is an invariant of the three round trips
  (`ComparedIsStored`), which rests on the WATCH that comes before the GET.
* `ClearedIsUntouched`, `NoClaimLeftBehind` and `LayersTypeOK` (`CommitLayers_proofs`), for any
  set of Google calls and every interleaving of their threads with the layers. `LayersInv`:
  every tracker accounts for a call from before it is sent until it ended (`Accounted`), and
  an error without uncertainty, handed up or recorded, comes from some closed layer that
  cleared all calls: they were refused, or rejected, or will be refused when they try to
  register (`Cleared`). The refusal of a call that was sent again is no evidence, so these calls
  (`Misjudged`) are the exception in `ClearedMeansUntouched`. `ToldInv` is about who is told of an uncertain outcome, layer by layer.
* `ViewsInUseStay`, `ViewsStayGone`, `ChangesBuildOnLatest` and `ViewsTypeOK`
  (`DashboardViews_proofs`). `ViewInv`: a request that is about to write holds what is stored
  as long as the revision is the one it read; its view exists; and the expiry is that of the
  last use, unless the memory store was full.
* `ConsentComesFirst` and `ShownIsRun` (`ToolCalls_proofs`), for every table of tools and
  every consent table, under the assumptions `EveryToolHasAPolicy` and `PreviewsAreShared`
  that TLC evaluates on the real ones. `NothingBeforeConsent` is not inductive: `ConsentInv`
  says that a gated call that is in its body, or waits for its settlement, has an agreement
  on file. For `RunsAsShown` it also says *which* agreement: one to the arguments in hand and
  to the world their preview was rendered from; and a body whose preview read the account
  does not read it again.
* `OnlyAskedIfAnswerable` (same module): the invariant behind it is that only a tool that can
  run as a task ever is one, so that the middleware's refusal covers every client without
  elicitation. `ToolsTypeOK`, under `BodiesAreFinite`, includes that no record of the gate is
  left executing when its request is over.
* `HarmComesAfterConsent`, `HintsAreKept` and `OneIntentionAddsOnce` (same module), for any
  number of requests, failures and retries. What they need of the tables is stated as
  `HarmFiresTriggers` and `HintedRepeatsSafely`, and TLC evaluates both on the real ones: every
  run of a tool that reaches an irreversible method fires a trigger of `CONSENT_TABLE`, and a
  tool hinted idempotent makes no call that may not be repeated (but for the two text
  replacers of section 7). `IntentInv` ties what was executed to a run of a tool, `HintedInv`
  says that such a tool leaves nothing in the tracker. `AddInv` is the argument for
  duplicates: what was added was added by the request in hand, once, and its tracker knows;
  or the intention is used up: the client has been told so and no record is left that it
  could claim. Two more facts make it inductive: a record is never open while a body runs
  (`RecordsInv`), and only a call with a budget is ever resent (`TryInv`).
* `PrincipalLimitIsKept` (`ProcessAdmission_proofs`). Two state objects of one principal would
  be two semaphores. `SlotInv`: whoever waits for or holds a slot looked it up in the object
  that is still in the table, because an object in use is not evicted.
* `DrainIsClean` (same module). `DrainInv`: until the process stops, the counter the drain loop
  reads is the number of running bodies, through failures, cancellations and late starts.
* `LocalRateIsLimited` (same module). `RateInv`: every window by itself is within the limit, and
  few windows of a principal can hold a request of the last minute. An eviction by age takes
  only a window that no recent call used or queued for (`SeenIsLast`), every other eviction is
  counted in `forRoom`; the requests then inject into the pairs of a live window and a place
  in it.
* `DeletedUploadsStayDeleted` (`Uploads_proofs`), on every backend and without a hypothesis:
  `DeletionInv` says that what a caller was told is gone is `Past`: the call that stored it can
  no longer make it ready, and it is not readable. A delete, a cleanup or a rotation may act on
  a record read long ago; `CallersKnow` keeps what it still knows of it.
* `StoredUploadsCanBeRead`, `UploadsFitTheQuota` and `BytesStayAccountedFor` (same module), for
  any number of calls and uploads, assuming `~MayStall`: a storing call ends within the life of
  its staged records (`StagedFor`). The code does not enforce that; with `MayStall = TRUE` TLC
  violates all three. `UploadInv` follows an upload through the two stores: reserved before its
  bytes are put, bytes there before it is ready (`Written`), and those who clean up know that
  what they drop is past and bare (`CleanersKnow`); on disk the rows that a cleanup has still to
  drop have lost their files (`RowsLinger`). For the quota, a
  record that is stale at one time is stale at every later one, so a call that judges by an
  older time counts more, and what it reserves is already counted when it becomes ready.

Only model-checked: all liveness, that is `EveryRequestEnds`, `LapsedClaimIsResolved` and the
three `EveryCallEnds` (the prover has no rule for fairness and ENABLED here). No recursive operator is used; what
a recursive definition computes for all inputs would be out of the prover's reach.

## 7. Where the code and its documents differ

* **A resent chat message may be posted twice** (`tools_retry`,
  `common/repeat_safety.py:521`). A message under a generated key may be resent within one
  call. If the first attempt was executed and its answer lost, and the resent request is
  answered by a 4xx, `_definitive_rejection` judges the call by that last answer: the tracker
  records "rejected", the client gets a plain error, and its next call carries a new key.
  The run is about the plain call. A commit of such a message is handed back for another
  commit when the refusal has one of the codes of `approvals.py:39-50` (`rate_limited`, say;
  `operations.py:954-958`), and a confirmation of it is recorded, and reported, as failed
  (`operations.py:917-920`): `ActsAtMostOnce`, `ClaimableMeansUntouched` and
  `FailedMeansNothingHappened` of `OperationStore` and `ClearedMeansUntouched` of
  `CommitLayers` name exactly these cases as exceptions.

Observations that no run is about:

* A task can be executed twice (`common/execution.py:175`: "at most once"). `release` keeps
  the record's original expiry. When it runs out, the next delivery creates the record anew at
  revision 1, and a delivery that had read the first incarnation, also at revision 1, still
  passes its compare-and-set. And an executing record that outlives its lease and retention
  (a day by default) is dropped while its claimant may still run. Both take three deliveries,
  or a retention that the clock passes; `store_task` reaches both, and `ActsAtMostOnce` holds
  there only because it leaves out what follows (`dropped`).
* The lease set lives as long as its newest lease (`common/admission.py:80`). A standard
  call's lease shortens the TTL of the set below an expensive call's lease; Redis drops that
  lease while its call runs, and the principal can exceed its limit. `fleet` has such calls;
  `FleetLimitHolds` leaves them out (`CutShort`).
* Credential replacement is not serialized with refresh (`auth/token_store.py:292`). The
  callback stores new credentials without the lock; a refresh of the old ones then overwrites
  them, or deletes them when it fails. `disconnect_google_account` deletes without the lock
  as well; a refresh under way saves the credentials again. Both are steps of `Credentials`.
* When the tool nested in a commit claimed a confirmation of its own and a call stays
  uncertain, `record_uncertain_outcome` leaves the commit's own record executing until its
  lease lapses; `ClaimsSettledUnlessToldAlready` states the exact exception.
* `execution_slot` takes the lease before it waits for the expensive slot, a wait without a
  bound (`common/admission.py:414`): the lease of a call that queued longer than the grace
  lapses while it runs. `fleet` has such calls too, and `FleetLimitHolds` leaves them out
  (`WaitTooLong`). The grace must also exceed twice the skew of the replicas' clocks.
* A refresh may take longer than the Redis lock that serializes it (`auth/token_store.py:506`:
  60 seconds; google-auth allows an attempt 120 seconds, and repeats it). A second replica then refreshes as well,
  and the late save or clean-up of the first overwrites or deletes its result
  (`overrun` in `Credentials`).
* A store on disk that is over its quota, or fails, rolls back the deletion of expired rows
  whose files are gone already (`file_uploads.py:269`). The rows are expired, so nobody is
  offered them, and the next cleanup drops them.
* With `GLOBAL_CONCURRENCY=1` or `PRINCIPAL_CONCURRENCY=1` a commit holds what its nested
  call queues for: every such commit is refused or times out.
* A commit runs under the standard deadline, which cuts an expensive nested tool short.
* A table of principals that is full forgets the window of one of them: its rate starts
  anew, which `LocalRateHolds` counts in `forRoom`.
* A call that waits for a slot when the drain loop has counted to zero may still wake up
  and start before the process ends; `DrainedMeansFinished` is about the moment of that count.
  With uvicorn in front, open requests have been waited for before the lifespan ends.
* A commit by a client that cannot be asked compares the arguments, not the preview: what the
  preview read may have changed since `prepare_workspace_action`. `RunsAsShown` is therefore
  about clients that can be asked.
* `gmail_send_draft` sends whatever the draft holds at that moment; Gmail has no conditional
  send. `RunsAsShown` leaves its content out.
* `docs_replace_document_text` and `slides_replace_text_in_presentation` are hinted
  idempotent, while their `batchUpdate` counts as non-idempotent: such a tool can answer
  "unknown", and a second call is not harmless when the new text contains the old.
* `get_mcp_apps_diagnostics` is published as reading, and stores and deletes an upload of its
  own when asked for a self test.
* `tasks_update_task` is hinted idempotent, but after a move to another list that was executed
  and reported lost, the repeated call looks for the task in the old list and gets a 404.
* `calendar_respond_to_event` and `calendar_set_event_attachments` write back lists they read,
  without an etag: a change in between is lost. The slot check of `calendar_create_event` is
  not atomic with the insert, and a keyed repetition that finds its own event busy is stopped
  by the read of that id before the check, except when that read comes too early.
* `apps_set_state` without a time zone reads the zone it keeps before its update loop; a
  change of zone in between is put back, although the update itself is atomic.
* A raw 429 from Google makes a confirmation's record "failed" while the commit around it
  counts the same error as not attempted and releases its token.

## 8. What is not modelled

* The sealing of continuations, key rotation and the wording of previews: a digest stands for
  arguments and preview, compared by version.
* Building requests, shaping answers, validation of arguments, local file handling and
  progress reports of the tools: a body is its sequence of Google calls.
* In `OperationStore`, the eviction of a record by a full memory store.
* Scopes, the local browser flow, the file-backed token store and the limit of outstanding
  states in `Credentials`.
* The circuit breaker: it only makes a call fail early, which `ToolCalls` has as an outcome.
  Its counter lets every waiting call pass when it half-opens.
* Identity, tool tiers, encryption, tracing, schemas, presentation and the user interfaces: no
  protocol state of their own.

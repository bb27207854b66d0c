---------------------------- MODULE DashboardViews ----------------------------
(***************************************************************************)
(* One dashboard view and the requests that read and change it             *)
(* (apps/state.py and the state tools of apps/tools.py).  The view is one  *)
(* record of the app-state store; every change is a read, a function of    *)
(* what was read, and a compare-and-set, again while another one was       *)
(* faster.  Every read and every write extends the view's idle expiry.     *)
(*                                                                         *)
(* Abstracted: of the state, the anchor date (as the number of ranges from *)
(* today) and the time zone; handles, which nobody else can name, and      *)
(* owners, whose digest is part of the key.                                *)
(***************************************************************************)
EXTENDS RevisionedStore

CONSTANTS
    Request,
    TTL,          \* view_ttl_seconds_from_environment()
    MaxAttempts,  \* _MAX_UNCONDITIONAL_ATTEMPTS
    MaxTime       \* bound on time

ASSUME ViewConstants == TTL \in Nat \ {0} /\ MaxAttempts \in Nat \ {0} /\ MaxTime \in Nat

VARIABLES
    slot,     \* the view's record
    now,
    req,      \* the requests
    touched,  \* when the view was last read or written
    evicted   \* the memory store was full, and this view closest to its expiry

vars == <<slot, now, req, touched, evicted>>

Changes == {"next_range", "prev_range", "today", "patch_state", "set_state"}
Zones == {"home", "away"}
Views == [anchor : Int, timezone : Zones]

\* The function a change applies; set_state brings the whole state, with the
\* time zone it read before.
Mutate(op, view, zone) ==
    CASE op = "next_range" -> [view EXCEPT !.anchor = @ + 1]
      [] op = "prev_range" -> [view EXCEPT !.anchor = @ - 1]
      [] op = "today" -> [view EXCEPT !.anchor = 0]
      [] op = "patch_state" -> [view EXCEPT !.timezone = "away"]
      [] op = "set_state" -> [anchor |-> 0, timezone |-> zone]

NoView == [anchor |-> 0, timezone |-> "home"]
Idle == [pc |-> "new", op |-> "get_state", expected |-> 0, rev |-> 0, view |-> NoView,
         zone |-> "none", tries |-> 0, reply |-> "none"]

Init ==
    /\ slot = [rev |-> 0, val |-> NoView, exp |-> 0]
    /\ now = 0
    /\ req = [r \in Request |-> Idle]
    /\ touched = 0
    /\ evicted = FALSE

\* get_dashboard without a handle: create.
Open ==
    /\ slot.rev = 0
    /\ slot' = Created(NoView, TTL, now)
    /\ touched' = now
    /\ UNCHANGED <<now, req, evicted>>

\* A handle is known once the view is open, the revision it is at is the
\* one that the client expects, if it expects one.
Begin(r) ==
    /\ slot.rev > 0
    /\ req[r].pc = "new"
    /\ \E op \in Changes \cup {"get_state"}, expected \in {0, slot.rev} :
          /\ op = "get_state" => expected = 0
          /\ req' = [req EXCEPT ![r] = [Idle EXCEPT !.op = op, !.expected = expected,
                                        !.pc = IF op = "set_state" THEN "resolve" ELSE "load"]]
    /\ UNCHANGED <<slot, now, touched, evicted>>

\* Mutant of Refreshed: reading a view does not extend it.
RefreshedNever(s) == s
Refreshed(s) == [s EXCEPT !.exp = now + TTL]

Answer(r, what) == req' = [req EXCEPT ![r] = [Idle EXCEPT !.pc = "done", !.reply = what]]

Missing(r) ==
    /\ ~Live(slot, now)
    /\ Answer(r, "unknown_or_expired")
    /\ UNCHANGED <<slot, now, touched, evicted>>

Read ==
    /\ Live(slot, now)
    /\ slot' = Refreshed(slot)
    /\ touched' = now
    /\ UNCHANGED <<now, evicted>>

\* set_state first resolves the view for the time zone it keeps.
Resolve(r) ==
    /\ req[r].pc = "resolve"
    /\ \/ Missing(r)
       \/ Read /\ req' = [req EXCEPT ![r].pc = "load", ![r].zone = slot.val.timezone]

Exhausted(r) == req[r].tries = MaxAttempts

Stale(r) == req[r].expected # 0 /\ slot.rev # req[r].expected

\* Mutant of Load: a record is served, and extended, after its expiry.
LoadExpired(r) ==
    /\ req[r].pc = "load"
    /\ slot' = Refreshed(slot)
    /\ touched' = now
    /\ Answer(r, "ok")
    /\ UNCHANGED <<now, evicted>>

\* _load; a change goes on from what it read, if it may.
Load(r) ==
    /\ req[r].pc = "load"
    /\ \/ Missing(r)
       \/ /\ Read
          /\ \/ req[r].op = "get_state" /\ Answer(r, "ok")
             \/ req[r].op # "get_state" /\ (Exhausted(r) \/ Stale(r)) /\ Answer(r, "conflict")
             \/ /\ req[r].op # "get_state"
                /\ ~Exhausted(r)
                /\ ~Stale(r)
                /\ req' = [req EXCEPT ![r].pc = "commit", ![r].rev = slot.rev, ![r].view = slot.val]

Written(r) == Mutate(req[r].op, req[r].view, req[r].zone)

Retry(r) == [req EXCEPT ![r].pc = "load", ![r].tries = @ + 1]

\* compare_and_set.
Commit(r) ==
    LET status == CasStatus(slot, req[r].rev, now)
    IN  /\ req[r].pc = "commit"
        /\ \/ status = "ok" /\ slot' = Replaced(slot, Written(r), TTL, now) /\ touched' = now
                /\ Answer(r, "ok")
           \/ status = "missing" /\ Answer(r, "unknown_or_expired") /\ UNCHANGED <<slot, touched>>
           \/ status = "conflict" /\ req[r].expected # 0 /\ Answer(r, "conflict")
                /\ UNCHANGED <<slot, touched>>
           \/ status = "conflict" /\ req[r].expected = 0 /\ req' = Retry(r) /\ UNCHANGED <<slot, touched>>
        /\ UNCHANGED <<now, evicted>>

\* _prune_locked: the memory store drops the records closest to their expiry.
Evict ==
    /\ Live(slot, now)
    /\ slot' = [slot EXCEPT !.exp = now]
    /\ evicted' = TRUE
    /\ UNCHANGED <<now, req, touched>>

Tick ==
    /\ now < MaxTime
    /\ now' = now + 1
    /\ UNCHANGED <<slot, req, touched, evicted>>

Work(r) == Resolve(r) \/ Load(r) \/ Commit(r)

Next == Open \/ Evict \/ Tick \/ \E r \in Request : Begin(r) \/ Work(r)

Spec == Init /\ [][Next]_vars

------------------------------------------------------------------------------
\* With the bound on the tries: contention ends in an answer; and a view
\* always has a time zone.
TypeOK ==
    /\ slot \in [rev : Nat, val : Views, exp : Nat]
    /\ now \in Nat
    /\ req \in [Request -> [pc : {"new", "resolve", "load", "commit", "done"},
                            op : Changes \cup {"get_state"},
                            expected : Nat, rev : Nat, view : Views, zone : Zones \cup {"none"},
                            tries : 0 .. MaxAttempts,
                            reply : {"none", "ok", "conflict", "unknown_or_expired"}]]
    /\ touched \in Nat
    /\ evicted \in BOOLEAN

Writes(r) == req[r].pc = "commit" /\ req'[r].reply = "ok"

\* "A caller that omits it has its change applied atomically on top of the
\* latest state": a write changes what is stored at that moment, never what
\* was there when the request read it.  set_state, whose replacement holds
\* the time zone of an earlier read, is left to the README.
BuildsOnLatest ==
    [][\A r \in Request : Writes(r) /\ req[r].op # "set_state" =>
          slot'.val = Mutate(req[r].op, slot.val, req[r].zone)]_vars

\* A view that expired or was dropped never comes back, whoever still holds
\* a read of it.
StaysGone == [][slot.rev > 0 /\ ~Live(slot, now) => ~Live(slot, now)']_vars

\* A view in use does not expire: only one that was neither read nor written
\* for its whole TTL, or that the full memory store dropped, is gone.
UseKeepsAlive == slot.rev > 0 /\ ~Live(slot, now) => evicted \/ now >= touched + TTL
=============================================================================

--------------------------- MODULE ProcessAdmission ---------------------------
(***************************************************************************)
(* Admission and draining inside one process (common/admission.py without  *)
(* a shared backend, on_call_tool and production_lifespan in               *)
(* common/production.py, task_execution_scope in common/execution.py).     *)
(*                                                                         *)
(* Each principal has a state object: the window of its request rate and   *)
(* the semaphore of its executions.  The table of these objects is         *)
(* bounded, so idle ones are evicted, and a principal that comes back gets *)
(* fresh ones; calls keep the object they looked up.  A call passes the    *)
(* window, then queues for a slot of the process, of its principal, and,   *)
(* if it is expensive, of the expensive calls, and is only then counted    *)
(* as active.  The drain loop looks at that count.                         *)
(*                                                                         *)
(* The event loop switches only at an await: each action is the code       *)
(* between two of them.  Locks and semaphores are anyio's: first come,     *)
(* first served, and a released slot goes to the first in line.            *)
(***************************************************************************)
EXTENDS Integers, Sequences, FiniteSets, SequencesExt

CONSTANTS
    Call, User,
    UserOf,           \* the principal of a call
    Expensive,        \* calls with tool_cost "expensive"
    Task,             \* executions of the in-process task worker
    GlobalLimit, PrincipalLimit, ExpensiveLimit,
    RateLimit,        \* requests per Window
    Window,           \* a minute: the rate window, and how often the table is swept
    StateLimit,       \* principal_state_limit
    StateTTL,         \* principal_state_ttl
    Grace,            \* shutdown_grace_seconds
    MaxTime           \* bound: the clock

ASSUME CallsWellFormed ==
    /\ UserOf \in [Call -> User]
    /\ Expensive \subseteq Call
    /\ Task \subseteq Call

\* Only so many calls come in while the process lives.
ASSUME CallsFinite == IsFiniteSet(Call)

\* _integer_env: limits are at least 1, and a state lives at least a minute.
ASSUME LimitsPositive ==
    /\ {GlobalLimit, PrincipalLimit, ExpensiveLimit, RateLimit, Window, StateLimit} \subseteq Nat \ {0}
    /\ {StateTTL, Grace, MaxTime} \subseteq Nat
    /\ StateTTL >= Window

VARIABLES
    now,       \* time.monotonic()
    pc,        \* where each call is
    waiting,   \* the calls that wait for a lock or a semaphore, first come first
    stamp,     \* when a call asked for its rate
    slot,      \* which state object of its principal a call looked up
    entry,     \* _principal_states: the object in the table, 0 for none
    seen,      \* last_seen of that object
    windows,   \* per object a principal ever had: the calls whose timestamps are in its deque
    swept,     \* _last_state_eviction
    forRoom,   \* how many objects a principal lost because the table was full
    active,    \* active_requests + active_tasks
    phase,     \* of the process
    stopAt     \* when the drain loop gives up

vars == <<now, pc, waiting, stamp, slot, entry, seen, windows, swept, forRoom, active, phase, stopAt>>
table == <<entry, seen, windows, swept, forRoom>>
process == <<phase, stopAt>>

PC == {"idle", "charge", "global", "principal", "expensive", "ready", "run", "refused", "done", "cut"}
Over == {"refused", "done", "cut"}

Init ==
    /\ now = 0
    /\ pc = [c \in Call |-> "idle"]
    /\ waiting = <<>>
    /\ stamp = [c \in Call |-> 0]
    /\ slot = [c \in Call |-> 0]
    /\ entry = [u \in User |-> 0]
    /\ seen = [u \in User |-> 0]
    /\ windows = [u \in User |-> <<>>]
    /\ swept = 0
    /\ forRoom = [u \in User |-> 0]
    /\ active = 0
    /\ phase = "serving"
    /\ stopAt = 0

Tick ==
    /\ now < MaxTime
    /\ now' = now + 1
    /\ UNCHANGED <<pc, waiting, stamp, slot, table, active, process>>

-----------------------------------------------------------------------------
\* The calls that hold a slot of the semaphore of u's object g, or wait for one.
Users(u, g) == {c \in Call : UserOf[c] = u /\ slot[c] = g
                             /\ pc[c] \in {"principal", "expensive", "ready", "run"}}

\* Mutant of Unused: only the waiters are looked at, not the value.
UnusedNoWaiters(u) == \A c \in Users(u, entry[u]) : pc[c] # "principal"

\* All slots free and nobody waiting.
Unused(u) == Users(u, entry[u]) = {}

Known == {u \in User : entry[u] # 0}

\* Mutant of Stale: off by one.
StaleSoon(u) == now - seen[u] >= StateTTL - 1

Stale(u) == now - seen[u] >= StateTTL

(***************************************************************************)
(* _evict_principal_states: of the other principals' unused objects, the   *)
(* oldest go: as many as are stale, and more if the table is too full.     *)
(***************************************************************************)
MayGo(u) == {v \in Known \ {u} : Unused(v)}

Excess(u) == Cardinality(Known \cup {u}) - StateLimit

ToGo(u) == LET stale == Cardinality({v \in MayGo(u) : Stale(v)})
               wanted == IF Excess(u) > stale THEN Excess(u) ELSE stale
           IN  IF wanted > Cardinality(MayGo(u)) THEN Cardinality(MayGo(u)) ELSE wanted

Evicted(u) ==
    IF Excess(u) > 0 \/ now - swept >= Window
    THEN {gone \in SUBSET MayGo(u) : /\ Cardinality(gone) = ToGo(u)
                                     /\ \A v \in gone, w \in MayGo(u) \ gone : seen[v] <= seen[w]}
    ELSE {{}}

\* admission_state: c finds its principal's object, or a fresh one, and may
\* sweep the table.
LookUp(c) ==
    LET u == UserOf[c]
        g == IF entry[u] = 0 THEN Len(windows[u]) + 1 ELSE entry[u]
    IN  \E gone \in Evicted(u) :
            /\ entry' = [v \in User |-> IF v = u THEN g ELSE IF v \in gone THEN 0 ELSE entry[v]]
            /\ seen' = [seen EXCEPT ![u] = now]
            /\ windows' = [windows EXCEPT ![u] = IF entry[u] = 0 THEN Append(@, {}) ELSE @]
            /\ swept' = IF Excess(u) > 0 \/ now - swept >= Window THEN now ELSE swept
            /\ forRoom' = [v \in User |-> IF v \in gone /\ ~Stale(v) THEN forRoom[v] + 1 ELSE forRoom[v]]
            /\ slot' = [slot EXCEPT ![c] = g]

\* Mutant of First: the locks and semaphores have one line together.
FirstInOneLine(c, others) == Head(waiting) = c

\* c is the first of those that wait for what it waits for.
First(c, others) ==
    \A i, j \in DOMAIN waiting : waiting[j] = c /\ waiting[i] \in others => j <= i

Moves(c, to) ==
    /\ pc' = [pc EXCEPT ![c] = to]
    /\ waiting' = IF to \in {"charge", "global", "principal", "expensive"}
                  THEN Append(Remove(waiting, c), c) ELSE Remove(waiting, c)

-----------------------------------------------------------------------------
(***************************************************************************)
(* A request comes in, to on_call_tool: a caller that is not revoked looks *)
(* up its window, takes the time, and waits for the lock of the window.    *)
(* A task execution, whose rate was charged at submission, goes straight   *)
(* to the slots, and does not look at the draining flag.                   *)
(***************************************************************************)
Request(c) ==
    /\ c \notin Task /\ pc[c] = "idle" /\ phase # "stopped"
    /\ LookUp(c)
    /\ stamp' = [stamp EXCEPT ![c] = now]
    /\ Moves(c, "charge")
    /\ UNCHANGED <<now, active, process>>

RunTask(c) ==
    /\ c \in Task /\ pc[c] = "idle" /\ phase = "serving"
    /\ Moves(c, "global")
    /\ UNCHANGED <<now, stamp, slot, table, active, process>>

InWindow(c) == {d \in Call : pc[d] = "charge" /\ UserOf[d] = UserOf[c] /\ slot[d] = slot[c]}

\* _Window.consume with the lock held.  What it counts is kept even if the
\* draining flag, looked at next, then turns the request away.
Charge(c) ==
    LET u == UserOf[c]
        kept == {d \in windows[u][slot[c]] : stamp[d] > stamp[c] - Window}
        full == Cardinality(kept) >= RateLimit
    IN  /\ pc[c] = "charge" /\ First(c, InWindow(c))
        /\ windows' = [windows EXCEPT ![u][slot[c]] = IF full THEN kept ELSE kept \cup {c}]
        /\ Moves(c, IF full THEN "refused" ELSE IF phase # "serving" THEN "done" ELSE "global")
        /\ UNCHANGED <<now, stamp, slot, entry, seen, swept, forRoom, active, process>>

(***************************************************************************)
(* execution_slot: the three semaphores, one after the other.              *)
(***************************************************************************)
InProcess == {c \in Call : pc[c] \in {"principal", "expensive", "ready", "run"}}
InPrincipal(c) == {d \in Users(UserOf[c], slot[c]) : pc[d] # "principal"}
InExpensive == {c \in Expensive : pc[c] \in {"ready", "run"}}

TakeGlobal(c) ==
    /\ pc[c] = "global" /\ First(c, {d \in Call : pc[d] = "global"})
    /\ Cardinality(InProcess) < GlobalLimit
    /\ LookUp(c)
    /\ Moves(c, "principal")
    /\ UNCHANGED <<now, stamp, active, process>>

TakePrincipal(c) ==
    /\ pc[c] = "principal" /\ First(c, {d \in Users(UserOf[c], slot[c]) : pc[d] = "principal"})
    /\ Cardinality(InPrincipal(c)) < PrincipalLimit
    /\ Moves(c, IF c \in Expensive THEN "expensive" ELSE "ready")
    /\ UNCHANGED <<now, stamp, slot, table, active, process>>

TakeExpensive(c) ==
    /\ pc[c] = "expensive" /\ First(c, {d \in Call : pc[d] = "expensive"})
    /\ Cardinality(InExpensive) < ExpensiveLimit
    /\ Moves(c, "ready")
    /\ UNCHANGED <<now, stamp, slot, table, active, process>>

\* Mutant of Start: the executions of tasks are not counted.
StartUncounted(c) ==
    /\ pc[c] = "ready"
    /\ active' = active + IF c \in Task THEN 0 ELSE 1
    /\ Moves(c, "run")
    /\ UNCHANGED <<now, stamp, slot, table, process>>

\* The call wakes up with all its slots, is counted, and its body starts.
Start(c) ==
    /\ pc[c] = "ready"
    /\ active' = active + 1
    /\ Moves(c, "run")
    /\ UNCHANGED <<now, stamp, slot, table, process>>

\* The body returned or failed, or its deadline or its caller cancelled it: the
\* count and then all slots are given back, with no await in between.
End(c) ==
    /\ pc[c] = "run"
    /\ active' = active - 1
    /\ Moves(c, "done")
    /\ UNCHANGED <<now, stamp, slot, table, process>>

\* Its caller goes away while a call waits.
Cancel(c) ==
    /\ pc[c] \in {"charge", "global", "principal", "expensive", "ready"}
    /\ Moves(c, IF pc[c] = "charge" THEN "refused" ELSE "done")
    /\ UNCHANGED <<now, stamp, slot, table, active, process>>

(***************************************************************************)
(* production_lifespan: the server leaves its lifespan.  In the desktop    *)
(* bundle it stops at once.                                                *)
(***************************************************************************)
BeginDrain ==
    /\ phase = "serving"
    /\ phase' = "draining"
    /\ stopAt' \in {now, now + Grace}
    /\ UNCHANGED <<now, pc, waiting, stamp, slot, table, active>>

Stop ==
    /\ phase = "draining"
    /\ active = 0 \/ now >= stopAt
    /\ phase' = "stopped"
    /\ pc' = [c \in Call |-> IF pc[c] \in Over \cup {"idle"} THEN pc[c] ELSE "cut"]
    /\ waiting' = <<>>
    /\ UNCHANGED <<now, stamp, slot, table, active, stopAt>>

Step(c) ==
    \/ Request(c) \/ RunTask(c) \/ Charge(c) \/ TakeGlobal(c) \/ TakePrincipal(c)
    \/ TakeExpensive(c) \/ Start(c) \/ End(c) \/ Cancel(c)

Next == Tick \/ BeginDrain \/ Stop \/ (\E c \in Call : Step(c))

Spec == Init /\ [][Next]_vars
-----------------------------------------------------------------------------

Executing(u) == {c \in Call : UserOf[c] = u /\ pc[c] \in {"ready", "run"}}

\* MCP_PRINCIPAL_CONCURRENCY holds also when the principal's state object is
\* evicted and made again: no call is ever left on the semaphore of an object
\* that is no longer in the table while another call takes a slot of a new one.
PrincipalLimitHolds == \A u \in User : Cardinality(Executing(u)) <= PrincipalLimit

\* The requests of a principal that were charged in the last minute, while the
\* process lives.
Recent(u) == {c \in Call \ Task : /\ UserOf[c] = u /\ stamp[c] > now - Window
                                  /\ pc[c] \notin {"idle", "charge", "refused", "cut"}}

\* MCP_RATE_LIMIT_PER_MINUTE holds also when the table forgets a principal:
\* only an eviction that makes room for others buys it a fresh window, never
\* one by age, also if a request was waiting for the old window's lock.
LocalRateHolds == \A u \in User : Cardinality(Recent(u)) <= RateLimit * (1 + forRoom[u])

\* A drain that ends before its grace is over leaves no body running, neither
\* a request's nor a task's, whatever failed or was cancelled before.
DrainedMeansFinished ==
    [][phase' = "stopped" /\ phase # "stopped" /\ now < stopAt => \A c \in Call : pc[c] # "run"]_vars

(***************************************************************************)
(* Liveness.  The event loop serves every call that can go on, bodies end  *)
(* (each has a deadline), time passes and the drain loop keeps looking.    *)
(***************************************************************************)
Fairness ==
    /\ WF_vars(Tick) /\ WF_vars(Stop)
    /\ \A c \in Call :
          /\ WF_vars(Charge(c)) /\ WF_vars(TakeGlobal(c)) /\ WF_vars(TakePrincipal(c))
          /\ WF_vars(TakeExpensive(c)) /\ WF_vars(Start(c)) /\ WF_vars(End(c))

FairSpec == Spec /\ Fairness

\* Every call that came in ends: it is turned away, answered, or cut off by the
\* end of the process.  A cancelled call does not hold up those behind it.
EveryCallEnds == \A c \in Call : pc[c] # "idle" ~> pc[c] \in Over
=============================================================================

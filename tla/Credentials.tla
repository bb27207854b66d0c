----------------------------- MODULE Credentials -----------------------------
(***************************************************************************)
(* The stored Google credentials of one principal in a fleet, and the      *)
(* threads that use, refresh, replace, invalidate and delete them          *)
(* (auth/google_auth.py, auth/google_oauth.py, RedisEncryptedTokenStore).  *)
(*                                                                         *)
(* A tool call loads the credentials under two locks, one of its process   *)
(* and one in Redis, and refreshes them if the access token expired.  A    *)
(* call that Google answers with 401 deletes the generation it used.  An   *)
(* OAuth callback and disconnect_google_workspace write without a lock.    *)
(*                                                                         *)
(* Abstracted: a stored generation is named after the thread that wrote    *)
(* it, so its fingerprint is its name; an access token that expired is a   *)
(* choice of the loading thread; scopes that are missing end a call like   *)
(* credentials that are missing.  Only the remote mode is modelled, and    *)
(* not the limit of ten outstanding states.                                *)
(***************************************************************************)
CONSTANTS
    Thread,       \* tool calls, callbacks and disconnects
    Replica,      \* server processes
    Home,         \* the process of each thread
    First,        \* the generation stored at the beginning
    State,        \* one-time OAuth states
    Slow,         \* threads whose refresh may outlast the Redis lock
    Nobody        \* null of threads, generations and states

ASSUME HomeIsReplica == Home \in [Thread -> Replica]
ASSUME NamesDistinct == /\ First \notin Thread
                        /\ Nobody \notin Thread \cup State \cup {First}

ASSUME SlowAreThreads == Slow \subseteq Thread

VARIABLES
    stored,   \* the stored generation
    grant,    \* the authorization (refresh token) a generation carries, by its name
    revoked,  \* authorizations Google no longer accepts
    pc,       \* where each thread is
    held,     \* the generation each thread loaded
    local,    \* holder of each process's _credential_lock
    lock,     \* holder of the Redis lock
    touched,  \* connections whose watched key was written since their WATCH
    overrun,  \* history: threads whose Redis lock lapsed while they worked under it
    issued,   \* OAuth states handed out
    open,     \* OAuth states that can be consumed
    taken     \* the OAuth state each callback consumed

vars == <<stored, grant, revoked, pc, held, local, lock, touched, overrun,
          issued, open, taken>>
lockVars == <<local, lock, overrun>>
stateVars == <<issued, open, taken>>

Gen == Thread \cup {First}
Ended == {"done", "crashed"}
Working == {"load", "refresh", "save", "drop"}
Inside == {"remote", "leave", "fail"} \cup Working
PC == {"idle", "local", "call", "watch", "compare", "delete", "consume", "previous", "exchange", "replace",
       "find", "revoke", "erase"} \cup Inside \cup Ended

Init ==
    /\ stored \in {First, Nobody}
    /\ grant = [g \in Gen |-> g]
    /\ revoked = {}
    /\ pc = [t \in Thread |-> "idle"]
    /\ held = [t \in Thread |-> Nobody]
    /\ local = [p \in Replica |-> Nobody]
    /\ lock = Nobody
    /\ touched = {}
    /\ overrun = {}
    /\ issued = {}
    /\ open = {}
    /\ taken = [t \in Thread |-> Nobody]

Goto(t, place) == pc' = [pc EXCEPT ![t] = place]

\* SET and DEL on the credentials' key: Redis marks whoever else watches it,
\* unless a DEL finds nothing.
Write(t, g) ==
    /\ stored' = g
    /\ touched' = IF g = Nobody /\ stored = Nobody THEN touched
                  ELSE touched \cup {q \in Thread \ {t} : pc[q] \in {"compare", "delete"}}

\* A tool call, a callback or a disconnect comes in.
Arrive(t) ==
    /\ pc[t] = "idle"
    /\ \E place \in {"local", "consume", "find"} : Goto(t, place)
    /\ UNCHANGED <<stored, touched, grant, revoked, held, lockVars, stateVars>>

(***************************************************************************)
(* get_credentials: the lock of the process, then that of Redis.           *)
(***************************************************************************)
TakeLocal(t) ==
    /\ pc[t] = "local"
    /\ local[Home[t]] = Nobody
    /\ local' = [local EXCEPT ![Home[t]] = t]
    /\ Goto(t, "remote")
    /\ UNCHANGED <<stored, touched, grant, revoked, held, lock, overrun, stateVars>>

\* Mutant of TakeRemote: the Redis lock is not waited for.
TakeRemoteAnyway(t) ==
    /\ pc[t] = "remote"
    /\ lock' = t
    /\ Goto(t, "load")
    /\ UNCHANGED <<stored, touched, grant, revoked, held, local, overrun, stateVars>>

TakeRemote(t) ==
    /\ pc[t] = "remote"
    /\ \/ lock = Nobody /\ lock' = t /\ Goto(t, "load") /\ UNCHANGED local
       \/ \* blocking_timeout: TokenStoreError through the process lock's block
          /\ lock # Nobody
          /\ local' = [local EXCEPT ![Home[t]] = Nobody]
          /\ Goto(t, "done")
          /\ UNCHANGED lock
    /\ UNCHANGED <<stored, touched, grant, revoked, held, overrun, stateVars>>

\* Nothing stored, or not enough scopes: connect first.  A valid token is used
\* as it is; an expired one is refreshed.
Load(t) ==
    /\ pc[t] = "load"
    /\ held' = [held EXCEPT ![t] = stored]
    /\ \/ Goto(t, "fail")
       \/ stored # Nobody /\ Goto(t, "leave")
       \/ stored # Nobody /\ Goto(t, "refresh")
    /\ UNCHANGED <<stored, touched, grant, revoked, lockVars, stateVars>>

\* Google renews the access token of an authorization it still accepts, or
\* answers with an error (RefreshError, also for a 5xx), or cannot be reached.
Refresh(t) ==
    /\ pc[t] = "refresh"
    /\ \/ /\ grant[held[t]] \notin revoked
          /\ grant' = [grant EXCEPT ![t] = grant[held[t]]]
          /\ Goto(t, "save")
       \/ Goto(t, "drop") /\ UNCHANGED grant
       \/ Goto(t, "fail") /\ UNCHANGED grant
    /\ UNCHANGED <<stored, touched, revoked, held, lockVars, stateVars>>

Save(t) ==
    /\ pc[t] = "save"
    /\ Write(t, t)
    /\ held' = [held EXCEPT ![t] = t]
    /\ Goto(t, "leave")
    /\ UNCHANGED <<grant, revoked, lockVars, stateVars>>

\* delete_cached_token(principal): whatever is stored.
Drop(t) ==
    /\ pc[t] = "drop"
    /\ Write(t, Nobody)
    /\ Goto(t, "fail")
    /\ UNCHANGED <<grant, revoked, held, lockVars, stateVars>>

\* Mutant of Release: a call that fails leaves the process lock behind.
ReleaseForgetsLocal(t) ==
    /\ pc[t] \in {"leave", "fail"}
    /\ lock' = IF lock = t THEN Nobody ELSE lock
    /\ local' = IF pc[t] = "leave" THEN [local EXCEPT ![Home[t]] = Nobody] ELSE local
    /\ Goto(t, IF lock = t /\ pc[t] = "leave" THEN "call" ELSE "done")
    /\ UNCHANGED <<stored, touched, grant, revoked, held, overrun, stateVars>>

\* A Redis lock that is somebody else's by now is not released: the call fails.
Release(t) ==
    /\ pc[t] \in {"leave", "fail"}
    /\ lock' = IF lock = t THEN Nobody ELSE lock
    /\ local' = [local EXCEPT ![Home[t]] = Nobody]
    /\ Goto(t, IF lock = t /\ pc[t] = "leave" THEN "call" ELSE "done")
    /\ UNCHANGED <<stored, touched, grant, revoked, held, overrun, stateVars>>

(***************************************************************************)
(* The Google call, and the conditional invalidation after a 401: WATCH,   *)
(* GET and compare, and DEL in a transaction that Redis refuses, for       *)
(* another round, if the key was written since the WATCH.                  *)
(***************************************************************************)
Call(t) ==
    /\ pc[t] = "call"
    /\ \E place \in {"done", "watch"} : Goto(t, place)
    /\ UNCHANGED <<stored, touched, grant, revoked, held, lockVars, stateVars>>

Watch(t) ==
    /\ pc[t] = "watch"
    /\ Goto(t, "compare")
    /\ UNCHANGED <<stored, touched, grant, revoked, held, lockVars, stateVars>>

Compare(t) ==
    /\ pc[t] = "compare"
    /\ \/ stored = held[t] /\ Goto(t, "delete") /\ UNCHANGED touched
       \/ stored # held[t] /\ Goto(t, "done") /\ touched' = touched \ {t}
    /\ UNCHANGED <<stored, grant, revoked, held, lockVars, stateVars>>

\* Mutant of Delete: the key is deleted without a transaction.
DeleteUnwatched(t) ==
    /\ pc[t] = "delete"
    /\ Write(t, Nobody)
    /\ Goto(t, "done")
    /\ UNCHANGED <<grant, revoked, held, lockVars, stateVars>>

\* EXEC.
Delete(t) ==
    /\ pc[t] = "delete"
    /\ \/ t \notin touched /\ Write(t, Nobody) /\ Goto(t, "done")
       \/ t \in touched /\ Goto(t, "watch") /\ touched' = touched \ {t} /\ UNCHANGED stored
    /\ UNCHANGED <<grant, revoked, held, lockVars, stateVars>>

(***************************************************************************)
(* Authorization: connect_google_workspace hands out a one-time state, the *)
(* callback consumes it, exchanges the code and stores the result.         *)
(***************************************************************************)
Authorize ==
    /\ \E s \in State \ issued : issued' = issued \cup {s} /\ open' = open \cup {s}
    /\ UNCHANGED <<stored, touched, grant, revoked, pc, held, lockVars, taken>>

StateExpires ==
    /\ \E s \in open : open' = open \ {s}
    /\ UNCHANGED <<stored, touched, grant, revoked, pc, held, lockVars, issued, taken>>

\* Mutant of Consume: the state is read and left to expire.
ConsumeByReading(t) ==
    /\ pc[t] = "consume"
    /\ \/ \E s \in open : taken' = [taken EXCEPT ![t] = s] /\ Goto(t, "previous")
       \/ Goto(t, "done") /\ UNCHANGED taken
    /\ UNCHANGED <<stored, touched, grant, revoked, held, lockVars, issued, open>>

\* Consumed first, whatever the outcome; an unknown state, a refused consent or
\* a foreign issuer ends the callback.
Consume(t) ==
    /\ pc[t] = "consume"
    /\ \/ /\ \E s \in open : taken' = [taken EXCEPT ![t] = s] /\ open' = open \ {s}
          /\ \E place \in {"previous", "done"} : Goto(t, place)
       \/ Goto(t, "done") /\ UNCHANGED <<taken, open>>
    /\ UNCHANGED <<stored, touched, grant, revoked, held, lockVars, issued>>

Previous(t) ==
    /\ pc[t] = "previous"
    /\ held' = [held EXCEPT ![t] = stored]
    /\ Goto(t, "exchange")
    /\ UNCHANGED <<stored, touched, grant, revoked, lockVars, stateVars>>

\* Without a refresh token of its own the result keeps the previous one's.
Exchange(t) ==
    /\ pc[t] = "exchange"
    /\ \/ Goto(t, "replace") /\ UNCHANGED grant
       \/ /\ held[t] # Nobody
          /\ grant' = [grant EXCEPT ![t] = grant[held[t]]]
          /\ Goto(t, "replace")
       \/ Goto(t, "done") /\ UNCHANGED grant
    /\ UNCHANGED <<stored, touched, revoked, held, lockVars, stateVars>>

Replace(t) ==
    /\ pc[t] = "replace"
    /\ Write(t, t)
    /\ Goto(t, "done")
    /\ UNCHANGED <<grant, revoked, held, lockVars, stateVars>>

(***************************************************************************)
(* disconnect_google_account: load, revoke at Google if it can be reached, *)
(* delete in any case.                                                     *)
(***************************************************************************)
Find(t) ==
    /\ pc[t] = "find"
    /\ held' = [held EXCEPT ![t] = stored]
    /\ Goto(t, IF stored = Nobody THEN "erase" ELSE "revoke")
    /\ UNCHANGED <<stored, touched, grant, revoked, lockVars, stateVars>>

Revoke(t) ==
    /\ pc[t] = "revoke"
    /\ revoked' \in {revoked, revoked \cup {grant[held[t]]}}
    /\ Goto(t, "erase")
    /\ UNCHANGED <<stored, touched, grant, held, lockVars, stateVars>>

Erase(t) ==
    /\ pc[t] = "erase"
    /\ Write(t, Nobody)
    /\ Goto(t, "done")
    /\ UNCHANGED <<grant, revoked, held, lockVars, stateVars>>

(***************************************************************************)
(* A process dies with its threads and its lock; Redis frees the other one *)
(* when its timeout passed, which a live refresh may outlast: the lock     *)
(* lasts 60 s, one attempt of a refresh up to 120 s.                       *)
(***************************************************************************)
Crash(p) ==
    /\ \E t \in Thread : Home[t] = p /\ pc[t] \notin {"idle"} \cup Ended
    /\ pc' = [t \in Thread |->
                IF Home[t] = p /\ pc[t] \notin {"idle"} \cup Ended THEN "crashed" ELSE pc[t]]
    /\ local' = [local EXCEPT ![p] = Nobody]
    /\ touched' = {t \in touched : Home[t] # p}
    /\ UNCHANGED <<stored, grant, revoked, held, lock, overrun, stateVars>>

Lapse ==
    /\ lock # Nobody
    /\ pc[lock] \in Inside => lock \in Slow
    /\ lock' = Nobody
    /\ overrun' = IF pc[lock] \in Working THEN overrun \cup {lock} ELSE overrun
    /\ UNCHANGED <<stored, touched, grant, revoked, pc, held, local, stateVars>>

Progress(t) ==
    \/ TakeLocal(t) \/ TakeRemote(t) \/ Load(t) \/ Refresh(t) \/ Save(t) \/ Drop(t) \/ Release(t)
    \/ Call(t) \/ Watch(t) \/ Compare(t) \/ Delete(t)
    \/ Consume(t) \/ Previous(t) \/ Exchange(t) \/ Replace(t)
    \/ Find(t) \/ Revoke(t) \/ Erase(t)

Next ==
    \/ \E t \in Thread : Arrive(t) \/ Progress(t)
    \/ Authorize \/ StateExpires \/ Lapse
    \/ \E p \in Replica : Crash(p)

\* A live thread takes its steps (every network call has a timeout) and Redis
\* expires locks.  Nobody has to come.
Fairness == /\ \A t \in Thread : WF_vars(Progress(t))
            /\ WF_vars(Lapse)

Spec == Init /\ [][Next]_vars /\ Fairness
-----------------------------------------------------------------------------
TypeOK ==
    /\ stored \in Gen \cup {Nobody}
    /\ grant \in [Gen -> Gen]
    /\ revoked \subseteq Gen
    /\ pc \in [Thread -> PC]
    /\ held \in [Thread -> Gen \cup {Nobody}]
    /\ local \in [Replica -> Thread \cup {Nobody}]
    /\ \A p \in Replica : local[p] # Nobody => Home[local[p]] = p /\ pc[local[p]] \in Inside
    /\ lock \in Thread \cup {Nobody}
    /\ touched \subseteq Thread /\ overrun \subseteq Thread
    /\ issued \subseteq State /\ open \subseteq issued
    /\ taken \in [Thread -> State \cup {Nobody}]

\* Generations an OAuth callback stored.
Replacements == {g \in Thread : taken[g] # Nobody}

\* Of two processes that find the token expired only one refreshes it: neither
\* the save nor the clean-up after a failed refresh hits the token another
\* refresh stored meanwhile.  The lock protects those it did not lapse under,
\* and not from what a refresh that did outlast it writes late.
RefreshesKeepEachOther ==
    [][\A t \in Thread \ overrun : pc[t] \in {"save", "drop"} /\ pc'[t] \in {"leave", "fail"} =>
          stored \in {held[t], Nobody} \cup Replacements \cup overrun]_vars

\* "Preserved newer Google OAuth token": the late 401 of a call that used an
\* old generation does not delete the credentials of a newer one, however the
\* accesses of the invalidation interleave with a save: what EXEC deletes is
\* what GET compared, although nothing compares it again.
InvalidationKeepsNewer ==
    [][\A t \in Thread : pc[t] = "delete" /\ pc'[t] = "done" => stored = held[t]]_vars

\* A callback that is replayed, or delivered twice at once, does not exchange a
\* second time: a one-time state belongs to one callback.
StateServesOnce ==
    \A p, q \in Thread : p # q /\ taken[p] # Nobody => taken[p] # taken[q]

\* No lock is left behind: every call ends, also after other calls timed out,
\* failed inside the critical section, or died with the Redis lock.
EveryCallEnds == \A t \in Thread : pc[t] # "idle" ~> pc[t] \in Ended

(***************************************************************************)
(* Why refreshes keep each other's results, and the invalidation newer     *)
(* credentials.                                                            *)
(***************************************************************************)
\* Whoever works under the Redis lock holds it, unless it lapsed.
HolderInside == \A t \in Thread \ overrun : pc[t] \in Working => lock = t

\* What a refresh loaded is still there, gone, or replaced by a callback or by a
\* refresh that outlasted its lock.
LoadedIsStored ==
    \A t \in Thread \ overrun : pc[t] \in {"refresh", "save", "drop"} =>
        stored \in {held[t], Nobody} \cup Replacements \cup overrun

\* What an invalidation compared is what is stored, until somebody writes.
ComparedIsStored == \A t \in Thread : pc[t] = "delete" => t \in touched \/ stored = held[t]

\* A callback works on a state it consumed, and a consumed state is spent.
StatesAreSpent ==
    /\ \A t \in Thread : pc[t] \in {"previous", "exchange", "replace"} => taken[t] # Nobody
    /\ \A t \in Thread : taken[t] # Nobody => taken[t] \in issued \ open

SerialInv == HolderInside /\ LoadedIsStored /\ StatesAreSpent /\ StateServesOnce
=============================================================================

--------------------------- MODULE RevisionedStore ---------------------------
(***************************************************************************)
(* One key of the revisioned, expiring key-value store every durable state *)
(* of the server is kept in (common/app_state.py).  Both backends promise  *)
(* the same thing: the memory store takes a process lock around every      *)
(* operation, the Redis store runs one Lua script per operation, so each   *)
(* operator below describes one atomic step on one key.                    *)
(*                                                                         *)
(* A slot is [rev, val, exp].  rev = 0 stands for a key that was never     *)
(* written; a slot whose expiry has passed is the key after Redis (or      *)
(* _live_locked) dropped it.  Revisions restart at 1 when an expired key   *)
(* is created again.                                                       *)
(***************************************************************************)
EXTENDS Integers

\* The later of two points in time.
Later(a, b) == IF a >= b THEN a ELSE b

\* The record of a slot can be read and replaced at time t.
Live(slot, t) == slot.rev > 0 /\ slot.exp > t

\* Mutant of Created: the key outlives its record by a second.
CreatedLonger(val, ttl, t) == [rev |-> 1, val |-> val, exp |-> t + ttl + 1]

\* create: insert at revision 1; the caller checks ~Live first (None otherwise).
Created(val, ttl, t) == [rev |-> 1, val |-> val, exp |-> t + ttl]

\* Mutant of CasStatus: the revision is not compared.
CasStatusAny(slot, expected, t) == IF ~Live(slot, t) THEN "missing" ELSE "ok"

\* The three answers of compare_and_set.
CasStatus(slot, expected, t) ==
    IF ~Live(slot, t) THEN "missing"
    ELSE IF slot.rev # expected THEN "conflict"
    ELSE "ok"

\* The slot after a compare_and_set that answered ok: next revision, new expiry.
Replaced(slot, val, ttl, t) ==
    [rev |-> slot.rev + 1, val |-> val, exp |-> t + ttl]
=============================================================================

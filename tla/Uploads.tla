------------------------------- MODULE Uploads -------------------------------
(***************************************************************************)
(* Picker uploads of one principal: file_uploads.py and                     *)
(* common/s3_uploads.py.  An upload is a metadata record and its bytes, and *)
(* a deployment keeps them in one of three ways:                            *)
(*   "s3"     records in a Redis hash, bytes in a bucket, no transaction    *)
(*            over both;                                                    *)
(*   "disk"   records in SQLite, bytes in files written and unlinked while  *)
(*            a write transaction is open;                                  *)
(*   "local"  both in the memory of one process, under one lock.            *)
(* Every upload has size one.  A storing call has a batch of uploads; a     *)
(* caller lists, reads or deletes.                                          *)
(***************************************************************************)
EXTENDS Naturals, FiniteSets

CONSTANTS
    Upload,     \* handles, minted by the storing calls
    Storer,     \* calls of store()
    Batch,      \* the uploads of each storing call
    Caller,     \* calls of list(), get() and delete()
    Backends,   \* the backends a deployment may be configured with
    TTL,        \* MCP_UPLOAD_TTL_SECONDS
    Staging,    \* lifetime of a staged record, 300 s
    HashGrace,  \* how long the hash outlives its newest record, 300 s
    OrphanAge,  \* age at which a file without a row is an orphan, 600 s
    Quota,      \* MCP_UPLOAD_QUOTA_BYTES
    MayStall,   \* whether a storing call can outlive its staged records
    MaxTime,    \* the clock stops here
    None

ASSUME UploadsAssumption ==
    /\ {TTL, Staging, OrphanAge, Quota, MaxTime} \subseteq Nat
    /\ HashGrace \in Nat \ {0}
    /\ IsFiniteSet(Upload)
    /\ Backends \subseteq {"s3", "disk", "local"}
    /\ Batch \in [Storer -> SUBSET Upload]
    /\ \A s, z \in Storer : s # z => Batch[s] \cap Batch[z] = {}
    /\ Storer \cap Caller = {}
    /\ MayStall \in BOOLEAN

VARIABLES
    backend,  \* which store _scoped_store resolves to
    now,
    record,   \* the metadata of each upload, or None
    hashEnd,  \* when Redis drops the whole hash
    blob,     \* when the bytes of each upload were written, or None
    lock,     \* who has the SQLite write transaction open
    pc,
    task,     \* what each call remembers between its steps
    retired,  \* uploads of which a caller was told that they are deleted
    torn      \* uploads whose record and bytes a fault put out of step

vars == <<backend, now, record, hashEnd, blob, lock, pc, task, retired, torn>>

Thread == Storer \cup Caller
Status == {"staging", "ready", "deleting"}
Metas == [status : Status, expires : Nat]

ASSUME NoneIsNothing == None \notin Nat \cup Upload \cup Storer \cup Metas

Meta(status, expires) == [status |-> status, expires |-> expires]
Lesser(a, b) == IF a < b THEN a ELSE b

(* A staged record lives for five minutes, or for the TTL if that is less. *)
StagedFor == Lesser(TTL, Staging)

Stale(t) == {u \in Upload : record[u] # None /\ record[u].expires < t}
(* Mutant: uploads that are still staged do not count. *)
CountedReady(t) ==
    {u \in Upload : record[u] # None /\ record[u].status = "ready"} \ Stale(t)
Counted(t) == {u \in Upload : record[u] # None} \ Stale(t)
Fits(t, s) == Cardinality(Counted(t)) + Cardinality(Batch[s]) <= Quota

Blank == [at |-> 0, todo |-> {}, done |-> {}, of |-> None, item |-> None]

Init ==
    /\ backend \in Backends
    /\ now = 0
    /\ record = [u \in Upload |-> None]
    /\ hashEnd = 0
    /\ blob = [u \in Upload |-> None]
    /\ lock = None
    /\ pc = [t \in Thread |-> "idle"]
    /\ task = [t \in Thread |-> Blank]
    /\ retired = {}
    /\ torn = {}

Goto(t, where) == pc' = [pc EXCEPT ![t] = where]
(* A call that ends remembers nothing. *)
End(t, where) ==
    /\ pc' = [pc EXCEPT ![t] = where]
    /\ task' = [task EXCEPT ![t] = Blank]
Set(f, S, v) == [u \in DOMAIN f |-> IF u \in S THEN v ELSE f[u]]

(***************************************************************************)
(* Storing into Redis and S3.                                               *)
(***************************************************************************)

(* The time of a call is read before its files are decoded and scanned. *)
Prepare(s) ==
    /\ pc[s] = "idle"
    /\ task' = [task EXCEPT ![s] = [Blank EXCEPT !.at = now, !.todo = Batch[s]]]
    /\ Goto(s, "prepared")
    /\ UNCHANGED <<backend, now, record, hashEnd, blob, lock, retired, torn>>

(* A name, an encoding, a size, a type or a scanner verdict that is refused. *)
Reject(s) ==
    /\ pc[s] = "prepared"
    /\ End(s, "failed")
    /\ UNCHANGED <<backend, now, record, hashEnd, blob, lock, retired, torn>>

(* WATCH, quota check and MULTI: a conflict starts over, so they are one step. *)
Reserve(s) ==
    /\ backend = "s3" /\ pc[s] = "prepared" /\ Fits(task[s].at, s)
    /\ record' = Set(record, Batch[s],
                     Meta("staging", task[s].at + StagedFor))
    /\ hashEnd' = now + TTL + HashGrace
    /\ Goto(s, "put")
    /\ UNCHANGED <<backend, now, blob, lock, task, retired, torn>>

OverQuota(s) ==
    /\ backend = "s3" /\ pc[s] = "prepared" /\ ~Fits(task[s].at, s)
    /\ End(s, "failed")
    /\ UNCHANGED <<backend, now, record, hashEnd, blob, lock, retired, torn>>

Put(s, u) ==
    /\ pc[s] = "put" /\ u \in task[s].todo
    /\ blob' = [blob EXCEPT ![u] = now]
    /\ task' = [task EXCEPT ![s].todo = @ \ {u}, ![s].done = @ \cup {u}]
    /\ UNCHANGED <<backend, now, record, hashEnd, lock, pc, retired, torn>>

(* A failed put may have reached the bucket all the same; the compensation
   only knows of the puts that were answered. *)
PutFails(s, u) ==
    /\ pc[s] = "put" /\ u \in task[s].todo
    /\ \/ UNCHANGED <<blob, torn>>
       \/ /\ backend = "s3"
          /\ blob' = [blob EXCEPT ![u] = now]
          /\ torn' = torn \cup {u}
    /\ Goto(s, "undo")
    /\ UNCHANGED <<backend, now, record, hashEnd, lock, task, retired>>

Finalized(s) ==
    /\ record' = Set(record, Batch[s], Meta("ready", task[s].at + TTL))
    /\ hashEnd' = now + TTL + HashGrace

Finalize(s) ==
    /\ backend = "s3" /\ pc[s] = "put" /\ task[s].todo = {}
    /\ Finalized(s)
    /\ End(s, "stored")
    /\ UNCHANGED <<backend, now, blob, lock, retired, torn>>

FinalizeFails(s) ==
    /\ backend = "s3" /\ pc[s] = "put" /\ task[s].todo = {}
    /\ Finalized(s) \/ UNCHANGED <<record, hashEnd>>
    /\ Goto(s, "undo")
    /\ UNCHANGED <<backend, now, blob, lock, task, retired, torn>>

(* Best-effort compensation: every delete may fail and is then only logged. *)
Undo(s, u) ==
    /\ pc[s] = "undo" /\ u \in task[s].done
    /\ \/ blob' = [blob EXCEPT ![u] = None] /\ UNCHANGED torn
       \/ backend = "s3" /\ torn' = torn \cup {u} /\ UNCHANGED blob
    /\ task' = [task EXCEPT ![s].done = @ \ {u}]
    /\ UNCHANGED <<backend, now, record, hashEnd, lock, pc, retired>>

Forget(s) ==
    /\ pc[s] = "undo" /\ task[s].done = {}
    /\ \/ record' = Set(record, Batch[s], None)
       \/ backend = "s3" /\ UNCHANGED record
    /\ lock' = IF lock = s THEN None ELSE lock
    /\ End(s, "failed")
    /\ UNCHANGED <<backend, now, hashEnd, blob, retired, torn>>

(***************************************************************************)
(* Storing on disk and in memory.                                           *)
(***************************************************************************)

(* The files that _cleanup unlinks: those of the rows that expired, and now and
   then those that are old and have no row. *)
Sweep(t) ==
    \E orphans \in {{}, {u \in Upload : /\ backend = "disk"
                                       /\ record[u] = None /\ blob[u] # None
                                       /\ blob[u] + OrphanAge <= now}} :
        /\ blob' = Set(blob, Stale(t) \cup orphans, None)
        /\ torn' = torn \ orphans

(* A whole _cleanup, the rows that expired gone with their files. *)
Purge(t) == Sweep(t) /\ record' = Set(record, Stale(t), None)

(* The DELETE of the cleanup takes the write lock of the transaction and is
   committed with it.  The files are unlinked at once: a call that is over the
   quota, fails or crashes rolls the rows back, without their files. *)
DiskOpen(s) ==
    /\ backend = "disk" /\ pc[s] = "prepared" /\ lock = None
    /\ Sweep(task[s].at)
    /\ IF Fits(task[s].at, s)
       THEN lock' = s /\ Goto(s, "put") /\ UNCHANGED task
       ELSE UNCHANGED lock /\ End(s, "failed")
    /\ UNCHANGED <<backend, now, record, hashEnd, retired>>

DiskCommit(s) ==
    /\ backend = "disk" /\ pc[s] = "put" /\ task[s].todo = {}
    /\ lock' = None
    /\ \/ record' = Set(Set(record, Stale(task[s].at), None), Batch[s],
                         Meta("ready", task[s].at + TTL))
          /\ End(s, "stored") /\ UNCHANGED torn
       \/ End(s, "failed") /\ torn' = torn \cup Batch[s] /\ UNCHANGED record
    /\ UNCHANGED <<backend, now, hashEnd, blob, retired>>

(* One critical section; its time is read inside it. *)
LocalStore(s) ==
    /\ backend = "local" /\ pc[s] = "prepared"
    /\ IF Fits(now, s)
       THEN /\ record' = [u \in Upload |->
                            IF u \in Batch[s] THEN Meta("ready", now + TTL)
                            ELSE IF u \in Stale(now) THEN None ELSE record[u]]
            /\ blob' = [u \in Upload |->
                            IF u \in Batch[s] THEN now
                            ELSE IF u \in Stale(now) THEN None ELSE blob[u]]
            /\ End(s, "stored")
       ELSE /\ record' = Set(record, Stale(now), None)
            /\ blob' = Set(blob, Stale(now), None)
            /\ End(s, "failed")
    /\ UNCHANGED <<backend, now, hashEnd, lock, retired, torn>>

(***************************************************************************)
(* Listing.  On S3 the cleanup is a snapshot, a delete per object and one    *)
(* HDEL; the other stores do it in one transaction.                         *)
(***************************************************************************)
(* Mutant: whatever is not ready is taken for a leftover. *)
ScanStaged(c) ==
    /\ backend = "s3" /\ pc[c] = "idle"
    /\ task' = [task EXCEPT ![c] = [Blank EXCEPT
                  !.todo = Stale(now) \cup {u \in Upload : record[u] # None
                                              /\ record[u].status # "ready"}]]
    /\ Goto(c, "clean")
    /\ UNCHANGED <<backend, now, record, hashEnd, blob, lock, retired, torn>>

Scan(c) ==
    /\ backend = "s3" /\ pc[c] = "idle"
    /\ task' = [task EXCEPT ![c] = [Blank EXCEPT
                  !.todo = Stale(now) \cup {u \in Upload : record[u] # None
                                              /\ record[u].status = "deleting"}]]
    /\ Goto(c, "clean")
    /\ UNCHANGED <<backend, now, record, hashEnd, blob, lock, retired, torn>>

(* Mutant: an object that could not be deleted is forgotten with the others. *)
CleanAnyway(c, u) ==
    /\ pc[c] = "clean" /\ u \in task[c].todo
    /\ blob' = [blob EXCEPT ![u] = None] \/ UNCHANGED blob
    /\ task' = [task EXCEPT ![c].todo = @ \ {u}, ![c].done = @ \cup {u}]
    /\ UNCHANGED <<backend, now, record, hashEnd, lock, pc, retired, torn>>

Clean(c, u) ==
    /\ pc[c] = "clean" /\ u \in task[c].todo
    /\ \/ blob' = [blob EXCEPT ![u] = None]
          /\ task' = [task EXCEPT ![c].todo = @ \ {u}, ![c].done = @ \cup {u}]
          /\ UNCHANGED pc
       \/ End(c, "done") /\ UNCHANGED blob
    /\ UNCHANGED <<backend, now, record, hashEnd, lock, retired, torn>>

CleanForget(c) ==
    /\ pc[c] = "clean" /\ task[c].todo = {}
    /\ record' = Set(record, task[c].done, None)
    /\ End(c, "done")
    /\ UNCHANGED <<backend, now, hashEnd, blob, lock, retired, torn>>

ListElsewhere(c) ==
    /\ backend # "s3" /\ pc[c] = "idle" /\ lock = None
    /\ Purge(now)
    /\ End(c, "done")
    /\ UNCHANGED <<backend, now, hashEnd, lock, retired>>

(***************************************************************************)
(* Reading.  The record is read first and the bytes later; bytes under an    *)
(* old key are written back under the new one.                              *)
(***************************************************************************)
Fetch(c, u) ==
    /\ backend # "local" /\ pc[c] = "idle" /\ lock = None
    /\ IF backend = "disk" THEN Purge(now) ELSE UNCHANGED <<record, blob, torn>>
    /\ record[u] # None /\ record[u].status = "ready" /\ u \notin Stale(now)
    /\ task' = [task EXCEPT ![c] = [Blank EXCEPT !.of = u]]
    /\ Goto(c, "read")
    /\ UNCHANGED <<backend, now, hashEnd, lock, retired>>

(* get() on S3 deletes what it finds expired. *)
FetchExpired(c, u) ==
    /\ backend = "s3" /\ pc[c] = "idle"
    /\ u \in Stale(now) /\ record[u].status = "ready"
    /\ task' = [task EXCEPT ![c] = [Blank EXCEPT !.of = u]]
    /\ Goto(c, "delete")
    /\ UNCHANGED <<backend, now, record, hashEnd, blob, lock, retired, torn>>

ReadBytes(c) ==
    /\ pc[c] = "read"
    /\ \/ End(c, "done")
       \/ blob[task[c].of] # None /\ Goto(c, "rotate") /\ UNCHANGED task
    /\ UNCHANGED <<backend, now, record, hashEnd, blob, lock, retired, torn>>

Rotate(c) ==
    /\ pc[c] = "rotate"
    /\ LET u == task[c].of IN
       /\ blob' = [blob EXCEPT ![u] = now]
       /\ torn' = IF blob[u] = None \/ record[u] = None
                   THEN torn \cup {u} ELSE torn
    /\ End(c, "done")
    /\ UNCHANGED <<backend, now, record, hashEnd, lock, retired>>

(***************************************************************************)
(* Deleting.  On S3: a tombstone, the object, the record.  On disk the file  *)
(* is unlinked before the transaction commits.                              *)
(***************************************************************************)
DeleteStart(c, u) ==
    /\ backend = "s3" /\ pc[c] = "idle"
    /\ record[u] # None /\ record[u].status # "staging"
    /\ task' = [task EXCEPT ![c] = [Blank EXCEPT !.of = u]]
    /\ Goto(c, "delete")
    /\ UNCHANGED <<backend, now, record, hashEnd, blob, lock, retired, torn>>

DeleteRead(c) ==
    /\ pc[c] = "delete"
    /\ LET item == record[task[c].of] IN
       IF item = None THEN End(c, "done")
       ELSE task' = [task EXCEPT ![c].item = item] /\ Goto(c, "mark")
    /\ UNCHANGED <<backend, now, record, hashEnd, blob, lock, retired, torn>>

(* Mutant: the item is written back with the status it was read with. *)
TombstoneAsRead(item) == Meta(item.status, Lesser(item.expires, now + Staging))
Tombstone(item) == Meta("deleting", Lesser(item.expires, now + Staging))

(* HSET on a hash that is gone starts one that never expires. *)
DeleteMark(c) ==
    /\ pc[c] = "mark"
    /\ record' = [record EXCEPT ![task[c].of] = Tombstone(task[c].item)]
    /\ hashEnd' = IF \A u \in Upload : record[u] = None THEN MaxTime + 1 ELSE hashEnd
    /\ Goto(c, "unlink")
    /\ UNCHANGED <<backend, now, blob, lock, task, retired, torn>>

DeleteBytes(c) ==
    /\ pc[c] = "unlink"
    /\ \/ blob' = [blob EXCEPT ![task[c].of] = None] /\ Goto(c, "forget")
          /\ UNCHANGED task
       \/ UNCHANGED blob /\ End(c, "done")
    /\ UNCHANGED <<backend, now, record, hashEnd, lock, retired, torn>>

DeleteForget(c) ==
    /\ pc[c] = "forget"
    /\ record' = [record EXCEPT ![task[c].of] = None]
    /\ retired' = retired \cup {task[c].of}
    /\ End(c, "done")
    /\ UNCHANGED <<backend, now, hashEnd, blob, lock, torn>>

DeleteElsewhere(c, u) ==
    /\ backend # "s3" /\ pc[c] = "idle" /\ lock = None
    /\ record[u] # None
    /\ blob' = [blob EXCEPT ![u] = None]
    /\ \/ record' = [record EXCEPT ![u] = None]
          /\ retired' = retired \cup {u} /\ UNCHANGED torn
       \/ backend = "disk" /\ torn' = torn \cup {u} /\ UNCHANGED <<record, retired>>
    /\ End(c, "done")
    /\ UNCHANGED <<backend, now, hashEnd, lock>>

(***************************************************************************)
(* Time and faults.                                                         *)
(***************************************************************************)
Storing == {"prepared", "put", "undo"}

(* Unless storing calls may stall, they end before their staged records do. *)
InTime == \A s \in Storer : pc[s] \in Storing => now < task[s].at + StagedFor

Tick ==
    /\ now < MaxTime /\ (MayStall \/ InTime)
    /\ now' = now + 1
    /\ IF backend = "s3" /\ now + 1 >= hashEnd
       THEN /\ record' = [u \in Upload |-> None]
            /\ torn' = torn \cup {u \in Upload : blob[u] # None}
       ELSE UNCHANGED <<record, torn>>
    /\ UNCHANGED <<backend, hashEnd, blob, lock, pc, task, retired>>

(* The process of a storing call dies; SQLite rolls an open transaction back.
   A caller that dies is one that takes no further step. *)
Crash(t) ==
    /\ pc[t] \in Storing /\ backend # "local"
    /\ End(t, "failed")
    /\ lock' = IF lock = t THEN None ELSE lock
    /\ torn' = IF lock = t THEN torn \cup Batch[t] ELSE torn
    /\ UNCHANGED <<backend, now, record, hashEnd, blob, retired>>

Store(s) ==
    \/ Prepare(s) \/ Reject(s) \/ Reserve(s) \/ OverQuota(s)
    \/ Finalize(s) \/ FinalizeFails(s) \/ Forget(s)
    \/ DiskOpen(s) \/ DiskCommit(s) \/ LocalStore(s)
    \/ \E u \in Upload : Put(s, u) \/ PutFails(s, u) \/ Undo(s, u)

Call(c) ==
    \/ Scan(c) \/ CleanForget(c) \/ ListElsewhere(c) \/ ReadBytes(c) \/ Rotate(c)
    \/ DeleteRead(c) \/ DeleteMark(c) \/ DeleteBytes(c) \/ DeleteForget(c)
    \/ \E u \in Upload : \/ Clean(c, u) \/ Fetch(c, u) \/ FetchExpired(c, u)
                         \/ DeleteStart(c, u) \/ DeleteElsewhere(c, u)

Next ==
    \/ Tick
    \/ \E s \in Storer : Store(s)
    \/ \E c \in Caller : Call(c)
    \/ \E s \in Storer : Crash(s)

Spec == Init /\ [][Next]_vars

(***************************************************************************)
(* Properties.                                                              *)
(***************************************************************************)

Readable(u) == record[u] # None /\ record[u].status = "ready" /\ u \notin Stale(now)

(* A handle that a storing call returned can be read until it expires or is
   deleted: neither the cleanup of a list nor the compensation of another
   call takes its bytes.  Exempt is a deletion on disk whose commit failed. *)
StoredCanBeRead ==
    \A s \in Storer : pc[s] = "stored" =>
        \A u \in Batch[s] : Readable(u) /\ u \notin torn => blob[u] # None

(* However many calls store at once, the uploads that are stored or being
   stored fit the quota of the principal. *)
QuotaHolds ==
    Cardinality({u \in Counted(now) : record[u].status # "deleting"}) <= Quota

(* An upload that a caller was told is deleted is never offered again, also
   when calls that read its record before it went write it back. *)
DeletedStaysDeleted == \A u \in retired : ~Readable(u)

(* Bytes are never left without a record that leads the next cleanup to them,
   except by the faults recorded in torn: a put, a compensation or a commit
   that failed, a hash that lapsed, a key rotation that wrote back bytes
   deleted under its hands. *)
BytesAreAccountedFor ==
    \A u \in Upload : blob[u] # None =>
        \/ record[u] # None \/ u \in torn
        \/ \E s \in Storer : u \in Batch[s] /\ pc[s] \in {"put", "undo"}
=============================================================================

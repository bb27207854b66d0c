---------------------------- MODULE Uploads_proofs ----------------------------
(***************************************************************************)
(* What is proved of Picker uploads, for any number of uploads, calls and   *)
(* backends and for any lifetimes.                                          *)
(*                                                                          *)
(* That a deleted upload stays deleted needs one idea: an upload is Past    *)
(* once its storing call can no longer make it ready (Ended) and it is not  *)
(* Readable.  No step undoes either half, because the only writes of a      *)
(* ready record are those of the call that stores it; a call that writes an *)
(* old record back writes a tombstone.                                      *)
(*                                                                          *)
(* The other three properties are of calls that end in time (~MayStall).    *)
(* Then the staged record of a call at work is never stale, so that what a  *)
(* cleanup, a delete or another store finds to remove is Past.  Hence every *)
(* step that is not of the storing call itself either leaves an upload      *)
(* alone or finds it Ended (Outside), and the rest is about one call at a   *)
(* time.                                                                    *)
(***************************************************************************)
EXTENDS Uploads, FiniteSetTheorems, TLAPS

(***************************************************************************)
(* The inductive invariant.                                                *)
(***************************************************************************)
StorerPC == {"idle", "prepared", "put", "undo", "stored", "failed"}
CallerPC == {"idle", "clean", "done", "read", "rotate", "delete", "mark", "unlink", "forget"}
Tasks == [at : Nat, todo : SUBSET Upload, done : SUBSET Upload,
          of : Upload \cup {None}, item : Metas \cup {None}]

TypeOK ==
    /\ backend \in Backends
    /\ now \in Nat
    /\ record \in [Upload -> Metas \cup {None}]
    /\ hashEnd \in Nat
    /\ blob \in [Upload -> Nat \cup {None}]
    /\ lock \in Storer \cup {None}
    /\ pc \in [Thread -> StorerPC \cup CallerPC]
    /\ \A s \in Storer : pc[s] \in StorerPC
    /\ task \in [Thread -> Tasks]
    /\ retired \subseteq Upload
    /\ torn \subseteq Upload

\* The call that stores u will not make it ready any more.
Ended(u) == \A s \in Storer : u \in Batch[s] => pc[s] \in {"undo", "stored", "failed"}

\* u was withdrawn: it will never be offered again.
Past(u) == Ended(u) /\ ~Readable(u)

\* u has no bytes, or a fault is on record.
Bare(u) == blob[u] = None \/ u \in torn

\* A record that is ready or marked is of a call that is over.
ReadyIsEnded ==
    \A u \in Upload : record[u] # None =>
        /\ record[u].status = "staging" => backend = "s3"
        /\ record[u].status # "staging" => Ended(u)

\* What a reading or deleting call knows of its upload, whatever happened since
\* it read the record.
CallersKnow ==
    \A c \in Caller : pc[c] \in {"read", "rotate", "delete", "mark", "unlink", "forget"} =>
        /\ task[c].of \in Upload /\ Ended(task[c].of)
        /\ pc[c] = "mark" => task[c].item # None
        /\ pc[c] \in {"unlink", "forget"} => ~Readable(task[c].of)

RetiredIsPast == \A u \in retired : Past(u)

DeletionInv == ReadyIsEnded /\ CallersKnow /\ RetiredIsPast

\* A call at work is within the life of its staged records.
StoringInTime ==
    \A s \in Storer : pc[s] \in Storing => task[s].at <= now /\ now <= task[s].at + StagedFor

\* Nobody writes an upload before its own call does.
NothingYet ==
    \A s \in Storer : pc[s] \in {"idle", "prepared"} =>
        \A u \in Batch[s] : record[u] = None /\ blob[u] = None

\* The reservation of a call at work is intact, and so is the hash it is in.
Reserved ==
    \A s \in Storer : pc[s] = "put" /\ backend = "s3" =>
        /\ \A u \in Batch[s] : record[u] = Meta("staging", task[s].at + StagedFor)
        /\ hashEnd > task[s].at + StagedFor \/ hashEnd > MaxTime

\* The calls for whose batch the quota has room, as of when they prepared it.
HaveRoom == {s \in Storer : Fits(task[s].at, s)}

\* On disk a call at work has the write transaction, and the room it found.
Locked ==
    \A s \in Storer : pc[s] \in {"put", "undo"} =>
        /\ backend # "local"
        /\ backend = "disk" => lock = s /\ (pc[s] = "put" => s \in HaveRoom)

\* Until the transaction of a store on disk commits, the rows of the files that
\* its cleanup unlinked are still there.
RowsLinger ==
    \A s \in Storer : pc[s] = "put" /\ backend = "disk" => \A u \in Stale(task[s].at) : Bare(u)

\* What a call at work knows of its batch: what it must still put, and what it
\* would have to take back.
Written ==
    \A s \in Storer :
        /\ pc[s] = "prepared" => task[s].todo = Batch[s] /\ task[s].done = {}
        /\ pc[s] \in {"put", "undo"} =>
            /\ task[s].todo \subseteq Batch[s] /\ task[s].done \subseteq Batch[s]
            /\ \A u \in Batch[s] : Bare(u) \/ u \in task[s].done
        /\ pc[s] = "put" => \A u \in Batch[s] \ task[s].todo : blob[u] # None

\* What a cleanup is about to remove is past, and what it is about to forget has
\* no bytes left.
CleanersKnow ==
    \A c \in Caller :
        /\ pc[c] \in {"clean", "delete", "mark", "unlink", "forget"} => backend = "s3"
        /\ pc[c] = "clean" => /\ \A u \in task[c].todo \cup task[c].done : Past(u)
                              /\ \A u \in task[c].done : Bare(u)
        /\ pc[c] = "forget" => Bare(task[c].of)

\* BytesAreAccountedFor, with the backend on which an open call accounts for bytes.
BytesAreLed ==
    \A u \in Upload : blob[u] # None =>
        \/ record[u] # None \/ u \in torn
        \/ backend = "disk" /\ \E s \in Storer : u \in Batch[s] /\ pc[s] \in {"put", "undo"}

UploadInv ==
    /\ StoringInTime /\ NothingYet /\ Reserved /\ Locked /\ RowsLinger /\ Written
    /\ CleanersKnow /\ StoredCanBeRead /\ BytesAreLed /\ QuotaHolds

Good == TypeOK /\ DeletionInv /\ UploadInv

\* The other calls stay where they are.
Still(t) == \A x \in Thread \ {t} : pc'[x] = pc[x] /\ task'[x] = task[x]

\* The call t comes to a place and remembers what it did.
At(t, where) == Still(t) /\ pc'[t] = where /\ task'[t] = task[t]
Ends(t, where) == Still(t) /\ pc'[t] = where /\ task'[t] = Blank

LEMMA LifeOfStaged == StagedFor \in Nat /\ StagedFor <= TTL /\ TTL \in Nat /\ Staging \in Nat
BY UploadsAssumption DEF StagedFor, Lesser

LEMMA MetaTyped ==
    ASSUME NEW st \in Status, NEW e \in Nat
    PROVE  /\ Meta(st, e) \in Metas /\ Meta(st, e) # None
           /\ Meta(st, e).status = st /\ Meta(st, e).expires = e
<1>1. Meta(st, e) = [status |-> st, expires |-> e]
  BY DEF Meta
<1>2. Meta(st, e) \in Metas
  BY <1>1 DEF Metas
<1> QED
  BY <1>1, <1>2, NoneIsNothing

LEMMA BlankTyped ==
    /\ Blank \in Tasks
    /\ Blank.at = 0 /\ Blank.todo = {} /\ Blank.done = {} /\ Blank.of = None /\ Blank.item = None
BY DEF Blank, Tasks

\* A place for a call of its kind.
Legal(t, where) ==
    (t \in Storer /\ where \in StorerPC) \/ (t \in Caller /\ where \in CallerPC)

CallsTyped ==
    /\ pc \in [Thread -> StorerPC \cup CallerPC]
    /\ \A s \in Storer : pc[s] \in StorerPC
    /\ task \in [Thread -> Tasks]

LEMMA GotoDoes ==
    ASSUME TypeOK, NEW t \in Thread, NEW where, Legal(t, where), Goto(t, where)
    PROVE  /\ pc'[t] = where /\ \A x \in Thread \ {t} : pc'[x] = pc[x]
           /\ pc' \in [Thread -> StorerPC \cup CallerPC]
           /\ \A s \in Storer : pc'[s] \in StorerPC
<1>1. where \in StorerPC \cup CallerPC /\ (t \in Storer => where \in StorerPC)
  BY UploadsAssumption DEF Legal
<1>2. pc' = [pc EXCEPT ![t] = where] /\ pc \in [Thread -> StorerPC \cup CallerPC]
      /\ \A s \in Storer : pc[s] \in StorerPC /\ s \in Thread
  BY DEF TypeOK, Goto, Thread
<1> QED
  BY <1>1, <1>2

LEMMA GotoKeeps ==
    ASSUME TypeOK, NEW t \in Thread, NEW where, Legal(t, where), Goto(t, where), UNCHANGED task
    PROVE  At(t, where) /\ CallsTyped'
BY GotoDoes DEF At, Still, CallsTyped, TypeOK

\* A call takes a new note.
LEMMA NoteDoes ==
    ASSUME TypeOK, NEW t \in Thread, NEW where, NEW note \in Tasks,
           Legal(t, where), Goto(t, where), task' = [task EXCEPT ![t] = note]
    PROVE  Still(t) /\ pc'[t] = where /\ task'[t] = note /\ CallsTyped'
BY GotoDoes DEF TypeOK, Still, CallsTyped

LEMMA EndDoes ==
    ASSUME TypeOK, NEW t \in Thread, NEW where, Legal(t, where), End(t, where)
    PROVE  Ends(t, where) /\ CallsTyped'
BY NoteDoes, BlankTyped DEF End, Goto, Ends

\* A call goes on where it is, and changes its note.
LEMMA NoteKeeps ==
    ASSUME TypeOK, NEW t \in Thread, NEW note \in Tasks,
           UNCHANGED pc, task' = [task EXCEPT ![t] = note]
    PROVE  Still(t) /\ pc'[t] = pc[t] /\ task'[t] = note /\ CallsTyped'
BY DEF TypeOK, Still, CallsTyped

LEMMA SetDoes ==
    ASSUME NEW f, DOMAIN f = Upload, NEW S, NEW v
    PROVE  \A u \in Upload : Set(f, S, v)[u] = IF u \in S THEN v ELSE f[u]
BY DEF Set

LEMMA Threads ==
    /\ \A s \in Storer : s \in Thread
    /\ \A c \in Caller : c \in Thread
    /\ \A s \in Storer, c \in Caller : s # c
BY UploadsAssumption DEF Thread

\* What a call remembers.
LEMMA NoteTyped ==
    ASSUME TypeOK, NEW t \in Thread
    PROVE  /\ task[t] \in Tasks
           /\ task[t].at \in Nat /\ task[t].todo \in SUBSET Upload /\ task[t].done \in SUBSET Upload
           /\ task[t].of \in Upload \cup {None} /\ task[t].item \in Metas \cup {None}
BY DEF TypeOK, Tasks

LEMMA RecordTyped ==
    ASSUME TypeOK, NEW u \in Upload
    PROVE  /\ DOMAIN record = Upload /\ DOMAIN blob = Upload
           /\ record[u] \in Metas \cup {None} /\ blob[u] \in Nat \cup {None}
           /\ record[u] # None => record[u].status \in Status /\ record[u].expires \in Nat
BY DEF TypeOK, Metas

\* A call that moves things from its list of what is to do to that of what is done.
LEMMA TickedOff ==
    ASSUME TypeOK, NEW t \in Thread, NEW u \in Upload, UNCHANGED pc,
           task' = [task EXCEPT ![t].todo = @ \ {u}, ![t].done = @ \cup {u}]
    PROVE  /\ Still(t) /\ pc'[t] = pc[t] /\ CallsTyped' /\ task'[t].at = task[t].at
           /\ task'[t].todo = task[t].todo \ {u} /\ task'[t].done = task[t].done \cup {u}
<1> DEFINE note == [task[t] EXCEPT !.todo = @ \ {u}, !.done = @ \cup {u}]
<1>1. task[t] \in Tasks
  BY NoteTyped
<1>2. /\ note \in Tasks /\ note.at = task[t].at
      /\ note.todo = task[t].todo \ {u} /\ note.done = task[t].done \cup {u}
  BY <1>1 DEF Tasks
<1>3. task' = [task EXCEPT ![t] = note]
  BY DEF TypeOK
<1> HIDE DEF note
<1> QED
  BY <1>2, <1>3, NoteKeeps

LEMMA PrepareDoes ==
    ASSUME TypeOK, NEW s \in Storer, Prepare(s)
    PROVE  /\ Still(s) /\ pc'[s] = "prepared" /\ CallsTyped'
           /\ task'[s].at = now /\ task'[s].todo = Batch[s] /\ task'[s].done = {}
<1> DEFINE note == [Blank EXCEPT !.at = now, !.todo = Batch[s]]
<1>1. now \in Nat /\ Batch[s] \in SUBSET Upload
  BY UploadsAssumption DEF TypeOK
<1>2. note \in Tasks /\ note.at = now /\ note.todo = Batch[s] /\ note.done = {}
  BY <1>1, BlankTyped DEF Tasks
<1> HIDE DEF note
<1>3. Legal(s, "prepared") /\ s \in Thread
  BY Threads DEF Legal, StorerPC
<1>4. Goto(s, "prepared") /\ task' = [task EXCEPT ![s] = note]
  BY DEF Prepare, note
<1> QED
  BY <1>2, <1>3, <1>4, NoteDoes

LEMMA ScanDoes ==
    ASSUME TypeOK, NEW c \in Caller, Scan(c)
    PROVE  /\ Still(c) /\ pc'[c] = "clean" /\ CallsTyped'
           /\ \A u \in task'[c].todo : u \in Stale(now) \/ (record[u] # None /\ record[u].status = "deleting")
           /\ task'[c].done = {} /\ task'[c].todo \subseteq Upload
<1> DEFINE left == Stale(now) \cup {u \in Upload : record[u] # None /\ record[u].status = "deleting"}
           note == [Blank EXCEPT !.todo = left]
<1>1. left \in SUBSET Upload
      /\ \A u \in left : u \in Stale(now) \/ (record[u] # None /\ record[u].status = "deleting")
  BY DEF Stale
<1> HIDE DEF left
<1>2. note \in Tasks /\ note.todo = left /\ note.done = {}
  BY <1>1, BlankTyped DEF Tasks
<1> HIDE DEF note
<1>3. Legal(c, "clean") /\ c \in Thread
  BY Threads DEF Legal, CallerPC
<1>4. Goto(c, "clean") /\ task' = [task EXCEPT ![c] = note]
  BY DEF Scan, note, left
<1> QED
  BY <1>1, <1>2, <1>3, <1>4, NoteDoes

\* A call picks the upload it is about.
LEMMA PickDoes ==
    ASSUME TypeOK, NEW c \in Caller, NEW u \in Upload, NEW where \in {"read", "delete"},
           Goto(c, where), task' = [task EXCEPT ![c] = [Blank EXCEPT !.of = u]]
    PROVE  Still(c) /\ pc'[c] = where /\ CallsTyped' /\ task'[c].of = u
<1> DEFINE note == [Blank EXCEPT !.of = u]
<1>1. note \in Tasks /\ note.of = u
  BY BlankTyped DEF Tasks
<1> HIDE DEF note
<1>2. Legal(c, where) /\ c \in Thread
  BY Threads DEF Legal, CallerPC
<1>3. task' = [task EXCEPT ![c] = note]
  BY DEF note
<1> QED
  BY <1>1, <1>2, <1>3, NoteDoes

LEMMA DeleteReadDoes ==
    ASSUME TypeOK, NEW c \in Caller, DeleteRead(c), task[c].of \in Upload
    PROVE  /\ CallsTyped'
           /\ \/ Ends(c, "done")
              \/ /\ Still(c) /\ pc'[c] = "mark" /\ task'[c].of = task[c].of
                 /\ task'[c].item = record[task[c].of] /\ task'[c].item # None
<1> DEFINE item == record[task[c].of]
           note == [task[c] EXCEPT !.item = item]
<1>1. task[c] \in Tasks /\ item \in Metas \cup {None} /\ c \in Thread
  BY Threads, NoteTyped, RecordTyped
<1>2. CASE item = None
  <2>1. Legal(c, "done") /\ End(c, "done")
    BY <1>2 DEF Legal, CallerPC, DeleteRead
  <2> QED
    BY <1>1, <2>1, EndDoes
<1>3. CASE item # None
  <2>1. Legal(c, "mark") /\ Goto(c, "mark") /\ task' = [task EXCEPT ![c].item = item]
    BY <1>3 DEF Legal, CallerPC, DeleteRead
  <2> HIDE DEF item
  <2>2. note \in Tasks /\ note.of = task[c].of /\ note.item = item
    BY <1>1 DEF Tasks
  <2>3. task' = [task EXCEPT ![c] = note]
    BY <2>1 DEF TypeOK
  <2> HIDE DEF note
  <2> QED
    BY <1>1, <1>3, <2>1, <2>2, <2>3, NoteDoes DEF item
<1> QED
  BY <1>2, <1>3

LEMMA UndoDoes ==
    ASSUME TypeOK, NEW s \in Storer, NEW u \in Upload, Undo(s, u)
    PROVE  /\ Still(s) /\ pc'[s] = "undo" /\ CallsTyped'
           /\ task'[s].at = task[s].at /\ task'[s].todo = task[s].todo
           /\ task'[s].done = task[s].done \ {u}
<1> DEFINE note == [task[s] EXCEPT !.done = @ \ {u}]
<1>1. task[s] \in Tasks /\ s \in Thread /\ pc[s] = "undo" /\ UNCHANGED pc
  BY Threads, NoteTyped DEF Undo
<1>2. /\ note \in Tasks /\ note.at = task[s].at
      /\ note.todo = task[s].todo /\ note.done = task[s].done \ {u}
  BY <1>1 DEF Tasks
<1>3. task' = [task EXCEPT ![s] = note]
  BY DEF TypeOK, Undo
<1> HIDE DEF note
<1> QED
  BY <1>1, <1>2, <1>3, NoteKeeps

\* The files that a cleanup unlinks, in the stores that have a transaction.
SweepEffect(t) ==
    /\ \A u \in Upload : u \in Stale(t) => blob'[u] = None
    /\ \A u \in Upload : blob'[u] # blob[u] => blob'[u] = None /\ (u \in Stale(t) \/ record[u] = None)
    /\ \A u \in torn \ torn' : record[u] = None /\ blob[u] # None /\ blob'[u] = None
    /\ torn' \subseteq torn
    /\ blob' \in [Upload -> Nat \cup {None}]

\* The whole cleanup, once it is committed.
PurgeEffect(t) ==
    /\ SweepEffect(t)
    /\ \A u \in Upload : u \in Stale(t) => record'[u] = None
    /\ \A u \in Upload \ Stale(t) : record'[u] = record[u]
    /\ record' \in [Upload -> Metas \cup {None}]

LEMMA SweepDoes ==
    ASSUME TypeOK, NEW t, Sweep(t)
    PROVE  SweepEffect(t)
<1>1. PICK orphans \in SUBSET Upload :
          /\ \A u \in orphans : record[u] = None /\ blob[u] # None
          /\ blob' = Set(blob, Stale(t) \cup orphans, None)
          /\ torn' = torn \ orphans
  BY DEF Sweep
<1>2. DOMAIN blob = Upload /\ torn \subseteq Upload
  BY DEF TypeOK
<1>3. \A u \in Upload : blob'[u] = IF u \in Stale(t) \cup orphans THEN None ELSE blob[u]
  BY <1>1, <1>2, SetDoes
<1>4. blob' \in [Upload -> Nat \cup {None}]
  BY <1>1, <1>2 DEF Set, TypeOK
<1> QED
  BY <1>1, <1>2, <1>3, <1>4 DEF SweepEffect

LEMMA PurgeDoes ==
    ASSUME TypeOK, NEW t, Purge(t)
    PROVE  PurgeEffect(t)
<1>1. SweepEffect(t) /\ record' = Set(record, Stale(t), None)
  BY SweepDoes DEF Purge
<1>2. DOMAIN record = Upload
  BY DEF TypeOK
<1>3. \A u \in Upload : record'[u] = IF u \in Stale(t) THEN None ELSE record[u]
  BY <1>1, <1>2, SetDoes
<1>4. record' \in [Upload -> Metas \cup {None}]
  BY <1>1, <1>2 DEF Set, TypeOK
<1> QED
  BY <1>1, <1>3, <1>4 DEF PurgeEffect

(***************************************************************************)
(* Types.                                                                  *)
(***************************************************************************)
Records == [Upload -> Metas \cup {None}]
Blobs == [Upload -> Nat \cup {None}]

LEMMA TypeKept ==
    ASSUME TypeOK, CallsTyped', backend' = backend, now' \in Nat, hashEnd' \in Nat,
           record' \in Records, blob' \in Blobs, lock' \in Storer \cup {None},
           retired' \subseteq Upload, torn' \subseteq Upload
    PROVE  TypeOK'
BY DEF TypeOK, CallsTyped, Records, Blobs

\* The records of a batch are written together.
LEMMA SetTyped ==
    ASSUME TypeOK, NEW S, NEW v \in Metas \cup {None}
    PROVE  /\ Set(record, S, v) \in Records
           /\ \A u \in Upload : Set(record, S, v)[u] = IF u \in S THEN v ELSE record[u]
BY DEF Set, TypeOK, Records

\* A commit on disk writes its batch and drops what its cleanup found stale.
LEMMA CommitDoes ==
    ASSUME TypeOK, NEW S, NEW B, NEW v \in Metas,
           record' = Set(Set(record, S, None), B, v)
    PROVE  /\ record' \in Records
           /\ \A u \in Upload : record'[u] = IF u \in B THEN v
                                           ELSE IF u \in S THEN None ELSE record[u]
BY DEF Set, TypeOK, Records

LEMMA WriteTyped ==
    ASSUME TypeOK, NEW u \in Upload
    PROVE  /\ \A v \in Nat \cup {None} :
                 /\ [blob EXCEPT ![u] = v] \in Blobs
                 /\ \A w \in Upload : [blob EXCEPT ![u] = v][w] = IF w = u THEN v ELSE blob[w]
           /\ \A v \in Metas \cup {None} :
                 /\ [record EXCEPT ![u] = v] \in Records
                 /\ \A w \in Upload : [record EXCEPT ![u] = v][w] = IF w = u THEN v ELSE record[w]
BY DEF TypeOK, Records, Blobs

LEMMA WorldTyped ==
    ASSUME TypeOK
    PROVE  /\ now \in Nat /\ hashEnd \in Nat /\ record \in Records /\ blob \in Blobs
           /\ lock \in Storer \cup {None} /\ retired \subseteq Upload /\ torn \subseteq Upload
           /\ TTL \in Nat /\ HashGrace \in Nat /\ HashGrace > 0 /\ MaxTime \in Nat /\ Staging \in Nat
           /\ \A s \in Storer : Batch[s] \subseteq Upload
BY UploadsAssumption DEF TypeOK, Records, Blobs

LEMMA StatusNames == {"staging", "ready", "deleting"} \subseteq Status
BY DEF Status

LEMMA TombstoneTyped ==
    ASSUME TypeOK, CallersKnow, NEW c \in Caller, pc[c] = "mark"
    PROVE  /\ Tombstone(task[c].item) \in Metas /\ Tombstone(task[c].item) # None
           /\ Tombstone(task[c].item).status = "deleting"
<1>1. task[c].item \in Metas /\ now + Staging \in Nat
  BY Threads, NoteTyped, WorldTyped DEF CallersKnow
<1>2. task[c].item.expires \in Nat
  BY <1>1 DEF Metas
<1>3. Lesser(task[c].item.expires, now + Staging) \in Nat
  BY <1>1, <1>2 DEF Lesser
<1> QED
  BY <1>3, MetaTyped, StatusNames DEF Tombstone

LEMMA StoreTyped ==
    ASSUME TypeOK, NEW s \in Storer, Store(s)
    PROVE  TypeOK'
<1> DEFINE at == task[s].at
<1>0. /\ s \in Thread /\ at \in Nat /\ at + TTL \in Nat /\ at + StagedFor \in Nat
      /\ \A where \in StorerPC : Legal(s, where)
      /\ {"prepared", "put", "undo", "stored", "failed"} \subseteq StorerPC
  BY Threads, NoteTyped, LifeOfStaged DEF Legal, StorerPC
<1>a. /\ Meta("staging", at + StagedFor) \in Metas
      /\ Meta("ready", at + TTL) \in Metas /\ Meta("ready", now + TTL) \in Metas
  BY <1>0, MetaTyped, StatusNames, WorldTyped
<1> HIDE DEF at
<1>1. CASE Prepare(s)
  BY <1>1, PrepareDoes, WorldTyped, TypeKept DEF Prepare
<1>2. CASE Reject(s) \/ OverQuota(s)
  BY <1>0, <1>2, EndDoes, WorldTyped, TypeKept DEF Reject, OverQuota
<1>3. CASE Reserve(s)
  BY <1>0, <1>a, <1>3, GotoKeeps, SetTyped, WorldTyped, TypeKept DEF Reserve, at
<1>4. CASE Finalize(s)
  BY <1>0, <1>a, <1>4, EndDoes, SetTyped, WorldTyped, TypeKept DEF Finalize, Finalized, at
<1>5. CASE FinalizeFails(s)
  BY <1>0, <1>a, <1>5, GotoKeeps, SetTyped, WorldTyped, TypeKept DEF FinalizeFails, Finalized, at
<1>6. CASE Forget(s)
  BY <1>0, <1>6, EndDoes, SetTyped, WorldTyped, TypeKept DEF Forget
<1>7. CASE DiskOpen(s)
  BY <1>0, <1>7, EndDoes, GotoKeeps, SweepDoes, WorldTyped, TypeKept DEF DiskOpen, SweepEffect, Records, Blobs
<1>8. CASE DiskCommit(s)
  <2>1. record' \in Records
    BY <1>a, <1>8, CommitDoes, WorldTyped DEF DiskCommit, at
  <2> QED
    BY <1>0, <1>8, <2>1, EndDoes, WorldTyped, TypeKept DEF DiskCommit
<1>9. CASE LocalStore(s)
  <2>1. CallsTyped'
    BY <1>0, <1>9, EndDoes DEF LocalStore
  <2>2. record' \in Records
    BY <1>a, <1>9, SetTyped DEF LocalStore, Records, TypeOK
  <2>3. blob' \in Blobs
    BY <1>9 DEF LocalStore, Set, Blobs, TypeOK
  <2> QED
    BY <1>9, <2>1, <2>2, <2>3, WorldTyped, TypeKept DEF LocalStore
<1>10. ASSUME NEW u \in Upload, Put(s, u)
       PROVE  TypeOK'
  BY <1>0, <1>10, TickedOff, WriteTyped, WorldTyped, TypeKept DEF Put
<1>11. ASSUME NEW u \in Upload, PutFails(s, u)
       PROVE  TypeOK'
  BY <1>0, <1>11, GotoKeeps, WriteTyped, WorldTyped, TypeKept DEF PutFails
<1>12. ASSUME NEW u \in Upload, Undo(s, u)
       PROVE  TypeOK'
  <2>1. blob' \in Blobs /\ torn' \subseteq Upload
    BY <1>12, WriteTyped, WorldTyped DEF Undo
  <2> QED
    BY <1>12, <2>1, UndoDoes, WorldTyped, TypeKept DEF Undo
<1> QED
  BY <1>1, <1>2, <1>3, <1>4, <1>5, <1>6, <1>7, <1>8, <1>9, <1>10, <1>11, <1>12 DEF Store

LEMMA CallTyped ==
    ASSUME TypeOK, CallersKnow, NEW c \in Caller, Call(c)
    PROVE  TypeOK'
<1> DEFINE of == task[c].of
<1>0. /\ c \in Thread /\ \A where \in CallerPC : Legal(c, where)
      /\ {"done", "rotate", "unlink", "forget"} \subseteq CallerPC
  BY Threads DEF Legal, CallerPC
<1>a. /\ pc[c] \in {"read", "rotate", "delete", "mark", "unlink", "forget"} => of \in Upload
      /\ pc[c] = "mark" => Tombstone(task[c].item) \in Metas
  BY TombstoneTyped DEF CallersKnow
<1>1. CASE Scan(c)
  BY <1>1, ScanDoes, WorldTyped, TypeKept DEF Scan
<1>2. CASE CleanForget(c)
  BY <1>0, <1>2, EndDoes, SetTyped, WorldTyped, TypeKept DEF CleanForget
<1>3. CASE ListElsewhere(c)
  BY <1>0, <1>3, EndDoes, PurgeDoes, WorldTyped, TypeKept DEF ListElsewhere, PurgeEffect, SweepEffect, Records, Blobs
<1>4. CASE ReadBytes(c)
  BY <1>0, <1>4, EndDoes, GotoKeeps, WorldTyped, TypeKept DEF ReadBytes
<1>5. CASE Rotate(c)
  BY <1>0, <1>a, <1>5, EndDoes, WriteTyped, WorldTyped, TypeKept DEF Rotate
<1>6. CASE DeleteRead(c)
  <2>1. CallsTyped'
    BY <1>a, <1>6, DeleteReadDoes DEF DeleteRead
  <2> QED
    BY <1>6, <2>1, WorldTyped, TypeKept DEF DeleteRead
<1>7. CASE DeleteMark(c)
  <2>1. CallsTyped'
    BY <1>0, <1>7, GotoKeeps DEF DeleteMark
  <2>2. record' \in Records
    BY <1>a, <1>7, WriteTyped DEF DeleteMark
  <2>3. hashEnd' \in Nat
    BY <1>7, WorldTyped DEF DeleteMark
  <2> QED
    BY <1>7, <2>1, <2>2, <2>3, WorldTyped, TypeKept DEF DeleteMark
<1>8. CASE DeleteBytes(c)
  <2>1. CallsTyped'
    BY <1>0, <1>8, EndDoes, GotoKeeps DEF DeleteBytes
  <2>2. blob' \in Blobs
    BY <1>a, <1>8, WriteTyped, WorldTyped DEF DeleteBytes
  <2> QED
    BY <1>8, <2>1, <2>2, WorldTyped, TypeKept DEF DeleteBytes
<1>9. CASE DeleteForget(c)
  BY <1>0, <1>a, <1>9, EndDoes, WriteTyped, WorldTyped, TypeKept DEF DeleteForget
<1>10. ASSUME NEW u \in Upload, Clean(c, u)
       PROVE  TypeOK'
  BY <1>0, <1>10, TickedOff, EndDoes, WriteTyped, WorldTyped, TypeKept DEF Clean
<1>11. ASSUME NEW u \in Upload, Fetch(c, u)
       PROVE  TypeOK'
  <2>1. CallsTyped'
    BY <1>11, PickDoes DEF Fetch
  <2>2. record' \in Records /\ blob' \in Blobs /\ torn' \subseteq Upload
    BY <1>11, PurgeDoes, WorldTyped DEF Fetch, PurgeEffect, SweepEffect, Records, Blobs
  <2> QED
    BY <1>11, <2>1, <2>2, WorldTyped, TypeKept DEF Fetch
<1>12. ASSUME NEW u \in Upload, FetchExpired(c, u) \/ DeleteStart(c, u)
       PROVE  TypeOK'
  BY <1>12, PickDoes, WorldTyped, TypeKept DEF FetchExpired, DeleteStart
<1>13. ASSUME NEW u \in Upload, DeleteElsewhere(c, u)
       PROVE  TypeOK'
  <2>1. CallsTyped'
    BY <1>0, <1>13, EndDoes DEF DeleteElsewhere
  <2>2. record' \in Records
    BY <1>13, WriteTyped, WorldTyped DEF DeleteElsewhere
  <2>3. blob' \in Blobs
    BY <1>13, WriteTyped DEF DeleteElsewhere
  <2> QED
    BY <1>13, <2>1, <2>2, <2>3, WorldTyped, TypeKept DEF DeleteElsewhere
<1> QED
  BY <1>1, <1>2, <1>3, <1>4, <1>5, <1>6, <1>7, <1>8, <1>9, <1>10, <1>11, <1>12, <1>13 DEF Call

LEMMA TypeStep ==
    ASSUME TypeOK, CallersKnow, Next
    PROVE  TypeOK'
<1>1. CASE Tick
  <2>1. CallsTyped'
    BY <1>1 DEF Tick, CallsTyped, TypeOK
  <2>2. record' \in Records /\ torn' \subseteq Upload
    BY <1>1, WorldTyped DEF Tick, Records
  <2> QED
    BY <1>1, <2>1, <2>2, WorldTyped, TypeKept DEF Tick
<1>2. ASSUME NEW s \in Storer, Crash(s)
      PROVE  TypeOK'
  <2>1. s \in Thread /\ Legal(s, "failed")
    BY Threads DEF Legal, StorerPC
  <2>2. CallsTyped'
    BY <1>2, <2>1, EndDoes DEF Crash
  <2> QED
    BY <1>2, <2>2, WorldTyped, TypeKept DEF Crash
<1> QED
  BY <1>1, <1>2, StoreTyped, CallTyped DEF Next

(***************************************************************************)
(* Deleted uploads.  No step brings back what was withdrawn, because only  *)
(* the call that stores an upload makes it ready, and only once.           *)
(***************************************************************************)
Finished == {"undo", "stored", "failed"}

LEMMA StoreMoves ==
    ASSUME TypeOK, NEW s \in Storer, Store(s)
    PROVE  Still(s) /\ (pc[s] \in Finished => pc'[s] \in Finished)
<1>0. /\ s \in Thread /\ \A where \in StorerPC : Legal(s, where)
      /\ {"prepared", "put", "undo", "stored", "failed"} \subseteq StorerPC
      /\ {"idle", "prepared", "put"} \cap Finished = {} /\ {"undo", "failed"} \subseteq Finished
  BY Threads DEF Legal, StorerPC, Finished
<1>1. CASE Prepare(s)
  BY <1>0, <1>1, PrepareDoes DEF Prepare
<1>2. CASE Reject(s) \/ OverQuota(s)
  BY <1>0, <1>2, EndDoes DEF Reject, OverQuota, Ends
<1>3. CASE Reserve(s)
  BY <1>0, <1>3, GotoKeeps DEF Reserve, At
<1>4. CASE Finalize(s)
  BY <1>0, <1>4, EndDoes DEF Finalize, Ends
<1>5. CASE FinalizeFails(s)
  BY <1>0, <1>5, GotoKeeps DEF FinalizeFails, At
<1>6. CASE Forget(s)
  BY <1>0, <1>6, EndDoes DEF Forget, Ends
<1>7. CASE DiskOpen(s)
  BY <1>0, <1>7, EndDoes, GotoKeeps DEF DiskOpen, Ends, At
<1>8. CASE DiskCommit(s)
  BY <1>0, <1>8, EndDoes DEF DiskCommit, Ends
<1>9. CASE LocalStore(s)
  BY <1>0, <1>9, EndDoes DEF LocalStore, Ends
<1>10. ASSUME NEW u \in Upload, Put(s, u)
       PROVE  Still(s) /\ (pc[s] \in Finished => pc'[s] \in Finished)
  BY <1>0, <1>10, TickedOff DEF Put
<1>11. ASSUME NEW u \in Upload, PutFails(s, u)
       PROVE  Still(s) /\ (pc[s] \in Finished => pc'[s] \in Finished)
  BY <1>0, <1>11, GotoKeeps DEF PutFails, At
<1>12. ASSUME NEW u \in Upload, Undo(s, u)
       PROVE  Still(s) /\ (pc[s] \in Finished => pc'[s] \in Finished)
  BY <1>0, <1>12, UndoDoes DEF Undo
<1> QED
  BY <1>1, <1>2, <1>3, <1>4, <1>5, <1>6, <1>7, <1>8, <1>9, <1>10, <1>11, <1>12 DEF Store

LEMMA CallMoves ==
    ASSUME TypeOK, CallersKnow, NEW c \in Caller, Call(c)
    PROVE  Still(c)
<1>0. /\ c \in Thread /\ \A where \in CallerPC : Legal(c, where)
      /\ {"done", "rotate", "unlink", "forget"} \subseteq CallerPC
  BY Threads DEF Legal, CallerPC
<1>1. CASE Scan(c)
  BY <1>1, ScanDoes
<1>2. CASE CleanForget(c) \/ ListElsewhere(c) \/ ReadBytes(c) \/ Rotate(c)
  BY <1>0, <1>2, EndDoes, GotoKeeps DEF CleanForget, ListElsewhere, ReadBytes, Rotate, Ends, At
<1>3. CASE DeleteRead(c)
  <2>1. task[c].of \in Upload
    BY <1>3 DEF DeleteRead, CallersKnow
  <2> QED
    BY <1>3, <2>1, DeleteReadDoes DEF Ends
<1>4. CASE DeleteMark(c) \/ DeleteBytes(c) \/ DeleteForget(c)
  BY <1>0, <1>4, EndDoes, GotoKeeps DEF DeleteMark, DeleteBytes, DeleteForget, Ends, At
<1>5. ASSUME NEW u \in Upload, Clean(c, u) PROVE Still(c)
  BY <1>0, <1>5, TickedOff, EndDoes DEF Clean, Ends
<1>6. ASSUME NEW u \in Upload, Fetch(c, u) \/ FetchExpired(c, u) \/ DeleteStart(c, u) PROVE Still(c)
  BY <1>6, PickDoes DEF Fetch, FetchExpired, DeleteStart
<1>7. ASSUME NEW u \in Upload, DeleteElsewhere(c, u) PROVE Still(c)
  BY <1>0, <1>7, EndDoes DEF DeleteElsewhere, Ends
<1> QED
  BY <1>1, <1>2, <1>3, <1>4, <1>5, <1>6, <1>7 DEF Call

LEMMA CrashMoves ==
    ASSUME TypeOK, NEW s \in Storer, Crash(s)
    PROVE  Still(s) /\ pc'[s] = "failed"
BY Threads, EndDoes DEF Crash, Ends, Legal, StorerPC

\* The call that stores u stays past its store.
LEMMA EndedKept ==
    ASSUME TypeOK, CallersKnow, Next, NEW u \in Upload, Ended(u)
    PROVE  Ended(u)'
<1> SUFFICES ASSUME NEW s \in Storer, u \in Batch[s]
             PROVE  pc'[s] \in Finished
  BY DEF Ended, Finished
<1>0. pc[s] \in Finished /\ s \in Thread /\ \A c \in Caller : c # s
  BY Threads DEF Ended, Finished
<1>1. CASE Tick
  BY <1>0, <1>1 DEF Tick
<1>2. ASSUME NEW z \in Storer, Store(z) PROVE pc'[s] \in Finished
  BY <1>0, <1>2, StoreMoves DEF Still
<1>3. ASSUME NEW c \in Caller, Call(c) PROVE pc'[s] \in Finished
  BY <1>0, <1>3, CallMoves DEF Still
<1>4. ASSUME NEW z \in Storer, Crash(z) PROVE pc'[s] \in Finished
  BY <1>0, <1>4, CrashMoves DEF Still, Finished
<1> QED
  BY <1>1, <1>2, <1>3, <1>4 DEF Next

\* A record is kept, dropped, or marked as going away, unless it is the store
\* of its own call that writes it.
Dwindles(u) ==
    \/ record'[u] \in {record[u], None}
    \/ record'[u] # None /\ record'[u].status = "deleting" /\ Ended(u)

WrittenBy(s, u) ==
    /\ u \in Batch[s] /\ pc[s] \notin Finished
    /\ \/ backend = "s3" /\ record'[u].status = "staging"
       \/ record'[u].status = "ready" /\ pc'[s] \in Finished

LEMMA StoreRecords ==
    ASSUME TypeOK, NEW s \in Storer, Store(s), NEW u \in Upload
    PROVE  Dwindles(u) \/ WrittenBy(s, u)
<1> DEFINE at == task[s].at
<1>0. /\ s \in Thread /\ at \in Nat /\ at + TTL \in Nat /\ at + StagedFor \in Nat
      /\ \A where \in StorerPC : Legal(s, where)
      /\ {"put", "undo", "stored", "failed"} \subseteq StorerPC
      /\ {"idle", "prepared", "put"} \cap Finished = {} /\ {"undo", "stored", "failed"} \subseteq Finished
  BY Threads, NoteTyped, LifeOfStaged DEF Legal, StorerPC, Finished
<1>a. /\ Meta("staging", at + StagedFor) \in Metas /\ Meta("staging", at + StagedFor).status = "staging"
      /\ Meta("ready", at + TTL) \in Metas /\ Meta("ready", at + TTL).status = "ready"
      /\ Meta("ready", now + TTL).status = "ready"
  BY <1>0, MetaTyped, StatusNames, WorldTyped
<1> HIDE DEF at
<1>1. CASE Prepare(s) \/ Reject(s) \/ OverQuota(s)
  BY <1>1 DEF Prepare, Reject, OverQuota, Dwindles
<1>2. CASE Reserve(s)
  BY <1>0, <1>a, <1>2, SetTyped DEF Reserve, Dwindles, WrittenBy, at
<1>3. CASE Finalize(s)
  BY <1>0, <1>a, <1>3, SetTyped, EndDoes DEF Finalize, Finalized, Dwindles, WrittenBy, Ends, at
<1>4. CASE FinalizeFails(s)
  BY <1>0, <1>a, <1>4, SetTyped, GotoKeeps DEF FinalizeFails, Finalized, Dwindles, WrittenBy, At, at
<1>5. CASE Forget(s)
  BY <1>5, SetTyped DEF Forget, Dwindles
<1>6. CASE DiskOpen(s)
  BY <1>6 DEF DiskOpen, Dwindles
<1>7. CASE DiskCommit(s)
  <2>1. CASE UNCHANGED record
    BY <2>1 DEF Dwindles
  <2>2. CASE record' # record
    <3>1. pc[s] \notin Finished /\ pc'[s] \in Finished
      BY <1>0, <1>7, EndDoes DEF DiskCommit, Ends
    <3>2. (record'[u] = Meta("ready", at + TTL) /\ u \in Batch[s]) \/ record'[u] \in {record[u], None}
      BY <1>a, <1>7, <2>2, CommitDoes DEF DiskCommit, at
    <3> QED
      BY <1>a, <3>1, <3>2 DEF Dwindles, WrittenBy
  <2> QED
    BY <2>1, <2>2
<1>8. CASE LocalStore(s)
  <2>1. pc[s] \notin Finished /\ pc'[s] \in Finished
    BY <1>0, <1>8, EndDoes DEF LocalStore, Ends
  <2>2. u \notin Batch[s] => record'[u] \in {record[u], None}
    BY <1>8, SetTyped DEF LocalStore
  <2>3. u \in Batch[s] => record'[u] \in {record[u], None, Meta("ready", now + TTL)}
    BY <1>8, SetTyped DEF LocalStore
  <2> QED
    BY <1>a, <2>1, <2>2, <2>3 DEF Dwindles, WrittenBy
<1>9. ASSUME NEW v \in Upload, Put(s, v) \/ PutFails(s, v) \/ Undo(s, v)
      PROVE  Dwindles(u)
  BY <1>9 DEF Put, PutFails, Undo, Dwindles
<1> QED
  BY <1>1, <1>2, <1>3, <1>4, <1>5, <1>6, <1>7, <1>8, <1>9 DEF Store

LEMMA CallRecords ==
    ASSUME TypeOK, CallersKnow, NEW c \in Caller, Call(c), NEW u \in Upload
    PROVE  Dwindles(u)
<1>1. CASE Scan(c) \/ ReadBytes(c) \/ Rotate(c) \/ DeleteRead(c) \/ DeleteBytes(c)
  BY <1>1 DEF Scan, ReadBytes, Rotate, DeleteRead, DeleteBytes, Dwindles
<1>2. CASE CleanForget(c)
  BY <1>2, SetTyped DEF CleanForget, Dwindles
<1>3. CASE ListElsewhere(c)
  BY <1>3, PurgeDoes DEF ListElsewhere, PurgeEffect, Dwindles
<1>4. CASE DeleteMark(c)
  <2>1. task[c].of \in Upload /\ Ended(task[c].of) /\ pc[c] = "mark"
    BY <1>4 DEF DeleteMark, CallersKnow
  <2>2. record'[u] = IF u = task[c].of THEN Tombstone(task[c].item) ELSE record[u]
    BY <1>4, <2>1, TombstoneTyped, WriteTyped DEF DeleteMark
  <2> QED
    BY <2>1, <2>2, TombstoneTyped DEF Dwindles
<1>5. CASE DeleteForget(c)
  <2>1. task[c].of \in Upload
    BY <1>5 DEF DeleteForget, CallersKnow
  <2> QED
    BY <1>5, <2>1, WriteTyped DEF DeleteForget, Dwindles
<1>6. ASSUME NEW v \in Upload, Clean(c, v) \/ FetchExpired(c, v) \/ DeleteStart(c, v)
      PROVE  Dwindles(u)
  BY <1>6 DEF Clean, FetchExpired, DeleteStart, Dwindles
<1>7. ASSUME NEW v \in Upload, Fetch(c, v)
      PROVE  Dwindles(u)
  BY <1>7, PurgeDoes DEF Fetch, PurgeEffect, Dwindles
<1>8. ASSUME NEW v \in Upload, DeleteElsewhere(c, v)
      PROVE  Dwindles(u)
  <2>1. record' = record \/ record' = [record EXCEPT ![v] = None]
    BY <1>8 DEF DeleteElsewhere
  <2>2. [record EXCEPT ![v] = None][u] \in {record[u], None}
    BY WriteTyped
  <2> QED
    BY <2>1, <2>2 DEF Dwindles
<1> QED
  BY <1>1, <1>2, <1>3, <1>4, <1>5, <1>6, <1>7, <1>8 DEF Call

LEMMA RecordsMove ==
    ASSUME TypeOK, CallersKnow, Next, NEW u \in Upload
    PROVE  Dwindles(u) \/ \E s \in Storer : WrittenBy(s, u)
<1>1. CASE Tick
  BY <1>1 DEF Tick, Dwindles
<1>2. ASSUME NEW s \in Storer, Crash(s) PROVE Dwindles(u)
  BY <1>2 DEF Crash, Dwindles
<1> QED
  BY <1>1, <1>2, StoreRecords, CallRecords DEF Next

LEMMA TimeMoves ==
    ASSUME TypeOK, Next
    PROVE  now' \in Nat /\ now <= now' /\ backend' = backend /\ (now' = now \/ Tick)
<1>1. CASE Tick
  BY <1>1 DEF Tick, TypeOK
<1>2. ASSUME NEW s \in Storer, Store(s) PROVE UNCHANGED <<backend, now>>
  <2>1. CASE Prepare(s) \/ Reject(s) \/ Reserve(s) \/ OverQuota(s) \/ Finalize(s) \/ FinalizeFails(s) \/ Forget(s)
    BY <2>1 DEF Prepare, Reject, Reserve, OverQuota, Finalize, FinalizeFails, Forget
  <2>2. CASE DiskOpen(s) \/ DiskCommit(s) \/ LocalStore(s)
    BY <2>2 DEF DiskOpen, DiskCommit, LocalStore
  <2>3. ASSUME NEW u \in Upload, Put(s, u) \/ PutFails(s, u) \/ Undo(s, u) PROVE UNCHANGED <<backend, now>>
    BY <2>3 DEF Put, PutFails, Undo
  <2> QED
    BY <1>2, <2>1, <2>2, <2>3 DEF Store
<1>3. ASSUME NEW c \in Caller, Call(c) PROVE UNCHANGED <<backend, now>>
  <2>1. CASE Scan(c) \/ CleanForget(c) \/ ListElsewhere(c) \/ ReadBytes(c) \/ Rotate(c)
    BY <2>1 DEF Scan, CleanForget, ListElsewhere, ReadBytes, Rotate
  <2>2. CASE DeleteRead(c) \/ DeleteMark(c) \/ DeleteBytes(c) \/ DeleteForget(c)
    BY <2>2 DEF DeleteRead, DeleteMark, DeleteBytes, DeleteForget
  <2>3. ASSUME NEW u \in Upload,
               Clean(c, u) \/ Fetch(c, u) \/ FetchExpired(c, u) \/ DeleteStart(c, u) \/ DeleteElsewhere(c, u)
        PROVE  UNCHANGED <<backend, now>>
    BY <2>3 DEF Clean, Fetch, FetchExpired, DeleteStart, DeleteElsewhere
  <2> QED
    BY <1>3, <2>1, <2>2, <2>3 DEF Call
<1>4. ASSUME NEW s \in Storer, Crash(s) PROVE UNCHANGED <<backend, now>>
  BY <1>4 DEF Crash
<1> QED
  BY <1>1, <1>2, <1>3, <1>4 DEF Next, TypeOK

\* What was withdrawn stays withdrawn.
LEMMA PastKept ==
    ASSUME TypeOK, CallersKnow, Next, NEW u \in Upload, Past(u)
    PROVE  Past(u)'
<1>1. Ended(u) /\ Ended(u)'
  BY EndedKept DEF Past
<1>2. Dwindles(u)
  <2>1. \A s \in Storer : ~WrittenBy(s, u)
    BY <1>1 DEF WrittenBy, Ended, Finished
  <2> QED
    BY <2>1, RecordsMove
<1>3. ASSUME Readable(u)'
      PROVE  FALSE
  <2>1. record'[u] # None /\ record'[u].status = "ready" /\ ~(record'[u].expires < now')
    BY <1>3 DEF Readable, Stale
  <2>2. record'[u] = record[u]
    BY <1>2, <2>1 DEF Dwindles
  <2>3. record[u].expires \in Nat /\ now \in Nat
    BY <2>1, <2>2, RecordTyped, WorldTyped
  <2>4. ~(record[u].expires < now)
    BY <2>1, <2>2, <2>3, TimeMoves
  <2>5. Readable(u)
    BY <2>1, <2>2, <2>4 DEF Readable, Stale
  <2> QED
    BY <2>5 DEF Past
<1> QED
  BY <1>1, <1>3 DEF Past

LEMMA ReadyIsEndedKept ==
    ASSUME TypeOK, ReadyIsEnded, CallersKnow, Next
    PROVE  ReadyIsEnded'
<1> SUFFICES ASSUME NEW u \in Upload, record'[u] # None
             PROVE  /\ record'[u].status = "staging" => backend' = "s3"
                    /\ record'[u].status # "staging" => Ended(u)'
  BY DEF ReadyIsEnded
<1>1. backend' = backend
  BY TimeMoves
<1>2. CASE record'[u] = record[u]
  BY <1>1, <1>2, EndedKept DEF ReadyIsEnded
<1>3. CASE record'[u].status = "deleting" /\ Ended(u)
  BY <1>3, EndedKept
<1>4. ASSUME NEW s \in Storer, WrittenBy(s, u), ~Ended(u)
      PROVE  /\ record'[u].status = "staging" => backend' = "s3"
             /\ record'[u].status # "staging" => Ended(u)'
  <2>1. CASE backend = "s3" /\ record'[u].status = "staging"
    BY <1>1, <2>1
  <2>2. CASE record'[u].status = "ready" /\ pc'[s] \in Finished
    <3>1. \A z \in Storer : u \in Batch[z] => z = s
      BY <1>4, UploadsAssumption DEF WrittenBy
    <3>2. Ended(u)'
      BY <2>2, <3>1 DEF Ended, Finished
    <3> QED
      BY <2>2, <3>2
  <2> QED
    BY <1>4, <2>1, <2>2 DEF WrittenBy
<1>5. CASE Ended(u)
  BY <1>1, <1>2, <1>3, <1>5, RecordsMove DEF Dwindles, WrittenBy, Ended, Finished
<1> QED
  BY <1>2, <1>3, <1>4, <1>5, RecordsMove DEF Dwindles

\* What the callers know of the upload they are about stays true.
LEMMA CallersKnowKept ==
    ASSUME TypeOK, ReadyIsEnded, CallersKnow, Next
    PROVE  CallersKnow'
<1> DEFINE About == {"read", "rotate", "delete", "mark", "unlink", "forget"}
           Knows(c) == pc[c] \in About =>
              /\ task[c].of \in Upload /\ Ended(task[c].of)
              /\ pc[c] = "mark" => task[c].item # None
              /\ pc[c] \in {"unlink", "forget"} => ~Readable(task[c].of)
<1>1. ASSUME NEW c \in Caller, pc'[c] = pc[c] /\ task'[c] = task[c]
      PROVE  Knows(c)'
  <2> SUFFICES ASSUME pc[c] \in About
               PROVE  Knows(c)'
    BY <1>1
  <2>1. PICK u \in Upload :
            /\ u = task[c].of /\ Ended(u)
            /\ pc[c] = "mark" => task[c].item # None
            /\ pc[c] \in {"unlink", "forget"} => ~Readable(u)
    BY DEF CallersKnow
  <2>2. Ended(u)' /\ (pc[c] \in {"unlink", "forget"} => ~Readable(u)')
    BY <2>1, EndedKept, PastKept DEF Past
  <2> QED
    BY <1>1, <2>1, <2>2 DEF Ended, Readable, Stale
<1>2. ASSUME NEW c \in Caller, Call(c)
      PROVE  Knows(c)'
  <2> DEFINE of == task[c].of
  <2>0. /\ c \in Thread /\ \A where \in CallerPC : Legal(c, where)
        /\ {"done", "rotate", "unlink", "forget"} \subseteq CallerPC
        /\ {"done", "clean"} \cap About = {}
    BY Threads DEF Legal, CallerPC
  <2>1. CASE pc'[c] \in {"done", "clean"}
    BY <2>0, <2>1
  <2>2. ASSUME NEW u \in Upload, Fetch(c, u) \/ FetchExpired(c, u) \/ DeleteStart(c, u)
        PROVE  Knows(c)'
    <3>1. pc'[c] \in {"read", "delete"} /\ task'[c].of = u
      BY <2>2, PickDoes DEF Fetch, FetchExpired, DeleteStart
    <3>2. Ended(u)
      BY <2>2 DEF Fetch, FetchExpired, DeleteStart, Stale, ReadyIsEnded
    <3>3. Ended(u)'
      BY <3>2, EndedKept
    <3> QED
      BY <3>1, <3>3 DEF Ended
  <2>3. CASE ReadBytes(c) \/ DeleteRead(c) \/ DeleteMark(c) \/ DeleteBytes(c)
    <3>1. PICK u \in Upload :
              /\ u = task[c].of /\ Ended(u)
              /\ pc[c] \in {"unlink", "forget"} => ~Readable(u)
      BY <2>3 DEF ReadBytes, DeleteRead, DeleteMark, DeleteBytes, CallersKnow
    <3>2. Ended(u)' /\ (pc[c] \in {"unlink", "forget"} => ~Readable(u)')
      BY <3>1, EndedKept, PastKept DEF Past
    <3>3. CASE ReadBytes(c)
      BY <2>0, <2>1, <3>1, <3>2, <3>3, EndDoes, GotoKeeps DEF ReadBytes, Ends, At, Ended
    <3>4. CASE DeleteRead(c)
      BY <2>0, <2>1, <3>1, <3>2, <3>4, DeleteReadDoes DEF Ends, Ended
    <3>5. CASE DeleteMark(c)
      <4>1. pc[c] = "mark" /\ pc'[c] = "unlink" /\ task'[c].of = u
        BY <2>0, <3>1, <3>5, GotoKeeps DEF DeleteMark, At
      <4>2. record'[u] = Tombstone(task[c].item) /\ record'[u].status = "deleting"
        BY <3>1, <3>5, <4>1, TombstoneTyped, WriteTyped DEF DeleteMark
      <4>3. ~Readable(u)'
        BY <4>2 DEF Readable
      <4> QED
        BY <3>1, <3>2, <4>1, <4>3 DEF Ended, Readable, Stale
    <3>6. CASE DeleteBytes(c)
      <4>1. pc[c] = "unlink" /\ (pc'[c] = "done" \/ (pc'[c] = "forget" /\ task'[c].of = u))
        BY <2>0, <3>1, <3>6, EndDoes, GotoKeeps DEF DeleteBytes, Ends, At
      <4> QED
        BY <2>1, <3>1, <3>2, <4>1 DEF Ended, Readable, Stale
    <3> QED
      BY <2>3, <3>3, <3>4, <3>5, <3>6
  <2>4. CASE Scan(c) \/ CleanForget(c) \/ ListElsewhere(c) \/ Rotate(c) \/ DeleteForget(c)
    BY <2>0, <2>1, <2>4, ScanDoes, EndDoes DEF CleanForget, ListElsewhere, Rotate, DeleteForget, Ends
  <2>5. ASSUME NEW u \in Upload, Clean(c, u)
        PROVE  Knows(c)'
    <3>1. pc'[c] \in {"clean", "done"}
      BY <2>0, <2>5, TickedOff, EndDoes DEF Clean, Ends
    <3> QED
      BY <2>1, <3>1
  <2>6. ASSUME NEW u \in Upload, DeleteElsewhere(c, u)
        PROVE  Knows(c)'
    BY <2>0, <2>1, <2>6, EndDoes DEF DeleteElsewhere, Ends
  <2> QED
    BY <1>2, <2>2, <2>3, <2>4, <2>5, <2>6 DEF Call
<1> SUFFICES ASSUME NEW c \in Caller
             PROVE  Knows(c)'
  BY DEF CallersKnow
<1>3. CASE Tick
  BY <1>1, <1>3 DEF Tick
<1>4. ASSUME NEW s \in Storer, Store(s) \/ Crash(s) PROVE Knows(c)'
  <2>1. pc'[c] = pc[c] /\ task'[c] = task[c]
    BY <1>4, Threads, StoreMoves, CrashMoves DEF Still
  <2> QED
    BY <1>1, <2>1
<1>5. ASSUME NEW d \in Caller, Call(d) PROVE Knows(c)'
  <2>1. d # c => pc'[c] = pc[c] /\ task'[c] = task[c]
    BY <1>5, Threads, CallMoves DEF Still
  <2> QED
    BY <1>1, <1>2, <1>5, <2>1
<1> QED
  BY <1>3, <1>4, <1>5 DEF Next

\* Who is told that an upload is deleted.
LEMMA RetiredKept ==
    ASSUME TypeOK, DeletionInv, Next
    PROVE  RetiredIsPast'
<1> SUFFICES ASSUME NEW u \in retired'
             PROVE  Past(u)'
  BY DEF RetiredIsPast
<1>1. ReadyIsEnded /\ CallersKnow
  BY DEF DeletionInv
<1>2. CASE u \in retired
  BY <1>1, <1>2, PastKept, WorldTyped DEF DeletionInv, RetiredIsPast
<1>3. CASE u \in Upload /\ Ended(u) /\ record'[u] = None
  BY <1>1, <1>3, EndedKept DEF Past, Readable
<1>4. ASSUME NEW c \in Caller, DeleteForget(c)
      PROVE  Past(u)'
  <2>1. task[c].of \in Upload /\ Ended(task[c].of)
    BY <1>1, <1>4 DEF DeleteForget, CallersKnow
  <2>2. u # task[c].of => u \in retired
    BY <1>4 DEF DeleteForget
  <2>3. record'[task[c].of] = None
    BY <1>4, <2>1, WriteTyped DEF DeleteForget
  <2> QED
    BY <1>2, <1>3, <2>1, <2>2, <2>3
<1>5. ASSUME NEW c \in Caller, NEW v \in Upload, DeleteElsewhere(c, v)
      PROVE  Past(u)'
  <2>1. u \in retired \/ (u = v /\ record' = [record EXCEPT ![v] = None])
    BY <1>5 DEF DeleteElsewhere
  <2>2. [record EXCEPT ![v] = None][v] = None
    BY RecordTyped
  <2>3. Ended(v)
    BY <1>1, <1>5 DEF DeleteElsewhere, ReadyIsEnded
  <2> QED
    BY <1>2, <1>3, <2>1, <2>2, <2>3
<1>6. CASE Tick
  BY <1>2, <1>6 DEF Tick
<1>7. ASSUME NEW s \in Storer, Store(s)
      PROVE  Past(u)'
  <2>1. CASE Prepare(s) \/ Reject(s) \/ Reserve(s) \/ OverQuota(s) \/ Finalize(s) \/ FinalizeFails(s) \/ Forget(s)
    BY <1>2, <2>1 DEF Prepare, Reject, Reserve, OverQuota, Finalize, FinalizeFails, Forget
  <2>2. CASE DiskOpen(s) \/ DiskCommit(s) \/ LocalStore(s)
    BY <1>2, <2>2 DEF DiskOpen, DiskCommit, LocalStore
  <2>3. ASSUME NEW v \in Upload, Put(s, v) \/ PutFails(s, v) \/ Undo(s, v)
        PROVE  Past(u)'
    BY <1>2, <2>3 DEF Put, PutFails, Undo
  <2> QED
    BY <1>7, <2>1, <2>2, <2>3 DEF Store
<1>8. ASSUME NEW c \in Caller, Call(c)
      PROVE  Past(u)'
  <2>1. CASE Scan(c) \/ CleanForget(c) \/ ListElsewhere(c) \/ ReadBytes(c) \/ Rotate(c)
    BY <1>2, <2>1 DEF Scan, CleanForget, ListElsewhere, ReadBytes, Rotate
  <2>2. CASE DeleteRead(c) \/ DeleteMark(c) \/ DeleteBytes(c)
    BY <1>2, <2>2 DEF DeleteRead, DeleteMark, DeleteBytes
  <2>3. ASSUME NEW v \in Upload, Clean(c, v) \/ Fetch(c, v) \/ FetchExpired(c, v) \/ DeleteStart(c, v)
        PROVE  Past(u)'
    BY <1>2, <2>3 DEF Clean, Fetch, FetchExpired, DeleteStart
  <2> QED
    BY <1>4, <1>5, <1>8, <2>1, <2>2, <2>3 DEF Call
<1>9. ASSUME NEW s \in Storer, Crash(s)
      PROVE  Past(u)'
  BY <1>2, <1>9 DEF Crash
<1> QED
  BY <1>6, <1>7, <1>8, <1>9 DEF Next

LEMMA InitDeletion == Init => TypeOK /\ DeletionInv
<1> SUFFICES ASSUME Init
             PROVE  TypeOK /\ DeletionInv
  OBVIOUS
<1>1. /\ \A s \in Storer : s \in Thread /\ pc[s] = "idle"
      /\ \A c \in Caller : c \in Thread /\ pc[c] = "idle"
  BY Threads DEF Init
<1>2. CallsTyped
  BY <1>1, BlankTyped DEF Init, CallsTyped, StorerPC, CallerPC
<1>3. TypeOK
  BY <1>2 DEF Init, CallsTyped, TypeOK
<1>4. DeletionInv
  BY <1>1 DEF Init, DeletionInv, ReadyIsEnded, CallersKnow, RetiredIsPast
<1> QED
  BY <1>3, <1>4

LEMMA StutterDeletion == TypeOK /\ DeletionInv /\ UNCHANGED vars => (TypeOK /\ DeletionInv)'
BY DEF vars, TypeOK, DeletionInv, ReadyIsEnded, CallersKnow, RetiredIsPast, Past, Ended, Readable, Stale

LEMMA StepDeletion == TypeOK /\ DeletionInv /\ [Next]_vars => (TypeOK /\ DeletionInv)'
BY TypeStep, ReadyIsEndedKept, CallersKnowKept, RetiredKept, StutterDeletion DEF DeletionInv

\* An upload that a caller was told is deleted is never offered again, on any of
\* the backends, whatever stalls, fails or crashes.
THEOREM DeletedUploadsStayDeleted == Spec => []DeletedStaysDeleted
<1>1. DeletionInv => DeletedStaysDeleted
  BY DEF DeletionInv, RetiredIsPast, Past, DeletedStaysDeleted
<1> QED
  BY InitDeletion, StepDeletion, <1>1, PTL DEF Spec

(***************************************************************************)
(* What a step does to an upload that is not being stored by it.           *)
(***************************************************************************)
Settled(u) == \A s \in Storer : u \in Batch[s] => pc[s] \in {"stored", "failed"}
Undoing(u) == \E s \in Storer : u \in Batch[s] /\ pc[s] = "undo"
StaysTorn(u) == u \in torn => u \in torn'

Untouched(u) == record'[u] = record[u] /\ blob'[u] = blob[u] /\ StaysTorn(u)
Swept(u) == record'[u] = None /\ blob'[u] = None /\ Settled(u)
Dropped(u) == record'[u] = None /\ blob'[u] = blob[u] /\ Bare(u)' /\ Ended(u)
Marked(u) ==
    /\ record'[u] # None /\ record'[u].status = "deleting"
    /\ blob'[u] = blob[u] /\ StaysTorn(u) /\ Ended(u)
Unlinked(u) ==
    /\ record'[u] = record[u] /\ blob'[u] = None /\ StaysTorn(u) /\ Ended(u)
    /\ Past(u) \/ u \in torn' \/ Undoing(u)
Rewritten(u) ==
    /\ record'[u] = record[u] /\ blob'[u] # None /\ StaysTorn(u) /\ Ended(u)
    /\ (blob[u] # None /\ record[u] # None) \/ u \in torn'

Outside(u) ==
    Untouched(u) \/ Swept(u) \/ Dropped(u) \/ Marked(u) \/ Unlinked(u) \/ Rewritten(u)

LEMMA GoodParts ==
    ASSUME Good
    PROVE  /\ TypeOK /\ ReadyIsEnded /\ CallersKnow /\ RetiredIsPast
           /\ StoringInTime /\ NothingYet /\ Reserved /\ Locked /\ RowsLinger /\ Written
           /\ CleanersKnow /\ StoredCanBeRead /\ BytesAreLed /\ QuotaHolds
BY DEF Good, DeletionInv, UploadInv

LEMMA OneBatch ==
    ASSUME NEW s \in Storer, NEW z \in Storer, NEW u \in Batch[s], u \in Batch[z]
    PROVE  s = z
BY UploadsAssumption

\* A staged record of a call that is still storing is neither stale nor dropped.
LEMMA StagedIsFresh ==
    ASSUME Good, backend = "s3", NEW s \in Storer, pc[s] = "put", NEW u \in Batch[s]
    PROVE  record[u] # None /\ record[u].status = "staging" /\ u \notin Stale(now)
<1>1. /\ record[u] = Meta("staging", task[s].at + StagedFor)
      /\ task[s].at <= now /\ now <= task[s].at + StagedFor
  BY GoodParts DEF Reserved, StoringInTime, Storing
<1>2. task[s].at + StagedFor \in Nat /\ now \in Nat
  BY GoodParts, Threads, NoteTyped, LifeOfStaged, WorldTyped
<1> QED
  BY <1>1, <1>2, MetaTyped, StatusNames DEF Stale

\* What a cleanup finds stale or marked is not being stored any more.
LEMMA StaleIsPast ==
    ASSUME Good, NEW u \in Upload, record[u] # None,
           u \in Stale(now) \/ record[u].status = "deleting"
    PROVE  Past(u)
<1>1. Ended(u)
  <2> SUFFICES ASSUME NEW s \in Storer, u \in Batch[s]
               PROVE  pc[s] \in {"undo", "stored", "failed"}
    BY DEF Ended
  <2>1. pc[s] \in StorerPC /\ pc[s] \notin {"idle", "prepared"}
    BY GoodParts DEF TypeOK, NothingYet
  <2>2. CASE record[u].status # "staging"
    BY <2>2, GoodParts DEF ReadyIsEnded, Ended
  <2>3. CASE record[u].status = "staging"
    <3>1. backend = "s3" /\ u \in Stale(now)
      BY <2>3, GoodParts DEF ReadyIsEnded
    <3> QED
      BY <2>1, <3>1, StagedIsFresh DEF StorerPC
  <2> QED
    BY <2>2, <2>3
<1> QED
  BY <1>1 DEF Past, Readable

\* While no call has the lock of the disk store, none is at work there.
LEMMA NobodyStores ==
    ASSUME Good, NEW u \in Upload, Ended(u), backend = "local" \/ (backend = "disk" /\ lock = None)
    PROVE  Settled(u)
<1> SUFFICES ASSUME NEW s \in Storer, u \in Batch[s]
             PROVE  pc[s] \in {"stored", "failed"}
  BY DEF Settled
<1>1. pc[s] # "undo"
  BY GoodParts, NoneIsNothing DEF Locked
<1> QED
  BY <1>1 DEF Ended

\* What is stale as of an earlier time is stale now.
LEMMA StaleLater ==
    ASSUME TypeOK, NEW t \in Nat, t <= now, NEW u \in Stale(t)
    PROVE  u \in Upload /\ record[u] # None /\ u \in Stale(now)
<1>1. u \in Upload /\ record[u] # None /\ record[u].expires < t
  BY DEF Stale
<1>2. record[u].expires \in Nat /\ now \in Nat
  BY <1>1, RecordTyped, WorldTyped
<1>3. record[u].expires < now
  BY <1>1, <1>2
<1> QED
  BY <1>1, <1>3 DEF Stale

\* A file without a row that a cleanup finds is of a call that is over.
LEMMA OrphanSettled ==
    ASSUME Good, NEW u \in Upload, record[u] = None, blob[u] # None,
           backend = "local" \/ (backend = "disk" /\ lock = None)
    PROVE  Settled(u)
<1>1. Ended(u)
  <2> SUFFICES ASSUME NEW s \in Storer, u \in Batch[s]
               PROVE  pc[s] \in {"undo", "stored", "failed"}
    BY DEF Ended
  <2>1. pc[s] \in StorerPC /\ pc[s] \notin {"idle", "prepared"} /\ pc[s] # "put"
    BY GoodParts, NoneIsNothing DEF TypeOK, NothingYet, Locked
  <2> QED
    BY <2>1 DEF StorerPC
<1> QED
  BY <1>1, NobodyStores

LEMMA SweepOutside ==
    ASSUME Good, NEW t \in Nat, t <= now, NEW u \in Upload, SweepEffect(t), UNCHANGED record,
           backend = "local" \/ (backend = "disk" /\ lock = None)
    PROVE  Outside(u)
<1>1. CASE blob'[u] = blob[u] /\ StaysTorn(u)
  BY <1>1 DEF Outside, Untouched
<1>2. CASE record[u] # None /\ (blob'[u] # blob[u] \/ ~StaysTorn(u))
  <2>1. u \in Stale(t) /\ blob'[u] = None /\ StaysTorn(u)
    BY <1>2 DEF SweepEffect, StaysTorn
  <2>2. Past(u) /\ Ended(u)
    BY <1>2, <2>1, GoodParts, StaleLater, StaleIsPast DEF Past
  <2> QED
    BY <2>1, <2>2 DEF Outside, Unlinked
<1>3. CASE record[u] = None /\ (blob'[u] # blob[u] \/ ~StaysTorn(u))
  <2>1. blob'[u] = None /\ blob[u] # None
    BY <1>3 DEF SweepEffect, StaysTorn
  <2> QED
    BY <1>3, <2>1, OrphanSettled DEF Outside, Swept
<1> QED
  BY <1>1, <1>2, <1>3

LEMMA PurgeOutside ==
    ASSUME Good, NEW t \in Nat, t <= now, NEW u \in Upload, PurgeEffect(t),
           backend = "local" \/ (backend = "disk" /\ lock = None)
    PROVE  Outside(u)
<1>1. CASE u \in Stale(t)
  <2>1. Settled(u)
    BY <1>1, GoodParts, StaleLater, StaleIsPast, NobodyStores DEF Past
  <2> QED
    BY <1>1, <2>1 DEF PurgeEffect, SweepEffect, Outside, Swept
<1>2. CASE u \notin Stale(t) /\ blob'[u] = blob[u] /\ StaysTorn(u)
  BY <1>2 DEF PurgeEffect, Outside, Untouched
<1>3. CASE u \notin Stale(t) /\ (blob'[u] # blob[u] \/ ~StaysTorn(u))
  <2>1. blob'[u] = None /\ blob[u] # None /\ record[u] = None /\ record'[u] = None
    BY <1>3 DEF PurgeEffect, SweepEffect, StaysTorn
  <2> QED
    BY <2>1, OrphanSettled DEF Outside, Swept
<1> QED
  BY <1>1, <1>2, <1>3


\* A storing call leaves the uploads of others alone, and has begun with its own
\* when it writes them.
LEMMA StoreOutside ==
    ASSUME Good, NEW s \in Storer, Store(s), NEW u \in Upload
    PROVE  Outside(u) \/ (u \in Batch[s] /\ pc[s] \in {"prepared", "put"})
<1> SUFFICES ASSUME u \notin Batch[s] \/ pc[s] = "undo"
             PROVE  Outside(u)
  <2>1. CASE u \notin Batch[s] \/ pc[s] = "undo"
    BY <2>1
  <2>2. CASE pc[s] = "idle"
    <3>1. Prepare(s)
      BY <2>2 DEF Store, Prepare, Reject, Reserve, OverQuota, Finalize, FinalizeFails, Forget,
                  DiskOpen, DiskCommit, LocalStore, Put, PutFails, Undo
    <3> QED
      BY <3>1 DEF Prepare, Outside, Untouched, StaysTorn
  <2>3. pc[s] \in {"idle", "prepared", "put", "undo"}
    BY DEF Store, Prepare, Reject, Reserve, OverQuota, Finalize, FinalizeFails, Forget,
           DiskOpen, DiskCommit, LocalStore, Put, PutFails, Undo
  <2> QED
    BY <2>1, <2>2, <2>3
<1>0. TypeOK /\ Written /\ Locked
  BY GoodParts
<1>1. CASE Prepare(s) \/ Reject(s) \/ OverQuota(s)
  BY <1>1 DEF Prepare, Reject, OverQuota, Outside, Untouched, StaysTorn
<1>2. CASE Reserve(s)
  BY <1>0, <1>2, SetDoes, RecordTyped DEF Reserve, Outside, Untouched, StaysTorn
<1>3. CASE Finalize(s) \/ FinalizeFails(s)
  BY <1>0, <1>3, SetDoes, RecordTyped DEF Finalize, FinalizeFails, Finalized, Outside, Untouched, StaysTorn
<1>4. CASE Forget(s)
  <2>1. u \in Batch[s] => Bare(u) /\ Ended(u)
    BY <1>0, <1>4, OneBatch DEF Forget, Written, Ended
  <2>2. record'[u] = record[u] \/ (record'[u] = None /\ u \in Batch[s])
    BY <1>0, <1>4, SetTyped DEF Forget
  <2> QED
    BY <1>4, <2>1, <2>2 DEF Forget, Outside, Untouched, Dropped, StaysTorn, Bare
<1>5. CASE DiskOpen(s)
  <2>1. task[s].at \in Nat /\ task[s].at <= now
    BY <1>5, Threads, NoteTyped, GoodParts DEF DiskOpen, StoringInTime, Storing
  <2> QED
    BY <1>0, <1>5, <2>1, SweepDoes, SweepOutside DEF DiskOpen
<1>6. CASE DiskCommit(s)
  <2>1. /\ u \notin Batch[s] /\ blob' = blob /\ StaysTorn(u)
        /\ pc[s] = "put" /\ pc[s] \in Storing /\ backend = "disk"
    BY <1>6 DEF DiskCommit, StaysTorn, Storing
  <2>2. CASE UNCHANGED record
    BY <2>1, <2>2 DEF Outside, Untouched
  <2>3. CASE record' # record
    <3>1. task[s].at \in Nat /\ task[s].at <= now /\ Meta("ready", task[s].at + TTL) \in Metas
      BY <1>0, <2>1, Threads, NoteTyped, LifeOfStaged, MetaTyped, StatusNames, GoodParts DEF StoringInTime
    <3>2. record'[u] = IF u \in Stale(task[s].at) THEN None ELSE record[u]
      BY <1>0, <1>6, <2>1, <2>3, <3>1, CommitDoes DEF DiskCommit
    <3>3. CASE u \notin Stale(task[s].at)
      BY <2>1, <3>2, <3>3 DEF Outside, Untouched
    <3>4. CASE u \in Stale(task[s].at)
      <4>1. Bare(u) /\ Ended(u)
        BY <1>0, <2>1, <3>1, <3>4, GoodParts, StaleLater, StaleIsPast DEF RowsLinger, Past
      <4> QED
        BY <2>1, <3>2, <3>4, <4>1 DEF Outside, Dropped, Bare, StaysTorn
    <3> QED
      BY <3>3, <3>4
  <2> QED
    BY <2>2, <2>3
<1>7. CASE LocalStore(s)
  <2>1. u \notin Batch[s]
    BY <1>7 DEF LocalStore
  <2>2. \/ record'[u] = record[u] /\ blob'[u] = blob[u]
        \/ u \in Stale(now) /\ record'[u] = None /\ blob'[u] = None
    BY <1>0, <1>7, <2>1, SetDoes, RecordTyped DEF LocalStore
  <2>3. u \in Stale(now) => Settled(u)
    BY <1>7, StaleIsPast, NobodyStores DEF LocalStore, Past, Stale
  <2> QED
    BY <1>7, <2>2, <2>3 DEF LocalStore, Outside, Untouched, Swept, StaysTorn
<1>8. ASSUME NEW v \in Upload, Put(s, v) \/ PutFails(s, v)
      PROVE  Outside(u)
  <2>1. v \in Batch[s] /\ u # v
    BY <1>0, <1>8 DEF Put, PutFails, Written
  <2> QED
    BY <1>0, <1>8, <2>1, RecordTyped DEF Put, PutFails, Outside, Untouched, StaysTorn
<1>9. ASSUME NEW v \in Upload, Undo(s, v)
      PROVE  Outside(u)
  <2>1. v \in Batch[s] /\ pc[s] = "undo" /\ Undoing(v) /\ Ended(v)
    BY <1>0, <1>9, OneBatch DEF Undo, Written, Undoing, Ended
  <2>2. CASE blob' = [blob EXCEPT ![v] = None] /\ UNCHANGED torn
    BY <1>0, <1>9, <2>1, <2>2, RecordTyped DEF Undo, Outside, Untouched, Unlinked, StaysTorn
  <2>3. CASE UNCHANGED blob
    BY <1>9, <2>3 DEF Undo, Outside, Untouched, StaysTorn
  <2> QED
    BY <1>9, <2>2, <2>3 DEF Undo
<1> QED
  BY <1>1, <1>2, <1>3, <1>4, <1>5, <1>6, <1>7, <1>8, <1>9 DEF Store

LEMMA CallOutside ==
    ASSUME Good, NEW c \in Caller, Call(c), NEW u \in Upload
    PROVE  Outside(u)
<1> DEFINE of == task[c].of
<1>0. TypeOK /\ ReadyIsEnded /\ CallersKnow /\ CleanersKnow /\ now \in Nat
  BY GoodParts, WorldTyped
<1>1. CASE Scan(c) \/ ReadBytes(c) \/ DeleteRead(c)
  BY <1>1 DEF Scan, ReadBytes, DeleteRead, Outside, Untouched, StaysTorn
<1>2. CASE CleanForget(c)
  <2>1. u \in task[c].done => Bare(u) /\ Ended(u)
    BY <1>0, <1>2 DEF CleanForget, CleanersKnow, Past
  <2>2. record'[u] = IF u \in task[c].done THEN None ELSE record[u]
    BY <1>0, <1>2, SetTyped DEF CleanForget
  <2> QED
    BY <1>2, <2>1, <2>2 DEF CleanForget, Outside, Untouched, Dropped, StaysTorn, Bare
<1>3. CASE ListElsewhere(c)
  <2>1. backend = "local" \/ (backend = "disk" /\ lock = None)
    BY <1>0, <1>3, UploadsAssumption DEF ListElsewhere, TypeOK
  <2> QED
    BY <1>0, <1>3, <2>1, PurgeDoes, PurgeOutside DEF ListElsewhere
<1>4. CASE Rotate(c)
  <2>1. of \in Upload /\ Ended(of) /\ now # None
    BY <1>0, <1>4, NoneIsNothing DEF Rotate, CallersKnow
  <2> QED
    BY <1>0, <1>4, <2>1, RecordTyped DEF Rotate, Outside, Untouched, Rewritten, StaysTorn
<1>5. CASE DeleteMark(c)
  <2>1. of \in Upload /\ Ended(of) /\ pc[c] = "mark"
    BY <1>0, <1>5 DEF DeleteMark, CallersKnow
  <2>2. record'[u] = IF u = of THEN Tombstone(task[c].item) ELSE record[u]
    BY <1>0, <1>5, <2>1, RecordTyped DEF DeleteMark
  <2> QED
    BY <1>0, <1>5, <2>1, <2>2, TombstoneTyped DEF DeleteMark, Outside, Untouched, Marked, StaysTorn
<1>6. CASE DeleteBytes(c)
  <2>1. of \in Upload /\ Past(of)
    BY <1>0, <1>6 DEF DeleteBytes, CallersKnow, Past
  <2> QED
    BY <1>0, <1>6, <2>1, RecordTyped DEF DeleteBytes, Outside, Untouched, Unlinked, StaysTorn, Past
<1>7. CASE DeleteForget(c)
  <2>1. of \in Upload /\ Ended(of) /\ Bare(of)
    BY <1>0, <1>7 DEF DeleteForget, CallersKnow, CleanersKnow
  <2> QED
    BY <1>0, <1>7, <2>1, RecordTyped DEF DeleteForget, Outside, Untouched, Dropped, StaysTorn, Bare
<1>8. ASSUME NEW v \in Upload, Clean(c, v)
      PROVE  Outside(u)
  <2>1. Past(v)
    BY <1>0, <1>8 DEF Clean, CleanersKnow
  <2> QED
    BY <1>0, <1>8, <2>1, RecordTyped DEF Clean, Outside, Untouched, Unlinked, StaysTorn, Past
<1>9. ASSUME NEW v \in Upload, Fetch(c, v)
      PROVE  Outside(u)
  BY <1>0, <1>9, PurgeDoes, PurgeOutside DEF Fetch, Outside, Untouched, StaysTorn
<1>10. ASSUME NEW v \in Upload, FetchExpired(c, v) \/ DeleteStart(c, v)
       PROVE  Outside(u)
  BY <1>10 DEF FetchExpired, DeleteStart, Outside, Untouched, StaysTorn
<1>11. ASSUME NEW v \in Upload, DeleteElsewhere(c, v)
       PROVE  Outside(u)
  <2>1. Ended(v)
    BY <1>0, <1>11 DEF DeleteElsewhere, ReadyIsEnded
  <2>2. Settled(v)
    BY <1>11, <2>1, NobodyStores, GoodParts, UploadsAssumption DEF DeleteElsewhere, TypeOK
  <2>3. blob'[u] = IF u = v THEN None ELSE blob[u]
    BY <1>0, <1>11, RecordTyped DEF DeleteElsewhere
  <2>4. CASE record' = [record EXCEPT ![v] = None] /\ UNCHANGED torn
    BY <1>0, <2>2, <2>3, <2>4, RecordTyped DEF Outside, Untouched, Swept, StaysTorn
  <2>5. CASE UNCHANGED record /\ torn' = torn \cup {v}
    BY <2>1, <2>3, <2>5 DEF Outside, Untouched, Unlinked, StaysTorn
  <2> QED
    BY <1>11, <2>4, <2>5 DEF DeleteElsewhere
<1> QED
  BY <1>1, <1>2, <1>3, <1>4, <1>5, <1>6, <1>7, <1>8, <1>9, <1>10, <1>11 DEF Call


LEMMA TickOutside ==
    ASSUME Good, ~MayStall, Tick, NEW u \in Upload
    PROVE  Outside(u)
<1>1. CASE record' = record /\ torn' = torn
  BY <1>1 DEF Tick, Outside, Untouched, StaysTorn
<1>2. CASE backend = "s3" /\ now + 1 >= hashEnd /\ record'[u] = None
           /\ (blob[u] # None => u \in torn') /\ torn \subseteq torn'
  <2>1. CASE record[u] = None
    BY <1>2, <2>1 DEF Tick, Outside, Untouched, StaysTorn
  <2>2. CASE record[u] # None
    <3>1. Ended(u)
      <4> SUFFICES ASSUME NEW s \in Storer, u \in Batch[s], pc[s] \notin {"undo", "stored", "failed"}
                   PROVE  FALSE
        BY DEF Ended
      <4>1. pc[s] = "put"
        BY <2>2, GoodParts DEF TypeOK, StorerPC, NothingYet
      <4>2. hashEnd > task[s].at + StagedFor \/ hashEnd > MaxTime
        BY <1>2, <4>1, GoodParts DEF Reserved
      <4>3. now < MaxTime /\ now < task[s].at + StagedFor
        BY <4>1 DEF Tick, InTime, Storing
      <4>4. /\ now \in Nat /\ hashEnd \in Nat /\ MaxTime \in Nat
            /\ task[s].at \in Nat /\ StagedFor \in Nat
        BY GoodParts, Threads, NoteTyped, WorldTyped, LifeOfStaged
      <4> QED
        BY <1>2, <4>2, <4>3, <4>4
    <3> QED
      BY <1>2, <3>1 DEF Tick, Outside, Dropped, Bare
  <2> QED
    BY <2>1, <2>2
<1> QED
  BY <1>1, <1>2 DEF Tick

LEMMA CrashOutside ==
    ASSUME NEW s \in Storer, Crash(s), NEW u \in Upload
    PROVE  Outside(u)
BY DEF Crash, Outside, Untouched, StaysTorn

\* Bytes that are gone, or known to be out of step, stay so once their call is over.
LEMMA BareKept ==
    ASSUME NEW u \in Upload, Outside(u), Bare(u)
    PROVE  Bare(u)'
BY DEF Outside, Untouched, Swept, Dropped, Marked, Unlinked, Rewritten, StaysTorn, Bare

\* An upload whose call is still at work is left alone by everybody else.
LEMMA WorkIsLeftAlone ==
    ASSUME NEW s \in Storer, NEW u \in Batch[s], pc[s] \in {"idle", "prepared", "put"}, Outside(u)
    PROVE  Untouched(u)
BY DEF Outside, Swept, Settled, Dropped, Marked, Unlinked, Rewritten, Ended

\* Whose step it is.
LEMMA WhoMoves ==
    ASSUME Good, ~MayStall, Next, NEW s \in Storer
    PROVE  \/ Store(s) \/ Crash(s)
           \/ /\ pc'[s] = pc[s] /\ task'[s] = task[s]
              /\ \A u \in Batch[s] : Outside(u)
<1>0. TypeOK /\ CallersKnow /\ Batch[s] \subseteq Upload
  BY GoodParts, WorldTyped
<1>1. CASE Tick
  BY <1>0, <1>1, TickOutside DEF Tick
<1>2. ASSUME NEW z \in Storer, Store(z), z # s
      PROVE  pc'[s] = pc[s] /\ task'[s] = task[s] /\ \A u \in Batch[s] : Outside(u)
  BY <1>0, <1>2, Threads, StoreMoves, StoreOutside, OneBatch DEF Still
<1>3. ASSUME NEW c \in Caller, Call(c)
      PROVE  pc'[s] = pc[s] /\ task'[s] = task[s] /\ \A u \in Batch[s] : Outside(u)
  BY <1>0, <1>3, Threads, CallMoves, CallOutside DEF Still
<1>4. ASSUME NEW z \in Storer, Crash(z), z # s
      PROVE  pc'[s] = pc[s] /\ task'[s] = task[s] /\ \A u \in Batch[s] : Outside(u)
  BY <1>0, <1>4, Threads, CrashMoves, CrashOutside DEF Still
<1> QED
  BY <1>1, <1>2, <1>3, <1>4 DEF Next

(***************************************************************************)
(* The parts of the invariant.                                             *)
(***************************************************************************)
\* Where a step takes a storing call.
LEMMA StoreArrives ==
    ASSUME TypeOK, NEW s \in Storer, Store(s)
    PROVE  \/ Prepare(s) /\ pc'[s] = "prepared"
           \/ /\ pc'[s] = "put" /\ task'[s] = task[s]
              /\ Reserve(s) \/ (DiskOpen(s) /\ Fits(task[s].at, s) /\ lock' = s)
           \/ pc'[s] = "put" /\ \E u \in Upload : Put(s, u)
           \/ /\ pc'[s] = "undo" /\ task'[s] = task[s]
              /\ FinalizeFails(s) \/ \E u \in Upload : PutFails(s, u)
           \/ pc'[s] = "undo" /\ \E u \in Upload : Undo(s, u)
           \/ pc'[s] = "stored" /\ (Finalize(s) \/ DiskCommit(s) \/ LocalStore(s))
           \/ pc'[s] = "failed"
<1> DEFINE Goal ==
           \/ Prepare(s) /\ pc'[s] = "prepared"
           \/ /\ pc'[s] = "put" /\ task'[s] = task[s]
              /\ Reserve(s) \/ (DiskOpen(s) /\ Fits(task[s].at, s) /\ lock' = s)
           \/ pc'[s] = "put" /\ \E u \in Upload : Put(s, u)
           \/ /\ pc'[s] = "undo" /\ task'[s] = task[s]
              /\ FinalizeFails(s) \/ \E u \in Upload : PutFails(s, u)
           \/ pc'[s] = "undo" /\ \E u \in Upload : Undo(s, u)
           \/ pc'[s] = "stored" /\ (Finalize(s) \/ DiskCommit(s) \/ LocalStore(s))
           \/ pc'[s] = "failed"
<1>0. s \in Thread /\ \A where \in {"put", "undo", "stored", "failed"} : Legal(s, where)
  BY Threads DEF Legal, StorerPC
<1>1. CASE Prepare(s)
  BY <1>1, PrepareDoes
<1>2. CASE Reject(s) \/ OverQuota(s) \/ Forget(s)
  BY <1>0, <1>2, EndDoes DEF Reject, OverQuota, Forget, Ends
<1>3. CASE Reserve(s)
  BY <1>0, <1>3, GotoKeeps DEF Reserve, At
<1>4. CASE Finalize(s)
  BY <1>0, <1>4, EndDoes DEF Finalize, Ends
<1>5. CASE FinalizeFails(s)
  BY <1>0, <1>5, GotoKeeps DEF FinalizeFails, At
<1>6. CASE DiskOpen(s)
  BY <1>0, <1>6, GotoKeeps, EndDoes DEF DiskOpen, At, Ends
<1>7. CASE DiskCommit(s)
  BY <1>0, <1>7, EndDoes DEF DiskCommit, Ends
<1>8. CASE LocalStore(s)
  BY <1>0, <1>8, EndDoes DEF LocalStore, Ends
<1>9. ASSUME NEW u \in Upload, Put(s, u) PROVE Goal
  BY <1>9 DEF Put
<1>10. ASSUME NEW u \in Upload, PutFails(s, u) PROVE Goal
  BY <1>0, <1>10, GotoKeeps DEF PutFails, At
<1>11. ASSUME NEW u \in Upload, Undo(s, u) PROVE Goal
  BY <1>11 DEF Undo
<1> QED
  BY <1>1, <1>2, <1>3, <1>4, <1>5, <1>6, <1>7, <1>8, <1>9, <1>10, <1>11 DEF Store

LEMMA StoringInTimeKept ==
    ASSUME Good, ~MayStall, Next
    PROVE  StoringInTime'
<1> SUFFICES ASSUME NEW s \in Storer, pc'[s] \in Storing
             PROVE  task'[s].at <= now' /\ now' <= task'[s].at + StagedFor
  BY DEF StoringInTime
<1>0. /\ TypeOK /\ CallersKnow /\ now \in Nat /\ StagedFor \in Nat /\ task[s].at \in Nat
      /\ pc[s] \in Storing => task[s].at <= now /\ now <= task[s].at + StagedFor
      /\ {"stored", "failed"} \cap Storing = {} /\ {"prepared", "put", "undo"} \subseteq Storing
  BY GoodParts, WorldTyped, LifeOfStaged, Threads, NoteTyped DEF StoringInTime, Storing
<1>1. CASE Tick
  BY <1>0, <1>1 DEF Tick, InTime
<1>2. CASE now' = now /\ pc[s] \in Storing /\ task'[s].at = task[s].at
  BY <1>0, <1>2
<1>3. CASE now' = now /\ task'[s].at = now
  BY <1>0, <1>3
<1>4. CASE Store(s)
  <2>1. CASE Prepare(s)
    BY <1>0, <1>3, <2>1, PrepareDoes DEF Prepare
  <2>2. CASE Reserve(s) \/ DiskOpen(s) \/ FinalizeFails(s)
    BY <1>0, <1>2, <1>4, <2>2, StoreArrives DEF Reserve, DiskOpen, FinalizeFails, Put, Undo, Prepare
  <2>3. ASSUME NEW u \in Upload, Put(s, u)
        PROVE  task'[s].at <= now' /\ now' <= task'[s].at + StagedFor
    BY <1>0, <1>2, <2>3, TickedOff, Threads DEF Put
  <2>4. ASSUME NEW u \in Upload, PutFails(s, u)
        PROVE  task'[s].at <= now' /\ now' <= task'[s].at + StagedFor
    BY <1>0, <1>2, <2>4 DEF PutFails
  <2>5. ASSUME NEW u \in Upload, Undo(s, u)
        PROVE  task'[s].at <= now' /\ now' <= task'[s].at + StagedFor
    BY <1>0, <1>2, <2>5, UndoDoes DEF Undo
  <2> QED
    BY <1>0, <1>4, <2>1, <2>2, <2>3, <2>4, <2>5, StoreArrives
<1>5. CASE Crash(s)
  BY <1>0, <1>5, CrashMoves
<1> QED
  BY <1>0, <1>1, <1>2, <1>4, <1>5, WhoMoves, TimeMoves

LEMMA NothingYetKept ==
    ASSUME Good, ~MayStall, Next
    PROVE  NothingYet'
<1> SUFFICES ASSUME NEW s \in Storer, pc'[s] \in {"idle", "prepared"}, NEW u \in Batch[s]
             PROVE  record'[u] = None /\ blob'[u] = None
  BY DEF NothingYet
<1>0. TypeOK /\ (pc[s] \in {"idle", "prepared"} => record[u] = None /\ blob[u] = None)
  BY GoodParts DEF NothingYet
<1>1. CASE Prepare(s)
  BY <1>0, <1>1 DEF Prepare
<1>2. CASE pc[s] = pc'[s] /\ Outside(u)
  BY <1>0, <1>2, WorkIsLeftAlone DEF Untouched
<1> QED
  BY <1>0, <1>1, <1>2, WhoMoves, StoreArrives, CrashMoves

\* The hash never lapses before the records a call staged in it.
LEMMA HashMoves ==
    ASSUME TypeOK, Next
    PROVE  hashEnd' \in {hashEnd, now + TTL + HashGrace, MaxTime + 1}
<1>1. CASE Tick
  BY <1>1 DEF Tick
<1>2. ASSUME NEW s \in Storer, Store(s) PROVE hashEnd' \in {hashEnd, now + TTL + HashGrace}
  <2>1. CASE Prepare(s) \/ Reject(s) \/ Reserve(s) \/ OverQuota(s) \/ Finalize(s) \/ FinalizeFails(s) \/ Forget(s)
    BY <2>1 DEF Prepare, Reject, Reserve, OverQuota, Finalize, FinalizeFails, Finalized, Forget
  <2>2. CASE DiskOpen(s) \/ DiskCommit(s) \/ LocalStore(s)
    BY <2>2 DEF DiskOpen, DiskCommit, LocalStore
  <2>3. ASSUME NEW u \in Upload, Put(s, u) \/ PutFails(s, u) \/ Undo(s, u) PROVE UNCHANGED hashEnd
    BY <2>3 DEF Put, PutFails, Undo
  <2> QED
    BY <1>2, <2>1, <2>2, <2>3 DEF Store
<1>3. ASSUME NEW c \in Caller, Call(c) PROVE hashEnd' \in {hashEnd, MaxTime + 1}
  <2>1. CASE Scan(c) \/ CleanForget(c) \/ ListElsewhere(c) \/ ReadBytes(c) \/ Rotate(c)
    BY <2>1 DEF Scan, CleanForget, ListElsewhere, ReadBytes, Rotate
  <2>2. CASE DeleteRead(c) \/ DeleteMark(c) \/ DeleteBytes(c) \/ DeleteForget(c)
    BY <2>2 DEF DeleteRead, DeleteMark, DeleteBytes, DeleteForget
  <2>3. ASSUME NEW u \in Upload,
               Clean(c, u) \/ Fetch(c, u) \/ FetchExpired(c, u) \/ DeleteStart(c, u) \/ DeleteElsewhere(c, u)
        PROVE  UNCHANGED hashEnd
    BY <2>3 DEF Clean, Fetch, FetchExpired, DeleteStart, DeleteElsewhere
  <2> QED
    BY <1>3, <2>1, <2>2, <2>3 DEF Call
<1>4. ASSUME NEW s \in Storer, Crash(s) PROVE UNCHANGED hashEnd
  BY <1>4 DEF Crash
<1> QED
  BY <1>1, <1>2, <1>3, <1>4 DEF Next

LEMMA ReservedKept ==
    ASSUME Good, ~MayStall, Next
    PROVE  Reserved'
<1> SUFFICES ASSUME NEW s \in Storer, pc'[s] = "put", backend' = "s3"
             PROVE  /\ \A u \in Batch[s] : record'[u] = Meta("staging", task'[s].at + StagedFor)
                    /\ hashEnd' > task'[s].at + StagedFor \/ hashEnd' > MaxTime
  BY DEF Reserved, Meta
<1>0. /\ TypeOK /\ backend = "s3" /\ Batch[s] \subseteq Upload
      /\ pc[s] = "put" => /\ \A u \in Batch[s] : record[u] = Meta("staging", task[s].at + StagedFor)
                          /\ hashEnd > task[s].at + StagedFor \/ hashEnd > MaxTime
  BY GoodParts, TimeMoves, WorldTyped DEF Reserved
<1>1. /\ now \in Nat /\ TTL \in Nat /\ HashGrace \in Nat /\ HashGrace > 0 /\ MaxTime \in Nat
      /\ StagedFor \in Nat /\ StagedFor <= TTL /\ task[s].at \in Nat /\ hashEnd \in Nat
      /\ pc[s] \in {"prepared", "put"} => task[s].at <= now
  BY GoodParts, WorldTyped, LifeOfStaged, Threads, NoteTyped DEF StoringInTime, Storing
<1>2. pc[s] \in {"prepared", "put"} => now + TTL + HashGrace > task[s].at + StagedFor
  BY <1>1
<1>3. MaxTime + 1 > MaxTime
  BY <1>1
<1>4. pc[s] = "put" => hashEnd' > task[s].at + StagedFor \/ hashEnd' > MaxTime
  BY <1>0, <1>2, <1>3, HashMoves
<1>5. CASE pc[s] = "put" /\ task'[s].at = task[s].at /\ \A u \in Batch[s] : record'[u] = record[u]
  BY <1>0, <1>4, <1>5
<1>6. CASE Reserve(s) /\ task'[s] = task[s]
  <2>1. \A u \in Batch[s] : record'[u] = Meta("staging", task[s].at + StagedFor)
    BY <1>0, <1>6, RecordTyped, SetDoes DEF Reserve
  <2>2. hashEnd' > task[s].at + StagedFor
    BY <1>2, <1>6 DEF Reserve
  <2> QED
    BY <1>6, <2>1, <2>2
<1>7. ASSUME NEW v \in Upload, Put(s, v)
      PROVE  pc[s] = "put" /\ task'[s].at = task[s].at /\ record' = record
  BY <1>0, <1>7, TickedOff, Threads DEF Put
<1>8. CASE pc[s] = pc'[s] /\ task'[s] = task[s] /\ \A u \in Batch[s] : Outside(u)
  <2>1. \A u \in Batch[s] : record'[u] = record[u]
    BY <1>8, WorkIsLeftAlone DEF Untouched
  <2> QED
    BY <1>5, <1>8, <2>1
<1>9. CASE Store(s)
  BY <1>0, <1>5, <1>6, <1>7, <1>9, StoreArrives DEF DiskOpen
<1> QED
  BY <1>0, <1>8, <1>9, WhoMoves, CrashMoves

\* The lock of the disk store changes hands only through who has it.
LEMMA LockMoves ==
    ASSUME Good, Next, NEW s \in Storer, backend = "disk", lock = s,
           ~Store(s), ~Crash(s)
    PROVE  lock' = lock /\ record' = record
<1>0. /\ TypeOK /\ lock # None /\ CleanersKnow
      /\ \A z \in Storer \ {s} : pc[z] \notin {"put", "undo"}
  BY GoodParts, NoneIsNothing DEF Locked
<1>1. CASE Tick
  BY <1>1 DEF Tick
<1>2. ASSUME NEW z \in Storer, Store(z), z # s PROVE lock' = lock /\ record' = record
  <2>1. CASE Prepare(z) \/ Reject(z) \/ Reserve(z) \/ OverQuota(z) \/ Finalize(z) \/ FinalizeFails(z)
    BY <2>1 DEF Prepare, Reject, Reserve, OverQuota, Finalize, FinalizeFails
  <2>2. ~Forget(z) /\ ~DiskOpen(z) /\ ~DiskCommit(z) /\ ~LocalStore(z)
    BY <1>0, <1>2 DEF Forget, DiskOpen, DiskCommit, LocalStore
  <2>3. ASSUME NEW u \in Upload, Put(z, u) \/ PutFails(z, u) \/ Undo(z, u) PROVE FALSE
    BY <1>0, <1>2, <2>3 DEF Put, PutFails, Undo
  <2> QED
    BY <1>2, <2>1, <2>2, <2>3 DEF Store
<1>3. ASSUME NEW c \in Caller, Call(c) PROVE lock' = lock /\ record' = record
  <2>1. pc[c] \notin {"clean", "delete", "mark", "unlink", "forget"}
    BY <1>0 DEF CleanersKnow
  <2>2. CASE Scan(c) \/ ReadBytes(c) \/ Rotate(c)
    BY <2>2 DEF Scan, ReadBytes, Rotate
  <2>3. /\ ~CleanForget(c) /\ ~ListElsewhere(c) /\ ~DeleteRead(c)
        /\ ~DeleteMark(c) /\ ~DeleteBytes(c) /\ ~DeleteForget(c)
    BY <1>0, <2>1 DEF CleanForget, ListElsewhere, DeleteRead, DeleteMark, DeleteBytes, DeleteForget
  <2>4. ASSUME NEW u \in Upload,
               Clean(c, u) \/ Fetch(c, u) \/ FetchExpired(c, u) \/ DeleteStart(c, u) \/ DeleteElsewhere(c, u)
        PROVE  FALSE
    BY <1>0, <2>1, <2>4 DEF Clean, Fetch, FetchExpired, DeleteStart, DeleteElsewhere
  <2> QED
    BY <1>3, <2>2, <2>3, <2>4 DEF Call
<1>4. ASSUME NEW z \in Storer, Crash(z), z # s PROVE lock' = lock /\ record' = record
  BY <1>4 DEF Crash
<1> QED
  BY <1>1, <1>2, <1>3, <1>4 DEF Next

LEMMA FitsKept ==
    ASSUME NEW t, NEW s, UNCHANGED record, Fits(t, s)
    PROVE  Fits(t, s)'
BY DEF Fits, Counted, Stale

LEMMA LockedKept ==
    ASSUME Good, ~MayStall, Next
    PROVE  Locked'
<1> SUFFICES ASSUME NEW s \in Storer, pc'[s] \in {"put", "undo"}
             PROVE  /\ backend' # "local"
                    /\ backend' = "disk" => lock' = s /\ (pc'[s] = "put" => s \in HaveRoom')
  BY DEF Locked
<1> DEFINE Goal == /\ backend' # "local"
                   /\ backend' = "disk" => lock' = s /\ (pc'[s] = "put" => s \in HaveRoom')
<1>0. /\ TypeOK /\ CallersKnow /\ backend' = backend /\ s \in Thread
      /\ pc[s] \in {"put", "undo"} =>
           /\ backend # "local"
           /\ backend = "disk" => lock = s /\ (pc[s] = "put" => s \in HaveRoom)
  BY GoodParts, TimeMoves, Threads DEF Locked
<1>1. PICK t : t = task[s].at
  OBVIOUS
<1>2. CASE /\ pc[s] \in {"put", "undo"} /\ (pc'[s] = "put" => pc[s] = "put")
           /\ task'[s].at = t /\ lock' = lock /\ record' = record
  <2>1. backend = "disk" /\ pc[s] = "put" => Fits(t, s)'
    BY <1>0, <1>1, <1>2, FitsKept DEF HaveRoom
  <2>2. backend = "disk" /\ pc[s] = "put" => s \in HaveRoom'
    BY <1>2, <2>1 DEF HaveRoom, Fits, Counted, Stale
  <2> QED
    BY <1>0, <1>2, <2>2
<1>3. CASE pc[s] \in {"put", "undo"} /\ pc'[s] = "undo" /\ lock' = lock
  BY <1>0, <1>3
<1>4. CASE Reserve(s)
  BY <1>0, <1>4 DEF Reserve
<1>5. CASE DiskOpen(s) /\ Fits(task[s].at, s) /\ lock' = s /\ task'[s] = task[s]
  <2>1. Fits(t, s)'
    BY <1>1, <1>5, FitsKept DEF DiskOpen
  <2>2. s \in HaveRoom'
    BY <1>1, <1>5, <2>1 DEF HaveRoom, Fits, Counted, Stale
  <2> QED
    BY <1>0, <1>5, <2>2 DEF DiskOpen
<1>6. ASSUME NEW u \in Upload, Put(s, u)
      PROVE  Goal
  <2>1. task'[s].at = t /\ pc[s] = "put" /\ lock' = lock /\ record' = record
    BY <1>0, <1>1, <1>6, TickedOff DEF Put
  <2> QED
    BY <1>2, <2>1
<1>7. CASE FinalizeFails(s) /\ pc'[s] = "undo"
  BY <1>3, <1>7 DEF FinalizeFails
<1>8. ASSUME NEW u \in Upload, (PutFails(s, u) \/ Undo(s, u)) /\ pc'[s] = "undo"
      PROVE  Goal
  BY <1>3, <1>8 DEF PutFails, Undo
<1>9. CASE Store(s)
  BY <1>4, <1>5, <1>6, <1>7, <1>8, <1>9, <1>0, StoreArrives
<1>10. CASE pc'[s] = pc[s] /\ task'[s] = task[s] /\ ~Store(s) /\ ~Crash(s)
  <2>1. CASE backend = "disk"
    <3>1. lock = s
      BY <1>0, <1>10, <2>1
    <3> QED
      BY <1>1, <1>2, <1>10, <2>1, <3>1, LockMoves
  <2>2. CASE backend # "disk"
    BY <1>0, <1>10, <2>2
  <2> QED
    BY <2>1, <2>2
<1> QED
  BY <1>0, <1>9, <1>10, WhoMoves, CrashMoves

LEMMA RowsLingerKept ==
    ASSUME Good, ~MayStall, Next
    PROVE  RowsLinger'
<1> SUFFICES ASSUME NEW s \in Storer, pc'[s] = "put", backend' = "disk", NEW u \in Stale(task[s].at)'
             PROVE  Bare(u)'
  BY DEF RowsLinger
<1>0. /\ TypeOK /\ CallersKnow /\ backend = "disk" /\ s \in Thread
      /\ u \in Upload /\ record'[u] # None /\ record'[u].expires < task'[s].at
      /\ Batch[s] \subseteq Upload
  BY GoodParts, TimeMoves, Threads, WorldTyped DEF Stale
<1>1. CASE DiskOpen(s) /\ task'[s] = task[s]
  <2>1. u \in Stale(task[s].at) /\ blob'[u] = None
    BY <1>0, <1>1, SweepDoes DEF DiskOpen, SweepEffect, Stale
  <2> QED
    BY <2>1 DEF Bare
<1>2. ASSUME NEW v \in Upload, Put(s, v)
      PROVE  Bare(u)'
  <2>1. task'[s].at = task[s].at /\ pc[s] = "put" /\ record' = record /\ torn' = torn /\ v \in Batch[s]
    BY <1>0, <1>2, TickedOff, GoodParts DEF Put, Written
  <2>2. u \in Stale(task[s].at)
    BY <1>0, <2>1 DEF Stale
  <2>3. Bare(u)
    BY <1>0, <2>1, <2>2, GoodParts DEF RowsLinger
  <2>4. record[v] = None
    BY <1>0, <2>1, GoodParts DEF ReadyIsEnded, Ended
  <2>5. u # v
    BY <1>0, <2>1, <2>4
  <2> QED
    BY <1>0, <1>2, <2>1, <2>3, <2>5, RecordTyped DEF Put, Bare
<1>3. CASE Store(s)
  <2>1. ~Reserve(s)
    BY <1>0 DEF Reserve
  <2> QED
    BY <1>0, <1>1, <1>2, <1>3, <2>1, StoreArrives
<1>4. CASE pc'[s] = pc[s] /\ task'[s] = task[s] /\ ~Store(s) /\ ~Crash(s)
  <2>1. lock = s
    BY <1>0, <1>4, GoodParts DEF Locked
  <2>2. record' = record
    BY <1>0, <1>4, <2>1, LockMoves
  <2>3. u \in Stale(task[s].at)
    BY <1>0, <1>4, <2>2 DEF Stale
  <2>4. Bare(u)
    BY <1>0, <1>4, <2>3, GoodParts DEF RowsLinger
  <2>5. Outside(u)
    <3>1. CASE Tick
      BY <3>1, <1>0, TickOutside
    <3>2. ASSUME NEW z \in Storer, Store(z), z # s PROVE Outside(u)
      <4>1. pc[z] \notin {"put", "undo"}
        BY <1>0, <2>1, <3>2, GoodParts DEF Locked
      <4>2. u \in Batch[z] => pc[z] \notin {"idle", "prepared"}
        BY <1>0, <2>2, GoodParts DEF NothingYet
      <4> QED
        BY <1>0, <3>2, <4>1, <4>2, StoreOutside
    <3>3. ASSUME NEW c \in Caller, Call(c) PROVE Outside(u)
      BY <1>0, <3>3, CallOutside
    <3>4. ASSUME NEW z \in Storer, Crash(z) PROVE Outside(u)
      BY <1>0, <3>4, CrashOutside
    <3> QED
      BY <1>4, <3>1, <3>2, <3>3, <3>4 DEF Next
  <2> QED
    BY <1>0, <2>4, <2>5, BareKept
<1> QED
  BY <1>0, <1>3, <1>4, WhoMoves, CrashMoves

LEMMA WrittenKept ==
    ASSUME Good, ~MayStall, Next
    PROVE  Written'
<1> SUFFICES ASSUME NEW s \in Storer
             PROVE  /\ pc'[s] = "prepared" => task'[s].todo = Batch[s] /\ task'[s].done = {}
                    /\ pc'[s] \in {"put", "undo"} =>
                        /\ task'[s].todo \subseteq Batch[s] /\ task'[s].done \subseteq Batch[s]
                        /\ \A u \in Batch[s] : Bare(u)' \/ u \in task'[s].done
                    /\ pc'[s] = "put" => \A u \in Batch[s] \ task'[s].todo : blob'[u] # None
  BY DEF Written, Bare
<1> DEFINE Goal == /\ pc'[s] = "prepared" => task'[s].todo = Batch[s] /\ task'[s].done = {}
                   /\ pc'[s] \in {"put", "undo"} =>
                        /\ task'[s].todo \subseteq Batch[s] /\ task'[s].done \subseteq Batch[s]
                        /\ \A u \in Batch[s] : Bare(u)' \/ u \in task'[s].done
                   /\ pc'[s] = "put" => \A u \in Batch[s] \ task'[s].todo : blob'[u] # None
<1>0. /\ TypeOK /\ CallersKnow /\ s \in Thread /\ Batch[s] \subseteq Upload /\ now # None
      /\ pc[s] = "prepared" => task[s].todo = Batch[s] /\ task[s].done = {}
      /\ pc[s] \in {"put", "undo"} =>
            /\ task[s].todo \subseteq Batch[s] /\ task[s].done \subseteq Batch[s]
            /\ \A u \in Batch[s] : Bare(u) \/ u \in task[s].done
      /\ pc[s] = "put" => \A u \in Batch[s] \ task[s].todo : blob[u] # None
      /\ pc[s] = "prepared" => \A u \in Batch[s] : blob[u] = None
  BY GoodParts, Threads, WorldTyped, NoneIsNothing DEF Written, NothingYet
<1>1. CASE Prepare(s)
  BY <1>0, <1>1, PrepareDoes
<1>2. CASE (Reserve(s) \/ DiskOpen(s)) /\ pc'[s] = "put" /\ task'[s] = task[s]
  <2>1. pc[s] = "prepared"
    BY <1>2 DEF Reserve, DiskOpen
  <2>2. \A u \in Batch[s] : blob'[u] = None
    <3>1. CASE Reserve(s)
      BY <1>0, <2>1, <3>1 DEF Reserve
    <3>2. CASE DiskOpen(s)
      BY <1>0, <2>1, <3>2, SweepDoes DEF DiskOpen, SweepEffect
    <3> QED
      BY <1>2, <3>1, <3>2
  <2> QED
    BY <1>0, <1>2, <2>1, <2>2 DEF Bare
<1>3. ASSUME NEW v \in Upload, Put(s, v), pc'[s] = "put"
      PROVE  Goal
  <2>1. /\ pc[s] = "put" /\ v \in Batch[s] /\ torn' = torn
        /\ task'[s].todo = task[s].todo \ {v} /\ task'[s].done = task[s].done \cup {v}
    BY <1>0, <1>3, TickedOff DEF Put
  <2>2. \A u \in Upload : blob'[u] = IF u = v THEN now ELSE blob[u]
    BY <1>0, <1>3, RecordTyped DEF Put
  <2> QED
    BY <1>0, <1>3, <2>1, <2>2 DEF Bare
<1>4. CASE FinalizeFails(s) /\ pc'[s] = "undo" /\ task'[s] = task[s]
  BY <1>0, <1>4 DEF FinalizeFails, Bare
<1>5. ASSUME NEW v \in Upload, PutFails(s, v), pc'[s] = "undo", task'[s] = task[s]
      PROVE  Goal
  <2>1. \A u \in Upload : Bare(u) => Bare(u)'
    BY <1>0, <1>5, RecordTyped DEF PutFails, Bare
  <2> QED
    BY <1>0, <1>5, <2>1 DEF PutFails
<1>6. ASSUME NEW v \in Upload, Undo(s, v), pc'[s] = "undo"
      PROVE  Goal
  <2>1. /\ pc[s] = "undo" /\ v \in Batch[s] /\ task'[s].todo = task[s].todo
        /\ task'[s].done = task[s].done \ {v}
    BY <1>0, <1>6, UndoDoes DEF Undo
  <2>2. Bare(v)' /\ \A u \in Upload : Bare(u) => Bare(u)'
    BY <1>0, <1>6, RecordTyped DEF Undo, Bare
  <2> QED
    BY <1>0, <1>6, <2>1, <2>2
<1>7. CASE Store(s)
  BY <1>1, <1>2, <1>3, <1>4, <1>5, <1>6, <1>7, <1>0, StoreArrives
<1>8. CASE Crash(s)
  BY <1>0, <1>8, CrashMoves
<1>9. CASE pc'[s] = pc[s] /\ task'[s] = task[s] /\ \A u \in Batch[s] : Outside(u)
  <2>1. \A u \in Batch[s] : Bare(u) => Bare(u)'
    BY <1>0, <1>9, BareKept
  <2>2. pc[s] = "put" => \A u \in Batch[s] : blob'[u] = blob[u]
    BY <1>9, WorkIsLeftAlone DEF Untouched
  <2> QED
    BY <1>0, <1>9, <2>1, <2>2
<1> QED
  BY <1>7, <1>8, <1>9, WhoMoves


LEMMA EndedOutside ==
    ASSUME Good, ~MayStall, Next, NEW u \in Upload, Ended(u)
    PROVE  Outside(u)
<1>1. CASE Tick
  BY <1>1, TickOutside
<1>2. ASSUME NEW s \in Storer, Store(s) PROVE Outside(u)
  BY <1>2, StoreOutside DEF Ended
<1>3. ASSUME NEW c \in Caller, Call(c) PROVE Outside(u)
  BY <1>3, CallOutside
<1>4. ASSUME NEW s \in Storer, Crash(s) PROVE Outside(u)
  BY <1>4, CrashOutside
<1> QED
  BY <1>1, <1>2, <1>3, <1>4 DEF Next

\* What a cleaning or deleting call is about to forget has no bytes left.
LEMMA CleanersKnowKept ==
    ASSUME Good, ~MayStall, Next
    PROVE  CleanersKnow'
<1> DEFINE OnS3 == {"clean", "delete", "mark", "unlink", "forget"}
           Knows(c) == /\ pc[c] \in OnS3 => backend = "s3"
                       /\ pc[c] = "clean" => /\ \A u \in task[c].todo \cup task[c].done : Past(u)
                                             /\ \A u \in task[c].done : Bare(u)
                       /\ pc[c] = "forget" => Bare(task[c].of)
<1>0. TypeOK /\ CallersKnow /\ backend' = backend /\ (\A c \in Caller : c \in Thread)
  BY GoodParts, TimeMoves, Threads
<1>1. \A u \in Upload : /\ Past(u) => Past(u)'
                        /\ Ended(u) /\ Bare(u) => Bare(u)'
  BY <1>0, PastKept, EndedOutside, BareKept
<1>2. ASSUME NEW c \in Caller, pc'[c] = pc[c], task'[c] = task[c]
      PROVE  Knows(c)'
  <2>1. task'[c].todo \subseteq Upload /\ task'[c].done \subseteq Upload
    BY <1>0, <1>2, NoteTyped
  <2>2. pc[c] \in OnS3 => backend' = "s3"
    BY <1>0, GoodParts DEF CleanersKnow
  <2>3. CASE pc[c] = "clean"
    <3>1. /\ \A u \in task'[c].todo \cup task'[c].done : Past(u)
          /\ \A u \in task'[c].done : Bare(u) /\ Ended(u)
      BY <1>2, <2>3, GoodParts DEF CleanersKnow, Past
    <3>2. /\ \A u \in task'[c].todo \cup task'[c].done : Past(u)'
          /\ \A u \in task'[c].done : Bare(u)'
      BY <1>1, <2>1, <3>1
    <3> QED
      BY <1>2, <2>2, <2>3, <3>2 DEF Past, Bare, Ended, Readable, Stale
  <2>4. CASE pc[c] = "forget"
    <3>1. PICK u \in Upload : u = task[c].of /\ Ended(u) /\ Bare(u)
      BY <2>4, GoodParts DEF CleanersKnow, CallersKnow
    <3>2. Bare(u)'
      BY <1>1, <3>1
    <3> QED
      BY <1>2, <2>2, <2>4, <3>1, <3>2 DEF Bare
  <2> QED
    BY <1>2, <2>2, <2>3, <2>4
<1>3. ASSUME NEW c \in Caller, Call(c)
      PROVE  Knows(c)'
  <2>0. /\ c \in Thread /\ \A where \in CallerPC : Legal(c, where)
        /\ {"done", "rotate", "unlink", "forget"} \subseteq CallerPC
        /\ {"done", "read", "rotate"} \cap OnS3 = {}
    BY Threads DEF Legal, CallerPC
  <2>1. CASE pc'[c] \in {"done", "read", "rotate"}
    BY <2>0, <2>1
  <2>2. CASE Scan(c)
    <3>1. /\ backend = "s3" /\ pc'[c] = "clean" /\ task'[c].done = {} /\ task'[c].todo \subseteq Upload
          /\ \A u \in task'[c].todo : u \in Stale(now) \/ (record[u] # None /\ record[u].status = "deleting")
      BY <1>0, <2>2, ScanDoes DEF Scan
    <3>2. \A u \in task'[c].todo : Past(u)'
      BY <1>1, <3>1, StaleIsPast DEF Stale
    <3> QED
      BY <1>0, <3>1, <3>2 DEF Past, Bare, Ended, Readable, Stale
  <2>3. ASSUME NEW v \in Upload, Clean(c, v), pc'[c] = "clean"
        PROVE  Knows(c)'
    <3>1. /\ task'[c].todo = task[c].todo \ {v} /\ task'[c].done = task[c].done \cup {v}
          /\ blob' = [blob EXCEPT ![v] = None] /\ v \in task[c].todo /\ pc[c] = "clean"
      BY <1>0, <2>0, <2>3, TickedOff, EndDoes DEF Clean, Ends
    <3>2. /\ backend = "s3" /\ task[c].todo \subseteq Upload /\ task[c].done \subseteq Upload
          /\ \A u \in task[c].todo \cup task[c].done : Past(u)
          /\ \A u \in task[c].done : Bare(u) /\ Ended(u)
      BY <1>0, <2>0, <3>1, NoteTyped, GoodParts DEF CleanersKnow, Past
    <3>3. Bare(v)'
      BY <1>0, <3>1, RecordTyped DEF Bare
    <3>4. /\ \A u \in task'[c].todo \cup task'[c].done : Past(u)'
          /\ \A u \in task'[c].done : Bare(u)'
      BY <1>1, <3>1, <3>2, <3>3
    <3> QED
      BY <1>0, <2>3, <3>2, <3>4 DEF Past, Bare, Ended, Readable, Stale
  <2>4. CASE DeleteRead(c) \/ DeleteMark(c)
    <3>1. backend = "s3" /\ pc[c] \in {"delete", "mark"} /\ task[c].of \in Upload
      BY <2>4, GoodParts DEF DeleteRead, DeleteMark, CleanersKnow, CallersKnow
    <3>2. pc'[c] \in {"done", "mark", "unlink"}
      BY <1>0, <2>0, <2>4, <3>1, DeleteReadDoes, GotoKeeps DEF DeleteMark, Ends, At
    <3> QED
      BY <1>0, <3>1, <3>2
  <2>5. CASE DeleteBytes(c) /\ pc'[c] = "forget"
    <3>1. /\ backend = "s3" /\ task[c].of \in Upload /\ task'[c].of = task[c].of
          /\ blob' = [blob EXCEPT ![task[c].of] = None]
      BY <1>0, <2>0, <2>5, EndDoes, GoodParts DEF DeleteBytes, CleanersKnow, CallersKnow, Ends
    <3>2. blob'[task[c].of] = None
      BY <1>0, <3>1, RecordTyped
    <3> QED
      BY <1>0, <2>5, <3>1, <3>2 DEF Bare
  <2>6. ASSUME NEW v \in Upload, FetchExpired(c, v) \/ DeleteStart(c, v)
        PROVE  Knows(c)'
    <3>1. backend = "s3" /\ pc'[c] = "delete"
      BY <1>0, <2>6, PickDoes DEF FetchExpired, DeleteStart
    <3> QED
      BY <1>0, <3>1
  <2>7. CASE CleanForget(c) \/ ListElsewhere(c) \/ ReadBytes(c) \/ Rotate(c) \/ DeleteForget(c)
    <3>1. pc'[c] \in {"done", "rotate"}
      BY <1>0, <2>0, <2>7, EndDoes, GotoKeeps
         DEF CleanForget, ListElsewhere, ReadBytes, Rotate, DeleteForget, Ends, At
    <3> QED
      BY <2>1, <3>1
  <2>8. ASSUME NEW v \in Upload, Fetch(c, v) \/ DeleteElsewhere(c, v)
        PROVE  Knows(c)'
    <3>1. pc'[c] \in {"done", "read"}
      BY <1>0, <2>0, <2>8, EndDoes, PickDoes DEF Fetch, DeleteElsewhere, Ends
    <3> QED
      BY <2>1, <3>1
  <2>9. ASSUME NEW v \in Upload, Clean(c, v), pc'[c] # "clean"
        PROVE  Knows(c)'
    <3>1. pc'[c] = "done"
      BY <1>0, <2>0, <2>9, EndDoes DEF Clean, Ends
    <3> QED
      BY <2>1, <3>1
  <2>10. CASE DeleteBytes(c) /\ pc'[c] # "forget"
    <3>1. pc'[c] = "done"
      BY <1>0, <2>0, <2>10, EndDoes, GotoKeeps DEF DeleteBytes, Ends, At, Goto
    <3> QED
      BY <2>1, <3>1
  <2> QED
    BY <1>3, <2>2, <2>3, <2>4, <2>5, <2>6, <2>7, <2>8, <2>9, <2>10 DEF Call
<1> SUFFICES ASSUME NEW c \in Caller
             PROVE  Knows(c)'
  BY DEF CleanersKnow
<1>4. CASE Tick
  BY <1>2, <1>4 DEF Tick
<1>5. ASSUME NEW s \in Storer, Store(s) \/ Crash(s) PROVE Knows(c)'
  <2>1. pc'[c] = pc[c] /\ task'[c] = task[c]
    BY <1>0, <1>5, Threads, StoreMoves, CrashMoves DEF Still
  <2> QED
    BY <1>2, <2>1
<1>6. ASSUME NEW d \in Caller, Call(d) PROVE Knows(c)'
  <2>1. d # c => pc'[c] = pc[c] /\ task'[c] = task[c]
    BY <1>0, <1>6, Threads, CallMoves DEF Still
  <2> QED
    BY <1>2, <1>3, <1>6, <2>1
<1> QED
  BY <1>4, <1>5, <1>6 DEF Next


LEMMA StoredKept ==
    ASSUME Good, ~MayStall, Next
    PROVE  StoredCanBeRead'
<1> SUFFICES ASSUME NEW s \in Storer, pc'[s] = "stored", NEW u \in Batch[s],
                    Readable(u)', u \notin torn'
             PROVE  blob'[u] # None
  BY DEF StoredCanBeRead
<1>0. TypeOK /\ CallersKnow /\ Written /\ u \in Upload /\ s \in Thread /\ now # None
  BY GoodParts, Threads, WorldTyped, NoneIsNothing
<1>1. CASE Store(s)
  <2>1. Finalize(s) \/ DiskCommit(s) \/ LocalStore(s)
    BY <1>0, <1>1, StoreArrives
  <2>2. CASE Finalize(s) \/ DiskCommit(s)
    BY <1>0, <2>2 DEF Finalize, DiskCommit, Written
  <2>3. CASE LocalStore(s)
    <3>1. CASE Fits(now, s)
      BY <1>0, <2>3, <3>1 DEF LocalStore
    <3>2. CASE ~Fits(now, s)
      <4>1. Legal(s, "failed")
        BY DEF Legal, StorerPC
      <4>2. pc'[s] = "failed"
        BY <1>0, <2>3, <3>2, <4>1, EndDoes DEF LocalStore, Ends
      <4> QED
        BY <4>2
    <3> QED
      BY <3>1, <3>2
  <2> QED
    BY <2>1, <2>2, <2>3
<1>2. CASE Crash(s)
  BY <1>0, <1>2, CrashMoves
<1>3. CASE pc[s] = "stored" /\ Outside(u)
  <2>1. Ended(u) /\ ~Undoing(u)
    BY <1>3, OneBatch DEF Ended, Undoing
  <2>2. Readable(u)
    BY <1>0, <2>1, PastKept DEF Past
  <2>3. record'[u] # None /\ record'[u].status # "deleting"
    BY DEF Readable
  <2>4. u \notin torn => blob[u] # None
    BY <1>3, <2>2, GoodParts DEF StoredCanBeRead
  <2> QED
    BY <1>3, <2>1, <2>2, <2>3, <2>4
       DEF Outside, Untouched, Swept, Dropped, Marked, Unlinked, Rewritten, StaysTorn, Past
<1> QED
  BY <1>1, <1>2, <1>3, WhoMoves

\* Something leads the next cleanup to u, or its loss is on record.
Led(u) ==
    \/ record[u] # None \/ u \in torn
    \/ backend = "disk" /\ \E s \in Storer : u \in Batch[s] /\ pc[s] \in {"put", "undo"}

\* A storing call leaves no bytes of its own batch behind.
LEMMA StoreLeads ==
    ASSUME Good, NEW s \in Storer, Store(s), NEW u \in Batch[s]
    PROVE  blob'[u] = None \/ Led(u)'
<1>0. /\ TypeOK /\ CallersKnow /\ Written /\ s \in Thread /\ u \in Upload
      /\ \A where \in StorerPC : Legal(s, where)
      /\ {"put", "undo"} \subseteq StorerPC
  BY GoodParts, Threads, WorldTyped DEF Legal, StorerPC
<1>1. CASE pc[s] \in {"idle", "prepared"}
  <2>1. record[u] = None /\ blob[u] = None
    BY <1>1, GoodParts DEF NothingYet
  <2>2. CASE Prepare(s) \/ Reject(s) \/ Reserve(s) \/ OverQuota(s)
    BY <2>1, <2>2 DEF Prepare, Reject, Reserve, OverQuota
  <2>3. CASE DiskOpen(s)
    BY <1>0, <2>1, <2>3, SweepDoes DEF DiskOpen, SweepEffect
  <2>4. CASE LocalStore(s)
    <3>1. CASE Fits(now, s)
      <4>1. record'[u] = Meta("ready", now + TTL)
        BY <1>0, <2>4, <3>1 DEF LocalStore
      <4>2. now + TTL \in Nat
        BY <1>0, WorldTyped, LifeOfStaged
      <4> QED
        BY <4>1, <4>2, MetaTyped, StatusNames DEF Led
    <3>2. CASE ~Fits(now, s)
      BY <1>0, <2>1, <2>4, <3>2, SetDoes, RecordTyped DEF LocalStore
    <3> QED
      BY <3>1, <3>2
  <2> QED
    BY <1>1, <2>2, <2>3, <2>4
       DEF Store, Finalize, FinalizeFails, Forget, DiskCommit, Put, PutFails, Undo
<1>2. CASE pc[s] = "put"
  <2>1. backend' = backend /\ backend \in {"s3", "disk"}
    BY <1>0, <1>2, GoodParts, TimeMoves, UploadsAssumption DEF TypeOK, Locked, Next
  <2>2. backend = "s3" => record[u] # None
    BY <1>2, StagedIsFresh
  <2>3. Meta("ready", task[s].at + TTL) \in Metas /\ Meta("ready", task[s].at + TTL) # None
    <3>1. task[s].at + TTL \in Nat
      BY <1>0, NoteTyped, LifeOfStaged
    <3> QED
      BY <3>1, MetaTyped, StatusNames
  <2>4. ASSUME NEW v \in Upload, Put(s, v) \/ PutFails(s, v)
        PROVE  Led(u)'
    <3>1. pc'[s] \in {"put", "undo"} /\ record' = record
      BY <1>0, <1>2, <2>4, GotoKeeps DEF Put, PutFails, At
    <3> QED
      BY <2>1, <2>2, <3>1 DEF Led
  <2>5. CASE Finalize(s) \/ FinalizeFails(s)
    <3>1. record'[u] = Meta("ready", task[s].at + TTL) \/ record'[u] = record[u]
      BY <1>0, <2>5, SetDoes, RecordTyped DEF Finalize, FinalizeFails, Finalized
    <3>2. record'[u] # None
      BY <2>2, <2>3, <2>5, <3>1 DEF Finalize, FinalizeFails
    <3> QED
      BY <3>2 DEF Led
  <2>6. CASE DiskCommit(s)
    <3>1. record'[u] = Meta("ready", task[s].at + TTL) \/ u \in torn'
      BY <1>0, <2>3, <2>6, CommitDoes DEF DiskCommit
    <3> QED
      BY <2>3, <3>1 DEF Led
  <2> QED
    BY <1>2, <2>4, <2>5, <2>6
       DEF Store, Prepare, Reject, Reserve, OverQuota, DiskOpen, LocalStore, Forget, Undo
<1>3. CASE pc[s] = "undo"
  <2>1. CASE Forget(s)
    <3>1. Bare(u)
      BY <1>0, <1>3, <2>1 DEF Forget, Written
    <3> QED
      BY <2>1, <3>1 DEF Forget, Bare, Led
  <2>2. ASSUME NEW v \in Upload, Undo(s, v)
        PROVE  blob'[u] = None \/ Led(u)'
    <3>1. /\ pc'[s] = "undo" /\ record' = record /\ torn \subseteq torn' /\ backend' = backend
          /\ blob'[u] = blob[u] \/ blob'[u] = None
      BY <1>0, <1>3, <2>2, RecordTyped DEF Undo
    <3>2. blob[u] = None \/ Led(u)
      BY <1>0, GoodParts DEF BytesAreLed, Led
    <3> QED
      BY <3>1, <3>2 DEF Led
  <2> QED
    BY <1>3, <2>1, <2>2
       DEF Store, Prepare, Reject, Reserve, OverQuota, Finalize, FinalizeFails,
           DiskOpen, DiskCommit, LocalStore, Put, PutFails
<1> QED
  BY <1>1, <1>2, <1>3
     DEF Store, Prepare, Reject, Reserve, OverQuota, Finalize, FinalizeFails,
         Forget, DiskOpen, DiskCommit, LocalStore, Put, PutFails, Undo

LEMMA BytesAreLedKept ==
    ASSUME Good, ~MayStall, Next
    PROVE  BytesAreLed'
<1> SUFFICES ASSUME NEW u \in Upload, blob'[u] # None
             PROVE  Led(u)'
  BY DEF BytesAreLed, Led
<1>0. TypeOK /\ CallersKnow /\ backend' = backend /\ (blob[u] # None => Led(u))
  BY GoodParts, TimeMoves DEF BytesAreLed, Led
<1>1. CASE /\ Outside(u)
           /\ \A s \in Storer : u \in Batch[s] => pc'[s] = pc[s]
  <2>1. Untouched(u) => Led(u)'
    BY <1>0, <1>1 DEF Untouched, StaysTorn, Led
  <2>2. Dropped(u) => Led(u)'
    BY DEF Dropped, Bare, Led
  <2>3. Marked(u) \/ Rewritten(u) => Led(u)'
    BY DEF Marked, Rewritten, Led
  <2> QED
    BY <1>1, <2>1, <2>2, <2>3 DEF Outside, Swept, Unlinked
<1>2. CASE \E s \in Storer : u \in Batch[s]
  <2>1. PICK s \in Storer : u \in Batch[s]
    BY <1>2
  <2>2. CASE Store(s)
    BY <2>1, <2>2, StoreLeads
  <2>3. CASE Crash(s)
    <3>1. record' = record /\ blob' = blob /\ pc[s] \in Storing
      BY <2>3 DEF Crash
    <3>2. CASE record[u] # None \/ u \in torn
      BY <2>3, <3>1, <3>2 DEF Crash, Led
    <3>3. CASE backend = "disk" /\ \E z \in Storer : u \in Batch[z] /\ pc[z] \in {"put", "undo"}
      <4>1. lock = s
        BY <2>1, <3>3, OneBatch, GoodParts DEF Locked
      <4> QED
        BY <2>1, <2>3, <4>1 DEF Crash, Led
    <3> QED
      BY <1>0, <3>1, <3>2, <3>3 DEF Led
  <2>4. CASE pc'[s] = pc[s] /\ \A v \in Batch[s] : Outside(v)
    BY <1>1, <2>1, <2>4, OneBatch
  <2> QED
    BY <2>2, <2>3, <2>4, WhoMoves
<1>3. CASE ~\E s \in Storer : u \in Batch[s]
  BY <1>1, <1>3, EndedOutside DEF Ended
<1> QED
  BY <1>2, <1>3


\* What counts against the quota, tombstones excepted.
Live == {u \in Counted(now) : record[u].status # "deleting"}

LEMMA RoomFor ==
    ASSUME NEW t, NEW s \in Storer, NEW S \in SUBSET (Counted(t) \cup Batch[s]), Fits(t, s)
    PROVE  Cardinality(S) <= Quota
<1>1. /\ IsFiniteSet(Counted(t)) /\ Cardinality(Counted(t)) \in Nat
      /\ IsFiniteSet(Batch[s]) /\ Cardinality(Batch[s]) \in Nat
  <2>1. Counted(t) \in SUBSET Upload /\ Batch[s] \in SUBSET Upload /\ IsFiniteSet(Upload)
    BY UploadsAssumption DEF Counted
  <2>2. IsFiniteSet(Counted(t)) /\ IsFiniteSet(Batch[s])
    BY <2>1, FS_Subset
  <2> QED
    BY <2>2, FS_CardinalityType
<1>2. /\ IsFiniteSet(Counted(t) \cup Batch[s]) /\ Cardinality(Counted(t) \cup Batch[s]) \in Nat
      /\ Cardinality(Counted(t) \cup Batch[s])
           <= Cardinality(Counted(t)) + Cardinality(Batch[s])
  <2>1. Counted(t) \cap Batch[s] \in SUBSET Batch[s]
    OBVIOUS
  <2>2. IsFiniteSet(Counted(t) \cap Batch[s])
    BY <1>1, <2>1, FS_Subset
  <2>3. Cardinality(Counted(t) \cap Batch[s]) \in Nat
    BY <2>2, FS_CardinalityType
  <2>4. /\ IsFiniteSet(Counted(t) \cup Batch[s])
        /\ Cardinality(Counted(t) \cup Batch[s])
             = Cardinality(Counted(t)) + Cardinality(Batch[s]) - Cardinality(Counted(t) \cap Batch[s])
    BY <1>1, FS_Union
  <2>5. Cardinality(Counted(t) \cup Batch[s]) \in Nat
    BY <2>4, FS_CardinalityType
  <2> QED
    BY <1>1, <2>3, <2>4, <2>5
<1>3. /\ Cardinality(S) <= Cardinality(Counted(t) \cup Batch[s])
      /\ IsFiniteSet(S)
  BY <1>2, FS_Subset
<1>4. Cardinality(S) \in Nat /\ Quota \in Nat
  BY <1>3, FS_CardinalityType, UploadsAssumption
<1> QED
  BY <1>1, <1>2, <1>3, <1>4 DEF Fits

\* The calls that make the uploads of a principal more count them first; every
\* other step leaves a live upload live or makes it less.
LEMMA LiveGrows ==
    ASSUME Good, Next
    PROVE  \/ Live' \subseteq Live
           \/ \E s \in Storer, t \in Nat :
                 t <= now /\ Fits(t, s) /\ Live' \subseteq Live \cup Batch[s]
<1>0. TypeOK /\ CallersKnow
  BY GoodParts
<1>1. ASSUME NEW u \in Live', Dwindles(u)
      PROVE  u \in Live
  <2>1. /\ u \in Upload /\ record'[u] # None /\ record'[u].status # "deleting"
        /\ ~(record'[u].expires < now')
    BY <1>1 DEF Live, Counted, Stale
  <2>2. record'[u] = record[u]
    BY <1>1, <2>1 DEF Dwindles
  <2>3. record[u].expires \in Nat /\ now \in Nat /\ now' \in Nat /\ now <= now'
    BY <1>0, <2>1, <2>2, RecordTyped, WorldTyped, TimeMoves
  <2>4. ~(record[u].expires < now)
    BY <2>1, <2>2, <2>3
  <2> QED
    BY <2>1, <2>2, <2>4 DEF Live, Counted, Stale
<1>2. ASSUME NEW s \in Storer, Store(s)
      PROVE  \/ Live' \subseteq Live
             \/ \E t \in Nat : t <= now /\ Fits(t, s) /\ Live' \subseteq Live \cup Batch[s]
  <2>1. Live' \subseteq Live \cup Batch[s]
    <3> SUFFICES ASSUME NEW u \in Live', u \notin Batch[s]
                 PROVE  u \in Live
      OBVIOUS
    <3>1. u \in Upload
      BY DEF Live, Counted
    <3> QED
      BY <1>0, <1>1, <1>2, <3>1, StoreRecords DEF WrittenBy
  <2>2. pc[s] \in Storing => task[s].at \in Nat /\ task[s].at <= now
    BY <1>0, Threads, NoteTyped, GoodParts DEF StoringInTime
  <2>3. CASE Reserve(s)
    <3>1. Fits(task[s].at, s) /\ pc[s] \in Storing
      BY <2>3 DEF Reserve, Storing
    <3> QED
      BY <2>1, <2>2, <3>1
  <2>4. CASE DiskCommit(s)
    <3>1. Fits(task[s].at, s) /\ pc[s] \in Storing
      BY <2>4, GoodParts DEF DiskCommit, Locked, HaveRoom, Storing
    <3> QED
      BY <2>1, <2>2, <3>1
  <2>5. CASE LocalStore(s) /\ Fits(now, s)
    <3>1. now \in Nat /\ now <= now
      BY <1>0, WorldTyped
    <3> QED
      BY <2>1, <2>5, <3>1
  <2>6. CASE Finalize(s) \/ FinalizeFails(s)
    <3>1. pc[s] = "put" /\ backend = "s3"
      BY <2>6 DEF Finalize, FinalizeFails
    <3>2. Batch[s] \subseteq Live
      <4> SUFFICES ASSUME NEW u \in Batch[s]
                   PROVE  u \in Live
        OBVIOUS
      <4>1. u \in Upload /\ record[u] # None /\ record[u].status = "staging" /\ u \notin Stale(now)
        BY <1>0, <3>1, StagedIsFresh, WorldTyped
      <4> QED
        BY <4>1 DEF Live, Counted
    <3> QED
      BY <2>1, <3>2
  <2>7. CASE \A u \in Upload : record'[u] \in {record[u], None}
    <3>1. \A u \in Live' : u \in Upload /\ Dwindles(u)
      BY <2>7 DEF Live, Counted, Dwindles
    <3> QED
      BY <1>1, <3>1
  <2>8. CASE Prepare(s) \/ Reject(s) \/ OverQuota(s)
    BY <2>7, <2>8 DEF Prepare, Reject, OverQuota
  <2>9. CASE Forget(s)
    BY <1>0, <2>7, <2>9, SetTyped DEF Forget
  <2>10. CASE DiskOpen(s)
    BY <2>7, <2>10 DEF DiskOpen
  <2>11. CASE LocalStore(s) /\ ~Fits(now, s)
    BY <1>0, <2>7, <2>11, SetTyped DEF LocalStore
  <2>12. ASSUME NEW v \in Upload, Put(s, v) \/ PutFails(s, v) \/ Undo(s, v)
         PROVE  Live' \subseteq Live
    <3>1. record' = record
      BY <2>12 DEF Put, PutFails, Undo
    <3>2. \A u \in Live' : u \in Upload /\ Dwindles(u)
      BY <3>1 DEF Live, Counted, Dwindles
    <3> QED
      BY <1>1, <3>2
  <2> QED
    BY <1>2, <2>3, <2>4, <2>5, <2>6, <2>8, <2>9, <2>10, <2>11, <2>12 DEF Store
<1>3. ASSUME NEW c \in Caller, Call(c)
      PROVE  Live' \subseteq Live
  <2>1. \A u \in Live' : u \in Upload
    BY DEF Live, Counted
  <2> QED
    BY <1>0, <1>1, <1>3, <2>1, CallRecords
<1>4. ASSUME Tick \/ \E s \in Storer : Crash(s)
      PROVE  Live' \subseteq Live
  <2>1. \A u \in Live' : u \in Upload /\ record'[u] \in {record[u], None}
    BY <1>4 DEF Live, Counted, Tick, Crash
  <2> QED
    BY <1>1, <2>1 DEF Dwindles
<1> QED
  BY <1>2, <1>3, <1>4 DEF Next

LEMMA QuotaKept ==
    ASSUME Good, Next
    PROVE  QuotaHolds'
<1> SUFFICES Cardinality(Live') <= Quota
  BY DEF QuotaHolds, Live
<1>1. TypeOK /\ Cardinality(Live) <= Quota
  BY GoodParts DEF QuotaHolds, Live
<1>2. IsFiniteSet(Live) /\ IsFiniteSet(Upload) /\ Quota \in Nat
  <2>1. Live \in SUBSET Upload /\ IsFiniteSet(Upload)
    BY UploadsAssumption DEF Live, Counted
  <2> QED
    BY <2>1, FS_Subset, UploadsAssumption
<1>3. CASE Live' \subseteq Live
  <2>1. Live' \in SUBSET Live
    BY <1>3
  <2>2. Cardinality(Live') <= Cardinality(Live) /\ IsFiniteSet(Live')
    BY <1>2, <2>1, FS_Subset
  <2>3. Cardinality(Live) \in Nat /\ Cardinality(Live') \in Nat
    BY <1>2, <2>2, FS_CardinalityType
  <2> QED
    BY <1>1, <1>2, <2>2, <2>3
<1>4. ASSUME NEW s \in Storer, NEW t \in Nat, t <= now, Fits(t, s), Live' \subseteq Live \cup Batch[s]
      PROVE  Cardinality(Live') <= Quota
  <2>1. Live \subseteq Counted(t)
    <3> SUFFICES ASSUME NEW u \in Live
                 PROVE  u \in Counted(t)
      OBVIOUS
    <3>1. u \in Upload /\ record[u] # None /\ ~(record[u].expires < now)
      BY DEF Live, Counted, Stale
    <3>2. record[u].expires \in Nat /\ now \in Nat
      BY <1>1, <3>1, RecordTyped, WorldTyped
    <3>3. ~(record[u].expires < t)
      BY <1>4, <3>1, <3>2
    <3> QED
      BY <3>1, <3>3 DEF Counted, Stale
  <2>2. Live' \in SUBSET (Counted(t) \cup Batch[s])
    BY <1>4, <2>1
  <2> QED
    BY <1>4, <2>2, RoomFor
<1> QED
  BY <1>3, <1>4, LiveGrows

LEMMA InitGood == Init => Good
<1> SUFFICES ASSUME Init
             PROVE  Good
  OBVIOUS
<1>1. /\ \A s \in Storer : s \in Thread /\ pc[s] = "idle"
      /\ \A c \in Caller : c \in Thread /\ pc[c] = "idle"
      /\ \A u \in Upload : record[u] = None /\ blob[u] = None
  BY Threads DEF Init
<1>2. /\ NothingYet /\ StoringInTime /\ Reserved /\ Locked /\ RowsLinger /\ Written
      /\ CleanersKnow /\ StoredCanBeRead /\ BytesAreLed
  BY <1>1, UploadsAssumption
     DEF NothingYet, StoringInTime, Storing, Reserved, Locked, RowsLinger, Written, CleanersKnow,
         StoredCanBeRead, BytesAreLed
<1>3. QuotaHolds
  <2>1. Live = {}
    BY <1>1 DEF Live, Counted
  <2>2. Cardinality(Live) = 0 /\ Quota \in Nat
    BY <2>1, FS_EmptySet, UploadsAssumption
  <2>3. Cardinality(Live) <= Quota
    BY <2>2
  <2> QED
    BY <2>3 DEF QuotaHolds, Live
<1> QED
  BY <1>2, <1>3, InitDeletion DEF Good, UploadInv

LEMMA StutterGood == Good /\ UNCHANGED vars => Good'
<1> SUFFICES ASSUME Good, UNCHANGED vars
             PROVE  Good'
  OBVIOUS
<1>1. (TypeOK /\ DeletionInv)'
  BY StutterDeletion DEF Good
<1>2. /\ StoringInTime' /\ NothingYet' /\ Reserved' /\ Locked' /\ RowsLinger'
      /\ Written' /\ CleanersKnow'
  BY GoodParts
     DEF vars, StoringInTime, NothingYet, Reserved, Locked, HaveRoom, RowsLinger, Written, CleanersKnow,
         Fits, Counted, Stale, Past, Ended, Bare, Readable
<1>3. StoredCanBeRead' /\ BytesAreLed'
  BY GoodParts DEF vars, StoredCanBeRead, BytesAreLed, Counted, Stale, Readable
<1>4. QuotaHolds'
  <2>1. Live' = Live
    BY DEF vars, Live, Counted, Stale
  <2>2. Cardinality(Live) <= Quota
    BY GoodParts DEF QuotaHolds, Live
  <2>3. Cardinality(Live') <= Quota
    BY <2>1, <2>2
  <2> QED
    BY <2>3 DEF QuotaHolds, Live
<1> QED
  BY <1>1, <1>2, <1>3, <1>4 DEF Good, UploadInv

LEMMA StepGood ==
    ASSUME ~MayStall, Good, [Next]_vars
    PROVE  Good'
<1>1. CASE Next
  <2>1. (TypeOK /\ DeletionInv)'
    BY <1>1, StepDeletion DEF Good
  <2> QED
    BY <1>1, <2>1, StoringInTimeKept, NothingYetKept, ReservedKept, LockedKept, RowsLingerKept, WrittenKept,
       CleanersKnowKept, StoredKept, BytesAreLedKept, QuotaKept DEF Good, UploadInv
<1> QED
  BY <1>1, StutterGood

LEMMA GoodIsAnInvariant == ~MayStall => (Spec => []Good)
<1> SUFFICES ASSUME ~MayStall
             PROVE  Spec => []Good
  OBVIOUS
<1>1. Good /\ [Next]_vars => Good'
  BY StepGood
<1> QED
  BY InitGood, <1>1, PTL DEF Spec

(***************************************************************************)
(* The theorems about calls that end in time.                              *)
(***************************************************************************)
\* A handle that store() returned can be read until it expires or is deleted:
\* no cleanup of a list, no compensation of another call and no delete that
\* read an older record takes its bytes.
THEOREM StoredUploadsCanBeRead == ~MayStall => (Spec => []StoredCanBeRead)
<1>1. Good => StoredCanBeRead
  BY GoodParts
<1> QED
  BY GoodIsAnInvariant, <1>1, PTL

\* However many calls of store() run at once, each with a time of its own, what
\* a principal has stored or is storing fits MCP_UPLOAD_QUOTA_BYTES.
THEOREM UploadsFitTheQuota == ~MayStall => (Spec => []QuotaHolds)
<1>1. Good => QuotaHolds
  BY GoodParts
<1> QED
  BY GoodIsAnInvariant, <1>1, PTL

\* No call leaves bytes that no record leads a cleanup to, except by the faults
\* that torn records.
THEOREM BytesStayAccountedFor == ~MayStall => (Spec => []BytesAreAccountedFor)
<1>1. Good => BytesAreAccountedFor
  BY GoodParts DEF BytesAreLed, BytesAreAccountedFor
<1> QED
  BY GoodIsAnInvariant, <1>1, PTL
=============================================================================

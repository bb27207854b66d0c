-------------------------- MODULE Credentials_proofs --------------------------
(***************************************************************************)
(* Proofs about Credentials, for any number of threads, processes and      *)
(* OAuth states: a one-time state serves one callback; refreshes keep each *)
(* other's results but for those that outlast their Redis lock; and a late *)
(* invalidation deletes nothing newer than what it compared.               *)
(***************************************************************************)
EXTENDS Credentials, TLAPS

\* What the proofs need to know of the variables' types.
Shape ==
    /\ stored \in Gen \cup {Nobody}
    /\ pc \in [Thread -> PC]
    /\ held \in [Thread -> Gen \cup {Nobody}]
    /\ taken \in [Thread -> State \cup {Nobody}]
    /\ open \subseteq issued /\ issued \subseteq State

\* The steps of one thread outside of a callback's consumption.
Critical(t) == TakeLocal(t) \/ TakeRemote(t) \/ Load(t) \/ Refresh(t) \/ Save(t) \/ Drop(t) \/ Release(t)
Using(t) == Arrive(t) \/ Call(t) \/ Watch(t) \/ Compare(t) \/ Delete(t) \/ Find(t) \/ Revoke(t) \/ Erase(t)
Answering(t) == Consume(t) \/ Previous(t) \/ Exchange(t) \/ Replace(t)
Around == Authorize \/ StateExpires \/ Lapse \/ \E p \in Replica : Crash(p)

USE NamesDistinct DEF NamesDistinct
USE DEF PC, Working, Inside, Ended, Gen, Goto, Write, lockVars, stateVars

LEMMA InitSerial == Init => Shape /\ SerialInv
BY DEF Init, Shape, SerialInv, HolderInside, LoadedIsStored, StatesAreSpent, StateServesOnce

LEMMA CriticalShape == ASSUME NEW t \in Thread, Shape, Critical(t) PROVE Shape'
BY DEF Shape, Critical, TakeLocal, TakeRemote, Load, Refresh, Save, Drop, Release

LEMMA UsingShape == ASSUME NEW t \in Thread, Shape, Using(t) PROVE Shape'
BY DEF Shape, Using, Arrive, Call, Watch, Compare, Delete, Find, Revoke, Erase

LEMMA AnsweringShape == ASSUME NEW t \in Thread, Shape, Answering(t) PROVE Shape'
BY DEF Shape, Answering, Consume, Previous, Exchange, Replace

LEMMA AroundShape == ASSUME Shape, Around PROVE Shape'
BY DEF Shape, Around, Authorize, StateExpires, Lapse, Crash

\* One-time states, whatever becomes of the locks.
StateInv == StatesAreSpent /\ StateServesOnce

LEMMA StepStates == ASSUME Shape, StateInv, [Next]_vars PROVE StateInv'
<1> USE DEF Shape, StateInv, StatesAreSpent, StateServesOnce
<1>1. ASSUME NEW t \in Thread, Critical(t) PROVE StateInv'
    BY <1>1 DEF Critical, TakeLocal, TakeRemote, Load, Refresh, Save, Drop, Release
<1>2. ASSUME NEW t \in Thread, Using(t) PROVE StateInv'
    BY <1>2 DEF Using, Arrive, Call, Watch, Compare, Delete, Find, Revoke, Erase
<1>3. ASSUME NEW t \in Thread, Consume(t) PROVE StateInv'
    \* The state was open, hence nobody had taken it.
    BY <1>3 DEF Consume
<1>4. ASSUME NEW t \in Thread, Previous(t) \/ Exchange(t) \/ Replace(t) PROVE StateInv'
    BY <1>4 DEF Previous, Exchange, Replace
<1>5. CASE Around
    BY <1>5 DEF Around, Authorize, StateExpires, Lapse, Crash
<1>6. CASE UNCHANGED vars
    BY <1>6 DEF vars
<1> QED
    BY <1>1, <1>2, <1>3, <1>4, <1>5, <1>6 DEF Next, Progress, Critical, Using, Around

LEMMA StepShape == ASSUME Shape, [Next]_vars PROVE Shape'
<1>1. ASSUME NEW t \in Thread, Critical(t) \/ Using(t) \/ Answering(t) PROVE Shape'
    BY <1>1, CriticalShape, UsingShape, AnsweringShape
<1>2. CASE Around
    BY <1>2, AroundShape
<1>3. CASE UNCHANGED vars
    BY <1>3 DEF vars, Shape
<1> QED
    BY <1>1, <1>2, <1>3 DEF Next, Progress, Critical, Using, Answering, Around

LEMMA CriticalSerial ==
    ASSUME NEW t \in Thread, Shape, SerialInv, Critical(t)
    PROVE  HolderInside' /\ LoadedIsStored'
<1> USE DEF Shape, SerialInv
<1>1. HolderInside'
    BY DEF Critical, TakeLocal, TakeRemote, Load, Refresh, Save, Drop, Release, HolderInside
<1>2. LoadedIsStored'
  <2>1. CASE Save(t) \/ Drop(t)
      \* t holds the lock, and no other refresh is under way but those that lost it;
      \* or t lost it, and what it stores is exempted.
      BY <2>1 DEF Save, Drop, LoadedIsStored, HolderInside, Replacements
  <2>2. CASE Load(t)
      BY <2>2 DEF Load, LoadedIsStored, Replacements
  <2>3. CASE TakeLocal(t) \/ TakeRemote(t) \/ Refresh(t) \/ Release(t)
      BY <2>3 DEF TakeLocal, TakeRemote, Refresh, Release, LoadedIsStored, Replacements
  <2> QED BY <2>1, <2>2, <2>3 DEF Critical
<1> QED BY <1>1, <1>2

LEMMA UsingSerial ==
    ASSUME NEW t \in Thread, Shape, SerialInv, Using(t) PROVE HolderInside' /\ LoadedIsStored'
<1> USE DEF Shape, SerialInv, Using, Arrive, Call, Watch, Compare, Delete, Find, Revoke, Erase
<1>1. HolderInside'
    BY DEF HolderInside
<1>2. LoadedIsStored'
    BY DEF LoadedIsStored, Replacements
<1> QED BY <1>1, <1>2

LEMMA AnsweringSerial ==
    ASSUME NEW t \in Thread, Shape, SerialInv, Answering(t) PROVE HolderInside' /\ LoadedIsStored'
<1> USE DEF Shape, SerialInv
<1>1. HolderInside'
    BY DEF Answering, Consume, Previous, Exchange, Replace, HolderInside
<1>2. LoadedIsStored'
  <2>1. CASE Consume(t)
      BY <2>1 DEF Consume, LoadedIsStored, Replacements
  <2>2. CASE Previous(t) \/ Exchange(t)
      BY <2>2 DEF Previous, Exchange, LoadedIsStored, Replacements
  <2>3. CASE Replace(t)
      \* What a callback stores is a replacement.
      BY <2>3 DEF Replace, LoadedIsStored, Replacements, StatesAreSpent
  <2> QED BY <2>1, <2>2, <2>3 DEF Answering
<1> QED BY <1>1, <1>2

LEMMA AroundSerial ==
    ASSUME Shape, SerialInv, Around PROVE HolderInside' /\ LoadedIsStored'
<1> USE DEF Shape, SerialInv, Around, Authorize, StateExpires, Lapse, Crash
<1>1. HolderInside'
    BY DEF HolderInside
<1>2. LoadedIsStored'
    BY DEF LoadedIsStored, Replacements
<1> QED BY <1>1, <1>2

LEMMA StepSerial ==
    ASSUME Shape, SerialInv, [Next]_vars PROVE Shape' /\ SerialInv'
<1>1. Shape' /\ StateInv'
    BY StepShape, StepStates DEF SerialInv, StateInv
<1>2. HolderInside' /\ LoadedIsStored'
  <2>1. ASSUME NEW t \in Thread, Critical(t) \/ Using(t) \/ Answering(t)
        PROVE HolderInside' /\ LoadedIsStored'
      BY <2>1, CriticalSerial, UsingSerial, AnsweringSerial
  <2>2. CASE Around
      BY <2>2, AroundSerial
  <2>3. CASE UNCHANGED vars
      BY <2>3 DEF vars, SerialInv, HolderInside, LoadedIsStored, Replacements
  <2> QED
      BY <2>1, <2>2, <2>3 DEF Next, Progress, Critical, Using, Answering, Around
<1> QED BY <1>1, <1>2 DEF SerialInv, StateInv

\* A one-time OAuth state is exchanged by one callback, however often and
\* however concurrently it is delivered.
THEOREM StateOnce == Spec => []StateServesOnce
<1>1. Init => Shape /\ StateInv
    BY InitSerial DEF SerialInv, StateInv
<1>2. (Shape /\ StateInv) /\ [Next]_vars => (Shape /\ StateInv)'
    BY StepShape, StepStates
<1>3. Shape /\ StateInv => StateServesOnce
    BY DEF StateInv
<1> QED BY <1>1, <1>2, <1>3, PTL DEF Spec

\* The invariant behind the next result: whoever works under the Redis lock holds
\* it, unless it lapsed under it, and what it loaded is still stored, gone, or
\* replaced by a callback or by a refresh that outlasted its lock.
THEOREM SerialInvariant == Spec => [](Shape /\ SerialInv)
<1>1. Init => Shape /\ SerialInv
    BY InitSerial
<1>2. (Shape /\ SerialInv) /\ [Next]_vars => (Shape /\ SerialInv)'
    BY StepSerial
<1> QED BY <1>1, <1>2, PTL DEF Spec

\* Of two processes that refresh one principal's token, neither overwrites or
\* deletes what the other stored, if the lock lapsed under neither.
THEOREM RefreshesAreSerial == Spec => RefreshesKeepEachOther
<1>1. Shape /\ SerialInv /\ [Next]_vars =>
        [\A t \in Thread \ overrun : pc[t] \in {"save", "drop"} /\ pc'[t] \in {"leave", "fail"} =>
            stored \in {held[t], Nobody} \cup Replacements \cup overrun]_vars
    BY DEF SerialInv, LoadedIsStored
<1> QED BY <1>1, SerialInvariant, PTL DEF Spec, RefreshesKeepEachOther

(***************************************************************************)
(* Types, and the invalidation.                                            *)
(***************************************************************************)
\* Whoever refreshes or revokes has credentials to do it with.
Equipped == \A t \in Thread : pc[t] \in {"refresh", "revoke"} => held[t] # Nobody

LEMMA StepTypes == ASSUME TypeOK, Equipped, [Next]_vars PROVE TypeOK' /\ Equipped'
<1> USE DEF TypeOK, Equipped
<1>1. ASSUME NEW t \in Thread, TakeLocal(t) \/ TakeRemote(t) \/ Release(t) PROVE TypeOK' /\ Equipped'
    BY <1>1, HomeIsReplica DEF TakeLocal, TakeRemote, Release
<1>2. ASSUME NEW t \in Thread, Load(t) \/ Save(t) \/ Drop(t) PROVE TypeOK' /\ Equipped'
    BY <1>2 DEF Load, Save, Drop
<1>3. ASSUME NEW t \in Thread, Refresh(t) PROVE TypeOK' /\ Equipped'
    BY <1>3 DEF Refresh
<1>4. ASSUME NEW t \in Thread, Arrive(t) \/ Call(t) \/ Watch(t) \/ Compare(t) \/ Delete(t) PROVE TypeOK' /\ Equipped'
    BY <1>4 DEF Arrive, Call, Watch, Compare, Delete
<1>5. ASSUME NEW t \in Thread, Find(t) \/ Revoke(t) \/ Erase(t) PROVE TypeOK' /\ Equipped'
    BY <1>5 DEF Find, Revoke, Erase
<1>6. ASSUME NEW t \in Thread, Answering(t) PROVE TypeOK' /\ Equipped'
    BY <1>6 DEF Answering, Consume, Previous, Exchange, Replace
<1>7. CASE Authorize \/ StateExpires \/ Lapse
    BY <1>7 DEF Authorize, StateExpires, Lapse
<1>8. ASSUME NEW p \in Replica, Crash(p) PROVE TypeOK' /\ Equipped'
    BY <1>8, HomeIsReplica DEF Crash
<1>9. CASE UNCHANGED vars
    BY <1>9 DEF vars
<1> QED
    BY <1>1, <1>2, <1>3, <1>4, <1>5, <1>6, <1>7, <1>8, <1>9 DEF Next, Progress, Answering

\* Every variable keeps its type; in particular a process lock is only ever held
\* by a thread of that process that is inside the critical section.
THEOREM CredentialsTypeOK == Spec => []TypeOK
<1>1. Init => TypeOK /\ Equipped
    BY DEF Init, TypeOK, Equipped
<1>2. (TypeOK /\ Equipped) /\ [Next]_vars => (TypeOK /\ Equipped)'
    BY StepTypes
<1> QED BY <1>1, <1>2, PTL DEF Spec

\* What an invalidation is about to delete is what it compared, unless Redis marked
\* its connection: every write of another thread between WATCH and EXEC does.
LEMMA StepCompared == ASSUME Shape, ComparedIsStored, [Next]_vars PROVE ComparedIsStored'
<1> USE DEF Shape, ComparedIsStored
<1>1. ASSUME NEW t \in Thread, Critical(t) PROVE ComparedIsStored'
    BY <1>1 DEF Critical, TakeLocal, TakeRemote, Load, Refresh, Save, Drop, Release
<1>2. ASSUME NEW t \in Thread, Using(t) PROVE ComparedIsStored'
    BY <1>2 DEF Using, Arrive, Call, Watch, Compare, Delete, Find, Revoke, Erase
<1>3. ASSUME NEW t \in Thread, Answering(t) PROVE ComparedIsStored'
    BY <1>3 DEF Answering, Consume, Previous, Exchange, Replace
<1>4. CASE Around
    BY <1>4 DEF Around, Authorize, StateExpires, Lapse, Crash
<1>5. CASE UNCHANGED vars
    BY <1>5 DEF vars
<1> QED
    BY <1>1, <1>2, <1>3, <1>4, <1>5 DEF Next, Progress, Critical, Using, Answering, Around

\* The late 401 of an old generation never deletes a newer one.
THEOREM InvalidationIsConditional == Spec => InvalidationKeepsNewer
<1>1. ASSUME Shape, ComparedIsStored, [Next]_vars
      PROVE  \A t \in Thread : pc[t] = "delete" /\ pc'[t] = "done" => stored = held[t]
  <2> SUFFICES ASSUME NEW t \in Thread, pc[t] = "delete", pc'[t] = "done" PROVE stored = held[t]
    OBVIOUS
  <2>1. ASSUME NEW q \in Thread, Critical(q) \/ Answering(q) PROVE pc'[t] = pc[t]
    BY <1>1, <2>1 DEF Shape, Critical, TakeLocal, TakeRemote, Load, Refresh, Save, Drop, Release,
                      Answering, Consume, Previous, Exchange, Replace
  <2>2. ASSUME NEW q \in Thread, Using(q) PROVE stored = held[t]
    \* Only EXEC ends it, unmarked.
    BY <1>1, <2>2 DEF Shape, ComparedIsStored, Using, Arrive, Call, Watch, Compare, Delete,
                      Find, Revoke, Erase
  <2>3. CASE Around \/ UNCHANGED vars
    BY <1>1, <2>3 DEF Shape, Around, Authorize, StateExpires, Lapse, Crash, vars
  <2> QED
    BY <1>1, <2>1, <2>2, <2>3 DEF Next, Progress, Critical, Using, Answering, Around
<1>2. Spec => [](Shape /\ ComparedIsStored)
  <2>1. Init => Shape /\ ComparedIsStored
    BY InitSerial DEF Init, ComparedIsStored
  <2>2. (Shape /\ ComparedIsStored) /\ [Next]_vars => (Shape /\ ComparedIsStored)'
    BY StepShape, StepCompared
  <2> QED BY <2>1, <2>2, PTL DEF Spec
<1> QED BY <1>1, <1>2, PTL DEF Spec, InvalidationKeepsNewer
=============================================================================

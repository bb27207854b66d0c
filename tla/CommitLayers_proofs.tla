-------------------------- MODULE CommitLayers_proofs --------------------------
(***************************************************************************)
(* An operation that is cleared for another try was never touched, for any *)
(* number of Google calls.  The argument: once a closed tracker is empty,  *)
(* no thread that registers with it can send, and every call it ever let   *)
(* through was rejected; and a layer hands up a plain error only from such *)
(* a tracker.  What a rejection is worth depends on the call: a resent one *)
(* may have had its effect, and is never taken for untouched here.         *)
(***************************************************************************)
EXTENDS CommitLayers, TLAPS

\* The tracker of layer l has the call in the list of how it ended.
Listed(c, l) ==
    \/ fate[c] = "applied" /\ c \in applied[l]
    \/ fate[c] = "rejected" /\ c \in rejected[l]
    \/ fate[c] = "uncertain" /\ c \in uncertain[l]

\* Every tracker knows of a call from before it is sent until it ended, and
\* how it ended from then on.
Accounted(c) ==
    /\ step[c] \in {"new", "start", "undo", "refused"} => c \notin sent
    /\ step[c] = "start" => \A l \in Layers : l < at[c] => c \in inFlight[l]
    /\ step[c] = "sent" => \A l \in Layers : c \in inFlight[l]
    /\ step[c] = "finish" => at[c] \in Layers
    /\ step[c] = "finish" => \A l \in Layers :
          IF l < at[c] THEN Listed(c, l) ELSE c \in inFlight[l]
    /\ step[c] = "over" => \A l \in Layers : Listed(c, l)
    /\ Refused(c) => c \notin effect \/ c \in Resent

\* A call that has had no effect and will have none, given that layer l is
\* closed, unless it was refused after an attempt nobody heard of.
Spent(c, l) ==
    /\ c \in effect => Misjudged(c)
    /\ \/ step[c] \in {"new", "undo", "refused"}
       \/ step[c] = "start" /\ at[c] <= l
       \/ Refused(c)

Cleared(l) == l \in closed /\ \A c \in Call : Spent(c, l)

\* What is recorded, or handed up, as without effect.
Plain ==
    \/ result \in {"error_other", "error_pre"}
    \/ \E l \in Guards : rec[l] \in {"released", "failed"}

\* Inductive.
LayersInv ==
    /\ TypeOK
    /\ \A c \in Call : Accounted(c)
    /\ Plain => \E l \in Layers : Cleared(l)

\* A closed tracker that holds nothing uncertain or applied has cleared all calls.
USE DEF Refused, Misjudged

LEMMA EmptyIsCleared ==
    ASSUME TypeOK, \A c \in Call : Accounted(c),
           NEW l \in Layers, l \in closed, ~Unsure(l, TRUE)
    PROVE  Cleared(l)
<1> SUFFICES ASSUME NEW c \in Call PROVE Spent(c, l)
  BY DEF Cleared
<1>1. c \notin inFlight[l] /\ c \notin uncertain[l] /\ c \notin applied[l]
  BY DEF Unsure
<1>2. step[c] \in ThreadStep /\ fate[c] \in Fate /\ at[c] \in 0 .. 5 /\ Accounted(c)
  BY DEF TypeOK
<1>3. effect \subseteq sent
  BY DEF TypeOK
<1>4. CASE step[c] \in {"new", "undo", "refused"}
  BY <1>2, <1>3, <1>4 DEF Spent, Accounted
<1>5. CASE step[c] = "start"
  <2>1. at[c] <= l
    BY <1>1, <1>2, <1>5 DEF Accounted, Layers
  <2> QED
    BY <1>2, <1>3, <1>5, <2>1 DEF Spent, Accounted
<1>6. CASE step[c] = "sent"
  BY <1>1, <1>2, <1>6 DEF Accounted
<1>7. CASE step[c] \in {"finish", "over"}
  <2>1. Listed(c, l)
    BY <1>1, <1>2, <1>7 DEF Accounted
  <2>2. fate[c] = "rejected"
    BY <1>1, <1>2, <2>1 DEF Listed
  <2> QED
    BY <1>2, <1>7, <2>2 DEF Spent, Accounted
<1> QED
  BY <1>2, <1>4, <1>5, <1>6, <1>7 DEF ThreadStep

LEMMA InitLayers == Init => LayersInv
<1> SUFFICES ASSUME Init PROVE LayersInv
  OBVIOUS
<1>1. TypeOK
  BY DEF Init, TypeOK, Layers, Guards, Result, RecordState, ThreadStep, Fate
<1>2. \A c \in Call : Accounted(c)
  BY DEF Init, Accounted
<1>3. ~Plain
  BY DEF Init, Plain, Guards
<1> QED
  BY <1>1, <1>2, <1>3 DEF LayersInv

(***************************************************************************)
(* Steps of a thread: they leave the layers alone, and other calls.        *)
(***************************************************************************)
\* A step of another thread.
Same(d) ==
    /\ step'[d] = step[d] /\ at'[d] = at[d] /\ fate'[d] = fate[d]
    /\ (d \in sent' <=> d \in sent) /\ (d \in effect' <=> d \in effect)
    /\ \A l \in Layers : /\ d \in inFlight'[l] <=> d \in inFlight[l]
                         /\ d \in applied'[l] <=> d \in applied[l]
                         /\ d \in rejected'[l] <=> d \in rejected[l]
                         /\ d \in uncertain'[l] <=> d \in uncertain[l]

LEMMA SameIsAccounted ==
    ASSUME NEW d \in Call, Accounted(d), Same(d)
    PROVE  Accounted(d)'
<1>1. \A l \in Layers : Listed(d, l) => Listed(d, l)'
  BY DEF Same, Listed
<1> QED
  BY <1>1 DEF Same, Accounted

LEMMA ThreadKeeps ==
    ASSUME LayersInv, NEW c \in Call, UNCHANGED layerVars,
           TypeOK', Accounted(c)', \A d \in Call : d # c => Same(d),
           \A l \in closed : Spent(c, l) => Spent(c, l)'
    PROVE  LayersInv'
<1>1. ASSUME NEW l \in Layers, Cleared(l) PROVE Cleared(l)'
  <2>1. closed' = closed
    BY DEF layerVars
  <2>2. ASSUME NEW d \in Call PROVE Spent(d, l)'
    <3>1. Spent(d, l) /\ l \in closed
      BY <1>1 DEF Cleared
    <3> QED
      BY <3>1 DEF Spent, Same
  <2> QED
    BY <1>1, <2>1, <2>2 DEF Cleared
<1>2. Plain' => Plain
  BY DEF Plain, layerVars
<1>3. \A d \in Call : Accounted(d)'
  BY SameIsAccounted DEF LayersInv
<1> QED
  BY <1>1, <1>2, <1>3 DEF LayersInv

LEMMA ThreadStepKeeps ==
    ASSUME LayersInv, NEW c \in Call,
           \/ Begin(c) \/ Register(c) \/ BackOut(c) \/ Send(c)
           \/ Land(c) \/ Answer(c) \/ Report(c)
    PROVE  LayersInv'
<1>1. /\ TypeOK
      /\ Accounted(c)
      /\ at[c] \in 0 .. 5 /\ fate[c] \in Fate
  BY DEF LayersInv, TypeOK
<1> USE DEF layerVars, trackers, Thread
<1>2. CASE Begin(c)
  <2>1. TypeOK'
    BY <1>1, <1>2 DEF Begin, TypeOK, ThreadStep
  <2>2. \A d \in Call : d # c => Same(d)
    BY <1>1, <1>2 DEF Begin, TypeOK, Same
  <2>3. step'[c] = "start" /\ at'[c] = 1 /\ step[c] = "new" /\ UNCHANGED <<sent, effect, inFlight, closed>>
    BY <1>1, <1>2 DEF Begin, TypeOK
  <2>4. Accounted(c)'
    BY <1>1, <2>3 DEF Accounted, Layers
  <2>5. c \notin effect
    BY <1>1, <2>3 DEF Accounted, TypeOK
  <2>6. \A l \in closed : Spent(c, l) => Spent(c, l)'
    BY <1>1, <2>3, <2>5 DEF Spent, TypeOK, Layers
  <2> QED
    BY <1>2, <2>1, <2>2, <2>4, <2>6, ThreadKeeps DEF Begin
<1>3. CASE Register(c)
  <2>1. TypeOK'
    BY <1>1, <1>3 DEF Register, Add, TypeOK, ThreadStep, Layers
  <2>2. \A d \in Call : d # c => Same(d)
    BY <1>1, <1>3 DEF Register, Add, TypeOK, Same
  <2>3. /\ step[c] = "start" /\ UNCHANGED <<sent, effect, closed, fate>>
        /\ at[c] \in Layers
        /\ \/ /\ at[c] \notin closed /\ step'[c] = "start" /\ at'[c] = at[c] + 1
              /\ inFlight'[at[c]] = inFlight[at[c]] \cup {c}
              /\ \A l \in Layers : l # at[c] => inFlight'[l] = inFlight[l]
           \/ at[c] \in closed /\ step'[c] = "undo"
    BY <1>1, <1>3 DEF Register, Add, TypeOK
  <2>4. Accounted(c)'
    BY <1>1, <2>3 DEF Accounted, Layers
  <2>5. \A l \in closed : Spent(c, l) => Spent(c, l)'
    BY <1>1, <2>3 DEF Spent, TypeOK, Layers
  <2> QED
    BY <1>3, <2>1, <2>2, <2>4, <2>5, ThreadKeeps DEF Register
<1>4. CASE BackOut(c)
  <2>1. TypeOK'
    BY <1>1, <1>4 DEF BackOut, Remove, TypeOK, ThreadStep
  <2>2. \A d \in Call : d # c => Same(d)
    BY <1>1, <1>4 DEF BackOut, Remove, TypeOK, Same
  <2>3. /\ step[c] = "undo" /\ step'[c] \in {"undo", "refused"}
        /\ UNCHANGED <<sent, effect, closed>>
    BY <1>1, <1>4 DEF BackOut, TypeOK
  <2>4. Accounted(c)'
    BY <1>1, <2>3 DEF Accounted
  <2>5. \A l \in closed : Spent(c, l) => Spent(c, l)'
    BY <2>3 DEF Spent
  <2> QED
    BY <1>4, <2>1, <2>2, <2>4, <2>5, ThreadKeeps DEF BackOut
<1>5. CASE Send(c)
  <2>1. TypeOK'
    BY <1>1, <1>5 DEF Send, TypeOK, ThreadStep
  <2>2. \A d \in Call : d # c => Same(d)
    BY <1>1, <1>5 DEF Send, TypeOK, Same
  <2>3. /\ step[c] = "start" /\ at[c] = 5 /\ step'[c] = "sent"
        /\ UNCHANGED <<inFlight, effect, closed>>
    BY <1>1, <1>5 DEF Send, TypeOK
  <2>4. Accounted(c)'
    BY <1>1, <2>3 DEF Accounted, Layers
  <2>5. \A l \in closed : ~Spent(c, l)
    <3>1. closed \subseteq 1 .. 4
      BY <1>1 DEF TypeOK, Layers
    <3> QED BY <2>3, <3>1 DEF Spent
  <2> QED
    BY <1>5, <2>1, <2>2, <2>4, <2>5, ThreadKeeps DEF Send
<1>6. CASE Land(c)
  <2>1. TypeOK'
    BY <1>1, <1>6 DEF Land, TypeOK
  <2>2. \A d \in Call : d # c => Same(d)
    BY <1>1, <1>6 DEF Land, Same
  <2>3. /\ c \in sent
        /\ step[c] = "sent" \/ (step[c] \in {"finish", "over"} /\ fate[c] = "uncertain") \/ Misjudged(c)
        /\ UNCHANGED <<step, at, fate, sent, closed, trackers>>
    BY <1>6 DEF Land
  <2>4. Accounted(c)'
    BY <1>1, <2>3 DEF Accounted, Listed
  <2>5. \A l \in closed : Spent(c, l) => Spent(c, l)'
    BY <2>3 DEF Spent
  <2> QED
    BY <1>6, <2>1, <2>2, <2>4, <2>5, ThreadKeeps DEF Land
<1>7. CASE Answer(c)
  <2>1. TypeOK'
    BY <1>1, <1>7 DEF Answer, TypeOK, ThreadStep
  <2>2. \A d \in Call : d # c => Same(d)
    BY <1>1, <1>7 DEF Answer, TypeOK, Same
  <2>3. /\ step[c] = "sent" /\ step'[c] = "finish" /\ at'[c] = 1
        /\ fate'[c] = "rejected" => c \notin effect \/ c \in Resent
        /\ UNCHANGED <<sent, effect, closed, trackers>>
    BY <1>1, <1>7 DEF Answer, TypeOK
  <2>4. Accounted(c)'
    BY <1>1, <2>3 DEF Accounted, Layers
  <2>5. \A l \in closed : Spent(c, l) => Spent(c, l)'
    BY <2>3 DEF Spent
  <2> QED
    BY <1>7, <2>1, <2>2, <2>4, <2>5, ThreadKeeps DEF Answer
<1>8. CASE Report(c)
  <2>1. step[c] = "finish" /\ at[c] \in Layers
    BY <1>1, <1>8 DEF Report, Accounted
  <2>2. TypeOK'
    BY <1>1, <1>8, <2>1 DEF Report, Add, Remove, TypeOK, ThreadStep, Layers
  <2>3. \A d \in Call : d # c => Same(d)
    BY <1>1, <1>8 DEF Report, Add, Remove, TypeOK, Same
  <2>4. /\ IF at[c] = 4 THEN step'[c] = "over" ELSE step'[c] = "finish" /\ at'[c] = at[c] + 1
        /\ UNCHANGED <<fate, sent, effect, closed>>
        /\ \A l \in Layers : l # at[c] => inFlight'[l] = inFlight[l]
    BY <1>1, <1>8, <2>1 DEF Report, Remove, TypeOK
  <2>5. \A l \in Layers : l = at[c] \/ Listed(c, l) => Listed(c, l)'
    BY <1>1, <1>8, <2>1 DEF Report, Add, TypeOK, Listed, Fate
  <2>6. Accounted(c)'
    BY <1>1, <2>1, <2>4, <2>5 DEF Accounted, Layers
  <2>7. \A l \in closed : Spent(c, l) => Spent(c, l)'
    BY <2>1, <2>4 DEF Spent
  <2> QED
    BY <1>8, <2>2, <2>3, <2>6, <2>7, ThreadKeeps DEF Report
<1> QED
  BY <1>2, <1>3, <1>4, <1>5, <1>6, <1>7, <1>8

(***************************************************************************)
(* Steps of a layer: they leave the threads alone.                         *)
(***************************************************************************)
LEMMA ClearedStays ==
    ASSUME NEW l \in Layers, Cleared(l), UNCHANGED threadVars, closed \subseteq closed'
    PROVE  Cleared(l)'
BY DEF Cleared, Spent, threadVars

LEMMA LayerKeeps ==
    ASSUME LayersInv, UNCHANGED <<threadVars, trackers>>, closed \subseteq closed', TypeOK',
           Plain' => \E l \in Layers : Cleared(l)
    PROVE  LayersInv'
<1>1. \A c \in Call : Accounted(c)'
  BY DEF LayersInv, Accounted, Listed, threadVars, trackers
<1>2. Plain' => \E l \in Layers : Cleared(l)'
  BY ClearedStays
<1> QED
  BY <1>1, <1>2 DEF LayersInv

LEMMA EndBodyKeeps == ASSUME LayersInv, EndBody PROVE LayersInv'
<1>1. TypeOK'
  BY DEF LayersInv, TypeOK, EndBody, threadVars, trackers, Result
<1>2. Plain' => Plain
  BY DEF EndBody, Plain
<1> QED
  BY <1>1, <1>2, LayerKeeps DEF EndBody, LayersInv

LEMMA CloseKeeps == ASSUME LayersInv, NEW l \in Layers, Close(l) PROVE LayersInv'
<1>1. TypeOK'
  BY DEF LayersInv, TypeOK, Close, threadVars, trackers
<1>2. Plain' => Plain
  BY DEF Close, Plain
<1> QED
  BY <1>1, <1>2, LayerKeeps DEF Close, LayersInv

\* What is handed up is a result again, and a plain error only if it was raised
\* or handed up before.
LEMMA HandUpIsResult ==
    ASSUME NEW l \in Layers, NEW r \in Result, HandUp(l, r)
    PROVE  /\ top' \in 0 .. 5
           /\ result' \in Result
           /\ result' \in {"error_other", "error_pre"} =>
                 r \in {"raise_other", "raise_pre", "error_other", "error_pre"}
BY DEF HandUp, AsError, Result, Layers

LEMMA RecordUncertainKeeps ==
    ASSUME TypeOK, NEW l \in Layers, RecordUncertain(l)
    PROVE  /\ rec' \in [Guards -> RecordState]
           /\ outcomeRef' \subseteq Layers
           /\ \A g \in Guards : rec'[g] \in {rec[g], "outcome_unknown"}
<1>1. rec \in [Guards -> RecordState] /\ outcomeRef \subseteq Layers
  BY DEF TypeOK
<1>2. outcomeRef \cup (l .. 4) \subseteq Layers
  BY <1>1 DEF Layers
<1>3. [rec EXCEPT ![l] = "outcome_unknown"] \in [Guards -> RecordState]
  BY <1>1 DEF RecordState
<1> QED
  BY <1>1, <1>2, <1>3 DEF RecordUncertain

LEMMA SettleGuardKeeps == ASSUME LayersInv, NEW l \in Layers, SettleGuard(l) PROVE LayersInv'
<1>1. /\ TypeOK /\ \A c \in Call : Accounted(c)
      /\ Plain => \E k \in Layers : Cleared(k)
      /\ result \in Result /\ rec \in [Guards -> RecordState] /\ outcomeRef \subseteq Layers
  BY DEF LayersInv, TypeOK
<1>2. UNCHANGED <<closed, trackers, threadVars>> /\ l \in closed
  BY DEF SettleGuard
<1>3. CASE Unsure(l, Raised)
  <2>1. PICK r \in Result : HandUp(l, r) /\ r \in {"cancel", "error_unknown"}
    BY <1>3 DEF SettleGuard, Result
  <2>2. RecordUncertain(l)
    BY <1>3 DEF SettleGuard
  <2>3. TypeOK'
    BY <1>1, <1>2, <2>1, <2>2, HandUpIsResult, RecordUncertainKeeps DEF TypeOK, threadVars, trackers
  <2>4. Plain' => Plain
    BY <1>1, <2>1, <2>2, HandUpIsResult, RecordUncertainKeeps DEF Plain
  <2> QED
    BY <1>1, <1>2, <2>3, <2>4, LayerKeeps
<1>4. CASE ~Unsure(l, Raised)
  <2>1. /\ HandUp(l, result) /\ outcomeRef' = outcomeRef
        /\ rec' = IF l \in Claimed THEN [rec EXCEPT ![l] = Settlement(l)] ELSE rec
    BY <1>4 DEF SettleGuard
  <2>2. Settlement(l) \in RecordState
    BY DEF Settlement, RecordState
  <2>3. rec' \in [Guards -> RecordState]
    BY <1>1, <2>1, <2>2
  <2>4. TypeOK'
    BY <1>1, <1>2, <2>1, <2>3, HandUpIsResult DEF TypeOK, threadVars, trackers
  <2>5. CASE Raised
    <3>1. ~Unsure(l, TRUE)
      BY <1>4, <2>5 DEF Unsure
    <3>2. Cleared(l)
      BY <1>1, <1>2, <3>1, EmptyIsCleared
    <3> QED
      BY <1>2, <2>4, <3>2, LayerKeeps
  <2>6. CASE ~Raised
    <3>1. Plain' => Plain
      <4>1. CASE result \in {"error_other", "error_pre"}
        BY <4>1 DEF Plain
      <4>2. CASE result \in {"return", "error_unknown"}
        <5>1. result' \notin {"error_other", "error_pre"}
          BY <1>1, <2>1, <4>2, HandUpIsResult
        <5>2. Settlement(l) \notin {"released", "failed"}
          BY <4>2 DEF Settlement
        <5>3. \A g \in Guards : rec'[g] \in {"released", "failed"} => rec[g] \in {"released", "failed"}
          BY <1>1, <2>1, <5>2
        <5> QED
          BY <5>1, <5>3 DEF Plain
      <4> QED
        BY <1>1, <2>6, <4>1, <4>2 DEF Raised, Result
    <3> QED
      BY <1>1, <1>2, <2>4, <3>1, LayerKeeps
  <2> QED
    BY <2>5, <2>6
<1> QED
  BY <1>3, <1>4

LEMMA EndMiddlewareKeeps == ASSUME LayersInv, NEW l \in Layers, EndMiddleware(l) PROVE LayersInv'
<1>1. /\ TypeOK /\ \A c \in Call : Accounted(c)
      /\ Plain => \E k \in Layers : Cleared(k)
      /\ result \in Result
  BY DEF LayersInv, TypeOK
<1>2. UNCHANGED <<closed, trackers, threadVars>>
  BY DEF EndMiddleware
<1>3. CASE l \notin closed
  <2>1. HandUp(l, result) /\ result \notin {"raise_other", "raise_pre"} /\ UNCHANGED <<rec, outcomeRef>>
    BY <1>3 DEF EndMiddleware
  <2>2. TypeOK'
    BY <1>1, <1>2, <2>1, HandUpIsResult DEF TypeOK, threadVars, trackers
  <2>3. Plain' => Plain
    BY <1>1, <2>1, HandUpIsResult DEF Plain
  <2> QED
    BY <1>1, <1>2, <2>2, <2>3, LayerKeeps
<1>4. CASE l \in closed /\ Unsure(l, TRUE)
  <2>1. HandUp(l, "error_unknown") /\ RecordUncertain(l)
    BY <1>4 DEF EndMiddleware
  <2>2. "error_unknown" \in Result
    BY DEF Result
  <2>3. TypeOK'
    BY <1>1, <1>2, <2>1, <2>2, HandUpIsResult, RecordUncertainKeeps DEF TypeOK, threadVars, trackers
  <2>4. Plain' => Plain
    BY <1>1, <2>1, <2>2, HandUpIsResult, RecordUncertainKeeps DEF Plain
  <2> QED
    BY <1>1, <1>2, <2>3, <2>4, LayerKeeps
<1>5. CASE l \in closed /\ ~Unsure(l, TRUE)
  <2>1. HandUp(l, result) /\ UNCHANGED <<rec, outcomeRef>>
    BY <1>5 DEF EndMiddleware
  <2>2. TypeOK'
    BY <1>1, <1>2, <2>1, HandUpIsResult DEF TypeOK, threadVars, trackers
  <2>3. Cleared(l)
    BY <1>1, <1>5, EmptyIsCleared
  <2> QED
    BY <1>2, <2>2, <2>3, LayerKeeps
<1> QED
  BY <1>3, <1>4, <1>5

LEMMA StepLayers == LayersInv /\ [Next]_vars => LayersInv'
<1> SUFFICES ASSUME LayersInv, [Next]_vars PROVE LayersInv'
  OBVIOUS
<1>1. CASE UNCHANGED vars
  BY <1>1 DEF vars, layerVars, trackers, threadVars, LayersInv, TypeOK, Accounted, Listed, Plain,
              Cleared, Spent
<1>2. ASSUME NEW c \in Call,
             \/ Begin(c) \/ Register(c) \/ BackOut(c) \/ Send(c)
             \/ Land(c) \/ Answer(c) \/ Report(c)
      PROVE  LayersInv'
  BY <1>2, ThreadStepKeeps
<1>3. ASSUME NEW l \in Layers, Close(l) \/ SettleGuard(l) \/ EndMiddleware(l)
      PROVE  LayersInv'
  BY <1>3, CloseKeeps, SettleGuardKeeps, EndMiddlewareKeeps
<1> QED
  BY <1>1, <1>2, <1>3, EndBodyKeeps DEF Next

LEMMA LayersInvariant == Spec => []LayersInv
BY InitLayers, StepLayers, PTL DEF Spec

\* Every variable of the layers and threads keeps its type.
THEOREM LayersTypeOK == Spec => []TypeOK
<1>1. LayersInv => TypeOK
  BY DEF LayersInv
<1> QED
  BY <1>1, LayersInvariant, PTL

\* An operation released for another try, or recorded as failed, had no effect
\* and gets none from a thread that was left behind, however many calls its
\* tool made and whichever of them were abandoned - but for a chat post that was
\* sent again, of which a refusal says nothing about the attempts before.
THEOREM ClearedIsUntouched == Spec => []ClearedMeansUntouched
<1>1. LayersInv => ClearedMeansUntouched
  <2> SUFFICES ASSUME LayersInv, NEW g \in Guards, rec[g] \in {"released", "failed"},
                      NEW c \in Call
               PROVE  MayHaveActed(c) => Misjudged(c)
    BY DEF ClearedMeansUntouched
  <2>1. PICK l \in Layers : Cleared(l)
    BY DEF LayersInv, Plain
  <2>2. Spent(c, l) /\ Accounted(c)
    BY <2>1 DEF Cleared, LayersInv
  <2> QED
    BY <2>2 DEF Spent, Accounted, MayHaveActed
<1> QED
  BY <1>1, LayersInvariant, PTL

(***************************************************************************)
(* No claim is left behind.                                                *)
(***************************************************************************)
\* The commit is always claimed; a tracker below the commit's middleware knows
\* of a reference only from a guard that recorded the unknown outcome.
Told ==
    /\ rec[3] # "none"
    /\ top <= 3 => rec[3] = "executing"
    /\ top <= 1 => outcomeRef = {}
    /\ \A l \in outcomeRef : \/ l = 4
                             \/ rec[1] = "outcome_unknown"
                             \/ l = 3 /\ rec[3] = "outcome_unknown"

\* Inductive.
ToldInv == TypeOK /\ Told /\ ClaimsSettledUnlessToldAlready

LEMMA SettlementIsFinal == ASSUME NEW l PROVE Settlement(l) \notin {"none", "executing"}
BY DEF Settlement

LEMMA LayersAndGuards == Layers = {1, 2, 3, 4} /\ Guards = {1, 3}
BY DEF Layers, Guards

LEMMA ToldSteps ==
    ASSUME ToldInv, TypeOK', NEW l \in Layers, SettleGuard(l) \/ EndMiddleware(l)
    PROVE  ToldInv'
<1>1. /\ rec \in [Guards -> RecordState] /\ top = l /\ top' = l + 1
      /\ outcomeRef \subseteq Layers
  BY DEF ToldInv, TypeOK, SettleGuard, EndMiddleware, HandUp
<1>2. Claimed = {g \in Guards : rec[g] # "none"} /\ 3 \in Claimed
  BY LayersAndGuards DEF ToldInv, Told, Claimed
<1>3. CASE l = 1
  <2>1. outcomeRef = {} /\ SettleGuard(l)
    BY <1>1, <1>3, LayersAndGuards DEF ToldInv, Told, EndMiddleware
  <2>2. CASE RecordUncertain(l)
    <3>1. \/ /\ rec' = [rec EXCEPT ![1] = "outcome_unknown"]
          \/ /\ rec[1] = "none" /\ rec' = rec /\ outcomeRef' = outcomeRef
      BY <1>2, <1>3, <2>1, <2>2, LayersAndGuards DEF RecordUncertain
    <3> QED
      BY <1>1, <1>3, <2>1, <3>1, LayersAndGuards DEF ToldInv, Told, ClaimsSettledUnlessToldAlready
  <2>3. CASE /\ rec' = IF l \in Claimed THEN [rec EXCEPT ![l] = Settlement(l)] ELSE rec
             /\ UNCHANGED outcomeRef
    <3>1. rec'[1] # "executing" /\ rec'[3] = rec[3]
      BY <1>1, <1>2, <1>3, <2>3, SettlementIsFinal, LayersAndGuards
    <3> QED
      BY <1>1, <1>3, <2>1, <2>3, <3>1, LayersAndGuards DEF ToldInv, Told, ClaimsSettledUnlessToldAlready
  <2> QED
    BY <2>1, <2>2, <2>3 DEF SettleGuard
<1>4. CASE l = 3
  <2>1. SettleGuard(l) /\ rec[1] # "executing"
    BY <1>1, <1>4, LayersAndGuards DEF EndMiddleware, ToldInv, ClaimsSettledUnlessToldAlready
  <2>2. CASE RecordUncertain(l) /\ l \in outcomeRef
    <3>1. UNCHANGED <<rec, outcomeRef>>
      BY <2>2 DEF RecordUncertain
    <3>2. rec[1] = "outcome_unknown"
      BY <1>1, <1>4, <2>2 DEF ToldInv, Told
    <3> QED
      BY <1>1, <1>4, <3>1, <3>2, LayersAndGuards
         DEF ToldInv, Told, ClaimsSettledUnlessToldAlready
  <2>3. CASE RecordUncertain(l) /\ l \notin outcomeRef
    <3>1. rec' = [rec EXCEPT ![3] = "outcome_unknown"]
      BY <1>2, <1>4, <2>3 DEF RecordUncertain
    <3>2. outcomeRef' = outcomeRef \cup {3, 4}
      BY <1>2, <1>4, <2>3 DEF RecordUncertain
    <3> QED
      BY <1>1, <1>4, <2>1, <3>1, <3>2, LayersAndGuards
         DEF ToldInv, Told, ClaimsSettledUnlessToldAlready
  <2>4. CASE /\ rec' = IF l \in Claimed THEN [rec EXCEPT ![l] = Settlement(l)] ELSE rec
             /\ UNCHANGED outcomeRef
    <3>1. rec'[3] \notin {"none", "executing"} /\ rec'[1] = rec[1]
      BY <1>1, <1>2, <1>4, <2>4, SettlementIsFinal, LayersAndGuards
    <3>2. rec[3] = "executing"
      BY <1>1, <1>4 DEF ToldInv, Told
    <3> QED
      BY <1>1, <1>4, <2>1, <2>4, <3>1, <3>2, LayersAndGuards
         DEF ToldInv, Told, ClaimsSettledUnlessToldAlready
  <2> QED
    BY <2>1, <2>2, <2>3, <2>4 DEF SettleGuard
<1>5. CASE l \in {2, 4}
  <2>1. EndMiddleware(l) /\ l \notin Claimed
    BY <1>2, <1>5, LayersAndGuards DEF SettleGuard
  <2>2. UNCHANGED rec /\ outcomeRef' \subseteq outcomeRef \cup {4}
    <3>1. CASE UNCHANGED <<rec, outcomeRef>>
      BY <3>1
    <3>2. CASE RecordUncertain(l) /\ l = 2
      BY <1>2, <2>1, <3>2, LayersAndGuards DEF RecordUncertain
    <3>3. CASE RecordUncertain(l) /\ l = 4
      BY <1>2, <2>1, <3>3, LayersAndGuards DEF RecordUncertain
    <3> QED
      BY <1>5, <2>1, <3>1, <3>2, <3>3 DEF EndMiddleware
  <2> QED
    BY <1>1, <1>5, <2>2, LayersAndGuards DEF ToldInv, Told, ClaimsSettledUnlessToldAlready
<1> QED
  BY <1>3, <1>4, <1>5, LayersAndGuards

\* Once a guard has ended its operation is not left executing, unless the
\* nested confirmation already recorded the unknown outcome.
THEOREM NoClaimLeftBehind == Spec => []ClaimsSettledUnlessToldAlready
<1>1. Init /\ TypeOK => ToldInv
  BY LayersAndGuards DEF Init, ToldInv, Told, ClaimsSettledUnlessToldAlready
<1>2. ASSUME ToldInv, TypeOK', [Next]_vars PROVE ToldInv'
  <2>1. CASE UNCHANGED <<top, rec, outcomeRef>>
    BY <1>2, <2>1 DEF ToldInv, Told, ClaimsSettledUnlessToldAlready
  <2>2. CASE EndBody
    BY <1>2, <2>2, LayersAndGuards DEF EndBody, ToldInv, Told, ClaimsSettledUnlessToldAlready
  <2>3. ASSUME NEW l \in Layers, SettleGuard(l) \/ EndMiddleware(l) PROVE ToldInv'
    BY <1>2, <2>3, ToldSteps
  <2>4. ASSUME NEW c \in Call,
               \/ Begin(c) \/ Register(c) \/ BackOut(c) \/ Send(c)
               \/ Land(c) \/ Answer(c) \/ Report(c)
        PROVE  UNCHANGED <<top, rec, outcomeRef>>
    BY <2>4 DEF Begin, Register, BackOut, Send, Land, Answer, Report, layerVars
  <2>5. (\E l \in Layers : Close(l)) \/ UNCHANGED vars => UNCHANGED <<top, rec, outcomeRef>>
    BY DEF Close, vars, layerVars
  <2> QED
    BY <1>2, <2>1, <2>2, <2>3, <2>4, <2>5 DEF Next
<1>3. ToldInv => ClaimsSettledUnlessToldAlready
  BY DEF ToldInv
<1> QED
  BY <1>1, <1>2, <1>3, LayersTypeOK, PTL DEF Spec
=============================================================================

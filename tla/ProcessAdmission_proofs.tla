------------------------ MODULE ProcessAdmission_proofs ------------------------
(***************************************************************************)
(* Theorems about ProcessAdmission for any number of calls and principals, *)
(* any limits and any table size: what an eviction can and cannot break.   *)
(***************************************************************************)
EXTENDS ProcessAdmission, FiniteSetTheorems, FunctionTheorems, TLAPS

USE CallsWellFormed, CallsFinite, LimitsPositive DEF CallsWellFormed, CallsFinite, LimitsPositive

TypeInv ==
    /\ now \in Nat
    /\ pc \in [Call -> PC]
    /\ stamp \in [Call -> Nat]
    /\ slot \in [Call -> Nat]
    /\ entry \in [User -> Nat]
    /\ seen \in [User -> Nat]
    /\ windows \in [User -> Seq(SUBSET Call)]
    /\ swept \in Nat
    /\ forRoom \in [User -> Nat]
    /\ active \in Int
    /\ phase \in {"serving", "draining", "stopped"}
    /\ stopAt \in Nat
    /\ \A u \in User : entry[u] \in 0 .. Len(windows[u])
    /\ \A c \in Call : pc[c] = "charge" => slot[c] \in DOMAIN windows[UserOf[c]]

-----------------------------------------------------------------------------
(***************************************************************************)
(* What admission_state does to the table: the caller's principal has the  *)
(* object that the caller got, others may have lost theirs, unused.        *)
(***************************************************************************)
Lost(u, gone) ==
    /\ gone \subseteq User \ {u}
    /\ \A v \in gone : entry[v] # 0 /\ Users(v, entry[v]) = {}
    /\ \A v \in User \ {u} :
        /\ windows'[v] = windows[v]
        /\ seen'[v] = seen[v]
        /\ entry'[v] = IF v \in gone THEN 0 ELSE entry[v]
        /\ forRoom'[v] = IF v \in gone /\ ~Stale(v) THEN forRoom[v] + 1 ELSE forRoom[v]

Got(u, g) ==
    /\ entry'[u] = g
    /\ seen'[u] = now
    /\ forRoom'[u] = forRoom[u]
    /\ entry[u] # 0 => g = entry[u] /\ windows'[u] = windows[u]
    /\ entry[u] = 0 => /\ g = Len(windows[u]) + 1
                       /\ Len(windows'[u]) = g
                       /\ windows'[u][g] = {}
                       /\ \A h \in DOMAIN windows[u] : windows'[u][h] = windows[u][h]

LEMMA LookUpDoes ==
    ASSUME TypeInv, NEW c \in Call, LookUp(c)
    PROVE  /\ \E gone : Lost(UserOf[c], gone)
           /\ Got(UserOf[c], slot'[c])
           /\ slot' = [slot EXCEPT ![c] = slot'[c]] /\ slot'[c] \in Nat \ {0}
           /\ swept' \in Nat
           /\ entry' \in [User -> Nat] /\ forRoom' \in [User -> Nat]
           /\ seen' \in [User -> Nat] /\ windows' \in [User -> Seq(SUBSET Call)]
  <1> DEFINE u == UserOf[c]
             g == IF entry[u] = 0 THEN Len(windows[u]) + 1 ELSE entry[u]
  <1>1. u \in User /\ windows[u] \in Seq(SUBSET Call) /\ entry[u] \in Nat /\ Len(windows[u]) \in Nat
    BY DEF TypeInv
  <1>2. PICK gone \in Evicted(u) :
            /\ entry' = [v \in User |-> IF v = u THEN g ELSE IF v \in gone THEN 0 ELSE entry[v]]
            /\ seen' = [seen EXCEPT ![u] = now]
            /\ windows' = [windows EXCEPT ![u] = IF entry[u] = 0 THEN Append(@, {}) ELSE @]
            /\ swept' = IF Excess(u) > 0 \/ now - swept >= Window THEN now ELSE swept
            /\ forRoom' = [v \in User |-> IF v \in gone /\ ~Stale(v) THEN forRoom[v] + 1 ELSE forRoom[v]]
            /\ slot' = [slot EXCEPT ![c] = g]
    BY DEF LookUp
  <1>3. gone \subseteq MayGo(u)
    BY DEF Evicted
  <1>4. slot'[c] = g /\ g \in Nat \ {0}
    BY SMTT(30), <1>1, <1>2 DEF TypeInv
  <1>5. windows'[u] = (IF entry[u] = 0 THEN Append(windows[u], {}) ELSE windows[u])
        /\ \A v \in User \ {u} : windows'[v] = windows[v]
    BY <1>1, <1>2 DEF TypeInv
  <1>6. /\ Append(windows[u], {}) \in Seq(SUBSET Call)
        /\ Len(Append(windows[u], {})) = Len(windows[u]) + 1
        /\ Append(windows[u], {})[Len(windows[u]) + 1] = {}
        /\ \A h \in DOMAIN windows[u] : Append(windows[u], {})[h] = windows[u][h]
    <2>1. {} \in SUBSET Call
      OBVIOUS
    <2> QED
      BY SMTT(30), <1>1, <2>1
  <1>7. windows' \in [User -> Seq(SUBSET Call)]
    BY <1>1, <1>2, <1>6 DEF TypeInv
  <1>8. Lost(u, gone)
    <2>1. \A v \in gone : v \in User \ {u} /\ entry[v] # 0 /\ Users(v, entry[v]) = {}
      BY <1>3 DEF MayGo, Known, Unused
    <2>2. \A v \in User \ {u} : seen'[v] = seen[v]
      BY <1>2 DEF TypeInv
    <2> QED
      BY <1>2, <1>5, <2>1, <2>2 DEF Lost
  <1>9. Got(u, g)
    <2>1. entry'[u] = g /\ seen'[u] = now
      BY <1>1, <1>2 DEF TypeInv
    <2>2. forRoom'[u] = forRoom[u]
      BY <1>1, <1>2, <1>8 DEF Lost
    <2> QED
      BY <1>1, <1>5, <1>6, <2>1, <2>2 DEF Got
  <1>10. swept' \in Nat /\ seen' \in [User -> Nat]
    BY <1>1, <1>2 DEF TypeInv
  <1>11. entry' \in [User -> Nat] /\ forRoom' \in [User -> Nat]
    <2>1. \A v \in User : entry[v] \in Nat /\ forRoom[v] \in Nat /\ forRoom[v] + 1 \in Nat
      BY SMTT(30) DEF TypeInv
    <2>2. g \in Nat
      BY <1>4
    <2> HIDE DEF g, u
    <2>3. entry' \in [User -> Nat]
      BY <1>2, <2>1, <2>2
    <2>4. forRoom' \in [User -> Nat]
      BY <1>2, <2>1
    <2> QED
      BY <2>3, <2>4
  <1> HIDE DEF g
  <1> QED
    BY <1>2, <1>4, <1>7, <1>8, <1>9, <1>10, <1>11

LEMMA LookUpTyped ==
    ASSUME TypeInv, NEW c \in Call, LookUp(c)
    PROVE  /\ slot' \in [Call -> Nat]
           /\ \A u \in User : entry'[u] \in 0 .. Len(windows'[u])
           /\ slot'[c] \in DOMAIN windows'[UserOf[c]]
           /\ \A u \in User : DOMAIN windows[u] \subseteq DOMAIN windows'[u]
  <1> DEFINE u == UserOf[c]
  <1>1. PICK gone : Lost(u, gone)
    BY LookUpDoes
  <1>2. /\ Got(u, slot'[c])
        /\ slot' = [slot EXCEPT ![c] = slot'[c]] /\ slot'[c] \in Nat \ {0}
        /\ windows' \in [User -> Seq(SUBSET Call)]
    BY LookUpDoes
  <1>3. \A v \in User : Len(windows[v]) \in Nat /\ DOMAIN windows[v] = 1 .. Len(windows[v])
                        /\ entry[v] \in 0 .. Len(windows[v])
    BY DEF TypeInv
  <1>4. \A v \in User : Len(windows'[v]) \in Nat /\ DOMAIN windows'[v] = 1 .. Len(windows'[v])
    BY <1>2
  <1>5. slot'[c] \in 1 .. Len(windows'[u]) /\ Len(windows[u]) <= Len(windows'[u]) /\ entry'[u] = slot'[c]
    BY <1>2, <1>3 DEF Got
  <1>6. \A v \in User \ {u} : windows'[v] = windows[v] /\ entry'[v] \in {0, entry[v]}
    BY <1>1 DEF Lost
  <1>7. slot' \in [Call -> Nat]
    BY <1>2 DEF TypeInv
  <1>8. \A v \in User : entry'[v] \in 0 .. Len(windows'[v])
    <2>1. entry'[u] \in 0 .. Len(windows'[u])
      BY <1>5
    <2>2. ASSUME NEW v \in User \ {u}
          PROVE  entry'[v] \in 0 .. Len(windows'[v])
      BY SMTT(30), <2>2, <1>3, <1>6
    <2> QED
      BY <2>1, <2>2
  <1>9. \A v \in User : DOMAIN windows[v] \subseteq DOMAIN windows'[v]
    <2>1. DOMAIN windows[u] \subseteq DOMAIN windows'[u]
      BY <1>3, <1>4, <1>5
    <2>2. ASSUME NEW v \in User \ {u}
          PROVE  DOMAIN windows[v] \subseteq DOMAIN windows'[v]
      BY <2>2, <1>6
    <2> QED
      BY <2>1, <2>2
  <1> QED
    BY <1>4, <1>5, <1>7, <1>8, <1>9

\* Where a call goes; the others stay.
LEMMA MovesTyped ==
    ASSUME TypeInv, NEW c \in Call, NEW to \in PC, Moves(c, to)
    PROVE  /\ pc' \in [Call -> PC] /\ pc'[c] = to
           /\ \A d \in Call : d # c => pc'[d] = pc[d]
  BY DEF Moves, TypeInv

LEMMA ChargeDoes ==
    ASSUME TypeInv, NEW c \in Call, Charge(c)
    PROVE  LET u == UserOf[c]
               kept == {d \in windows[u][slot[c]] : stamp[d] > stamp[c] - Window}
               full == Cardinality(kept) >= RateLimit
           IN  /\ slot[c] \in DOMAIN windows[u]
               /\ windows' \in [User -> Seq(SUBSET Call)]
               /\ \A v \in User : DOMAIN windows'[v] = DOMAIN windows[v] /\ Len(windows'[v]) = Len(windows[v])
               /\ \A v \in User \ {u} : windows'[v] = windows[v]
               /\ \A g \in DOMAIN windows[u] : g # slot[c] => windows'[u][g] = windows[u][g]
               /\ windows'[u][slot[c]] = IF full THEN kept ELSE kept \cup {c}
  <1> DEFINE u == UserOf[c]
             kept == {d \in windows[u][slot[c]] : stamp[d] > stamp[c] - Window}
             counted == IF Cardinality(kept) >= RateLimit THEN kept ELSE kept \cup {c}
  <1>1. u \in User /\ slot[c] \in DOMAIN windows[u] /\ windows \in [User -> Seq(SUBSET Call)]
        /\ windows[u] \in Seq(SUBSET Call)
    BY DEF Charge, TypeInv
  <1>2. counted \in SUBSET Call
    BY <1>1
  <1>3. windows' = [windows EXCEPT ![u][slot[c]] = counted]
    BY DEF Charge
  <1> HIDE DEF counted
  <1>4. windows' = [windows EXCEPT ![u] = [windows[u] EXCEPT ![slot[c]] = counted]]
    BY <1>1, <1>3
  <1>5. [windows[u] EXCEPT ![slot[c]] = counted] \in Seq(SUBSET Call)
        /\ Len([windows[u] EXCEPT ![slot[c]] = counted]) = Len(windows[u])
    BY <1>1, <1>2
  <1>6. windows' \in [User -> Seq(SUBSET Call)] /\ windows'[u] = [windows[u] EXCEPT ![slot[c]] = counted]
        /\ \A v \in User \ {u} : windows'[v] = windows[v]
    BY <1>1, <1>4, <1>5
  <1> QED
    BY <1>1, <1>5, <1>6 DEF counted

LEMMA ChargeTyped == ASSUME TypeInv, NEW c \in Call, Charge(c) PROVE TypeInv'
  <1>1. PICK to \in PC : Moves(c, to) /\ to \notin {"charge"}
    BY DEF Charge, PC
  <1>2. /\ pc' \in [Call -> PC] /\ \A d \in Call : pc'[d] = "charge" => pc[d] = "charge"
    BY <1>1, MovesTyped
  <1>3. /\ windows' \in [User -> Seq(SUBSET Call)]
        /\ \A v \in User : DOMAIN windows'[v] = DOMAIN windows[v] /\ Len(windows'[v]) = Len(windows[v])
    BY ChargeDoes
  <1>4. UNCHANGED <<now, stamp, slot, entry, seen, swept, forRoom, active, phase, stopAt>>
    BY DEF Charge, process
  <1> QED
    BY <1>2, <1>3, <1>4 DEF TypeInv

\* Steps that leave the state objects alone and send no call to a window.
LEMMA TypeKept ==
    ASSUME TypeInv, UNCHANGED <<stamp, slot, table>>, pc' \in [Call -> PC],
           \A d \in Call : pc'[d] = "charge" => pc[d] = "charge",
           now' \in Nat, active' \in Int, phase' \in {"serving", "draining", "stopped"}, stopAt' \in Nat
    PROVE  TypeInv'
  BY DEF TypeInv, table

LEMMA LookUpStepTyped ==
    ASSUME TypeInv, NEW c \in Call, Request(c) \/ TakeGlobal(c) PROVE TypeInv'
  <1>1. PICK to \in {"charge", "principal"} : Moves(c, to)
    BY DEF Request, TakeGlobal
  <1>2. LookUp(c)
    BY DEF Request, TakeGlobal
  <1>3. /\ pc' \in [Call -> PC] /\ \A d \in Call \ {c} : pc'[d] = pc[d]
    BY <1>1, MovesTyped DEF PC
  <1>4. \A d \in Call \ {c} : slot'[d] = slot[d]
    <2>1. slot' = [slot EXCEPT ![c] = slot'[c]]
      BY <1>2, LookUpDoes
    <2>2. slot \in [Call -> Nat]
      BY DEF TypeInv
    <2> QED
      BY <2>1, <2>2
  <1>5. \A d \in Call : pc'[d] = "charge" => slot'[d] \in DOMAIN windows'[UserOf[d]]
    <2>1. \A d \in Call \ {c} : pc[d] = "charge" => slot[d] \in DOMAIN windows'[UserOf[d]]
      BY <1>2, LookUpTyped DEF TypeInv
    <2> QED
      BY <1>2, <1>3, <1>4, <2>1, LookUpTyped
  <1>6. stamp' \in [Call -> Nat] /\ UNCHANGED <<now, active, phase, stopAt>>
    <2>1. now \in Nat /\ stamp \in [Call -> Nat]
      BY DEF TypeInv
    <2> QED
      BY <2>1 DEF Request, TakeGlobal, process
  <1> QED
    BY <1>2, <1>3, <1>5, <1>6, LookUpDoes, LookUpTyped DEF TypeInv

LEMMA TypeNext == TypeInv /\ [Next]_vars => TypeInv'
  <1> SUFFICES ASSUME TypeInv, [Next]_vars PROVE TypeInv'
    OBVIOUS
  <1> USE DEF process
  <1>0. pc \in [Call -> PC] /\ now \in Nat /\ active \in Int /\ stopAt \in Nat
        /\ phase \in {"serving", "draining", "stopped"}
    BY DEF TypeInv
  <1>1. CASE Tick
    BY <1>0, <1>1, TypeKept DEF Tick
  <1>2. CASE BeginDrain
    BY <1>0, <1>2, TypeKept DEF BeginDrain
  <1>3. CASE Stop
    <2>1. pc' \in [Call -> PC] /\ \A d \in Call : pc'[d] # "charge"
      BY <1>0, <1>3 DEF Stop, PC, Over
    <2> QED
      BY <1>0, <1>3, <2>1, TypeKept DEF Stop
  <1>4. ASSUME NEW c \in Call, Step(c) PROVE TypeInv'
    <2>1. CASE Request(c) \/ TakeGlobal(c)
      BY <2>1, LookUpStepTyped
    <2>2. CASE Charge(c)
      BY <2>2, ChargeTyped
    <2>3. CASE RunTask(c) \/ TakePrincipal(c) \/ TakeExpensive(c) \/ Start(c) \/ End(c) \/ Cancel(c)
      <3>1. PICK to \in PC \ {"charge"} : Moves(c, to)
        BY <2>3 DEF RunTask, TakePrincipal, TakeExpensive, Start, End, Cancel, PC
      <3>2. UNCHANGED <<now, stamp, slot, table, phase, stopAt>> /\ active' \in {active, active + 1, active - 1}
        BY <2>3 DEF RunTask, TakePrincipal, TakeExpensive, Start, End, Cancel
      <3> QED
        BY <1>0, <3>1, <3>2, MovesTyped, TypeKept
    <2> QED
      BY <1>4, <2>1, <2>2, <2>3 DEF Step
  <1>5. CASE UNCHANGED vars
    BY <1>5, <1>0, TypeKept DEF vars, table
  <1> QED
    BY <1>1, <1>2, <1>3, <1>4, <1>5 DEF Next

LEMMA TypeInit == Init => TypeInv
  <1> SUFFICES ASSUME Init PROVE TypeInv
    OBVIOUS
  <1>1. <<>> \in Seq(SUBSET Call) /\ Len(<<>>) = 0
    OBVIOUS
  <1>2. \A u \in User : windows[u] = <<>>
    BY DEF Init
  <1> QED
    BY <1>1, <1>2 DEF Init, TypeInv, PC

\* Every variable keeps its type, and no call waits at a window that does not
\* exist (admission_state, AdmissionController).
LEMMA TypeCorrect == Spec => []TypeInv
  BY TypeInit, TypeNext, PTL DEF Spec

-----------------------------------------------------------------------------
(***************************************************************************)
(* The semaphores.  A principal's state object may go and come back, but   *)
(* never under a call that holds a slot of it or waits for one.            *)
(***************************************************************************)
\* The calls that hold a slot of u's semaphore, whichever object it is of.
Holding(u) == {c \in Call : UserOf[c] = u /\ pc[c] \in {"expensive", "ready", "run"}}

Inside(c) == pc[c] \in {"principal", "expensive", "ready", "run"}

SlotsAreCurrent == \A c \in Call : Inside(c) => slot[c] = entry[UserOf[c]] /\ slot[c] # 0

SemaphoresHold == \A u \in User : Cardinality(Holding(u)) <= PrincipalLimit

SlotInv == SlotsAreCurrent /\ SemaphoresHold

\* One more element counts for one at most.
LEMMA AddOne ==
    ASSUME NEW S, NEW x, IsFiniteSet(S)
    PROVE  /\ IsFiniteSet(S \cup {x})
           /\ Cardinality(S \cup {x}) \in Nat
           /\ Cardinality(S) \in Nat
           /\ Cardinality(S \cup {x}) <= Cardinality(S) + 1
  <1>1. IsFiniteSet(S \cup {x})
    BY FS_AddElement
  <1>2. Cardinality(S) \in Nat /\ Cardinality(S \cup {x}) \in Nat
    BY <1>1, FS_CardinalityType
  <1>3. Cardinality(S \cup {x}) = IF x \in S THEN Cardinality(S) ELSE Cardinality(S) + 1
    BY FS_AddElement
  <1> QED
    BY <1>1, <1>2, <1>3

LEMMA HoldingFinite == \A u : IsFiniteSet(Holding(u)) /\ Cardinality(Holding(u)) \in Nat
  <1> SUFFICES ASSUME NEW u PROVE IsFiniteSet(Holding(u)) /\ Cardinality(Holding(u)) \in Nat
    OBVIOUS
  <1>1. Holding(u) \in SUBSET Call
    BY DEF Holding
  <1> QED
    BY <1>1, FS_Subset, FS_CardinalityType

\* Steps after which no call holds a slot that held none before.
LEMMA SemaphoresKept ==
    ASSUME SemaphoresHold,
           \A d \in Call : pc'[d] \in {"expensive", "ready", "run"} => pc[d] \in {"expensive", "ready", "run"}
    PROVE  SemaphoresHold'
  <1> SUFFICES ASSUME NEW u \in User PROVE Cardinality(Holding(u)') <= PrincipalLimit
    BY DEF SemaphoresHold
  <1>1. Holding(u)' \in SUBSET Holding(u)
    BY DEF Holding
  <1>2. Cardinality(Holding(u)') <= Cardinality(Holding(u))
    BY <1>1, HoldingFinite, FS_Subset
  <1>3. Cardinality(Holding(u)') \in Nat /\ Cardinality(Holding(u)) \in Nat
    BY <1>1, HoldingFinite, FS_Subset, FS_CardinalityType
  <1> QED
    BY <1>2, <1>3 DEF SemaphoresHold

\* Steps that leave the table and the slots alone.
LEMMA SlotKept ==
    ASSUME SlotInv, UNCHANGED <<slot, entry>>,
           \A d \in Call : Inside(d)' => Inside(d),
           \A d \in Call : pc'[d] \in {"expensive", "ready", "run"} => pc[d] \in {"expensive", "ready", "run"}
    PROVE  SlotInv'
  BY SemaphoresKept DEF SlotInv, SlotsAreCurrent, Inside

LEMMA LookUpSlots ==
    ASSUME TypeInv, SlotInv, NEW c \in Call, Request(c) \/ TakeGlobal(c) PROVE SlotInv'
  <1> DEFINE u == UserOf[c]
  <1>1. PICK to \in {"charge", "principal"} : Moves(c, to)
    BY DEF Request, TakeGlobal
  <1>2. /\ pc'[c] \in {"charge", "principal"} /\ \A d \in Call \ {c} : pc'[d] = pc[d]
        /\ pc[c] \in {"idle", "global"}
    BY <1>1, MovesTyped DEF PC, Request, TakeGlobal
  <1>3. LookUp(c)
    BY DEF Request, TakeGlobal
  <1>4. PICK gone : Lost(u, gone)
    BY <1>3, LookUpDoes
  <1>5. Got(u, slot'[c]) /\ slot'[c] # 0 /\ \A d \in Call \ {c} : slot'[d] = slot[d]
    BY <1>3, LookUpDoes DEF TypeInv
  <1>6. SemaphoresHold'
    BY <1>2, SemaphoresKept DEF SlotInv
  <1>7. ASSUME NEW d \in Call \ {c}, Inside(d)
        PROVE  entry'[UserOf[d]] = entry[UserOf[d]]
    <2>1. slot[d] = entry[UserOf[d]] /\ entry[UserOf[d]] # 0 /\ UserOf[d] \in User
      BY <1>7 DEF SlotInv, SlotsAreCurrent
    <2>2. CASE UserOf[d] = u
      BY <1>5, <2>1, <2>2 DEF Got
    <2>3. CASE UserOf[d] # u
      <3>1. d \in Users(UserOf[d], entry[UserOf[d]])
        BY <1>7, <2>1 DEF Users, Inside
      <3>2. UserOf[d] \notin gone
        BY <1>4, <3>1 DEF Lost
      <3> QED
        BY <1>4, <2>1, <2>3, <3>2 DEF Lost
    <2> QED
      BY <2>2, <2>3
  <1>8. SlotsAreCurrent'
    BY <1>2, <1>5, <1>7 DEF SlotInv, SlotsAreCurrent, Inside, Got
  <1> QED
    BY <1>6, <1>8 DEF SlotInv

\* anyio's semaphore counts the holders of one object: they are all of them.
LEMMA TakePrincipalSlots ==
    ASSUME TypeInv, SlotInv, NEW c \in Call, TakePrincipal(c) PROVE SlotInv'
  <1> DEFINE u == UserOf[c]
  <1>1. PICK to \in {"expensive", "ready"} : Moves(c, to)
    BY DEF TakePrincipal
  <1>2. /\ pc'[c] \in {"expensive", "ready"} /\ pc[c] = "principal"
        /\ \A d \in Call \ {c} : pc'[d] = pc[d]
    BY <1>1, MovesTyped DEF PC, TakePrincipal
  <1>3. slot' = slot /\ entry' = entry
    BY DEF TakePrincipal, table
  <1>4. SlotsAreCurrent'
    BY <1>2, <1>3 DEF SlotInv, SlotsAreCurrent, Inside
  <1>5. Holding(u) = InPrincipal(c)
    <2>1. \A d \in Call : d \in Holding(u) => slot[d] = slot[c]
      BY <1>2 DEF Holding, SlotInv, SlotsAreCurrent, Inside
    <2> QED
      BY <2>1 DEF Holding, InPrincipal, Users
  <1>6. Cardinality(Holding(u)) < PrincipalLimit
    BY <1>5 DEF TakePrincipal
  <1>7. Holding(u)' = Holding(u) \cup {c}
    BY <1>2 DEF Holding
  <1>8. Cardinality(Holding(u)') <= PrincipalLimit
    <2>1. IsFiniteSet(Holding(u))
      BY HoldingFinite
    <2>2. /\ Cardinality(Holding(u) \cup {c}) <= Cardinality(Holding(u)) + 1
          /\ Cardinality(Holding(u) \cup {c}) \in Nat /\ Cardinality(Holding(u)) \in Nat
      BY <2>1, AddOne
    <2> QED
      BY <1>6, <1>7, <2>2
  <1>9. ASSUME NEW v \in User \ {u} PROVE Holding(v)' = Holding(v)
    BY <1>2 DEF Holding
  <1>10. SemaphoresHold'
    BY <1>8, <1>9 DEF SlotInv, SemaphoresHold
  <1> QED
    BY <1>4, <1>10 DEF SlotInv

LEMMA SlotNext == TypeInv /\ SlotInv /\ [Next]_vars => SlotInv'
  <1> SUFFICES ASSUME TypeInv, SlotInv, [Next]_vars PROVE SlotInv'
    OBVIOUS
  <1> USE DEF table, process
  <1>1. CASE Tick \/ BeginDrain \/ UNCHANGED vars
    BY <1>1, SlotKept DEF Tick, BeginDrain, vars, Inside
  <1>2. CASE Stop
    <2>1. \A d \in Call : pc'[d] \in Over \cup {"idle"}
      BY <1>2 DEF Stop, Over
    <2> QED
      BY <1>2, <2>1, SlotKept DEF Stop, Over, Inside
  <1>3. ASSUME NEW c \in Call, Step(c) PROVE SlotInv'
    <2>1. CASE Request(c) \/ TakeGlobal(c)
      BY <2>1, LookUpSlots
    <2>2. CASE TakePrincipal(c)
      BY <2>2, TakePrincipalSlots
    <2>3. CASE RunTask(c) \/ Charge(c) \/ TakeExpensive(c) \/ Start(c) \/ End(c) \/ Cancel(c)
      <3>1. PICK to \in PC : Moves(c, to) /\ (to \in {"ready", "run"} => pc[c] \in {"expensive", "ready"})
                             /\ to \notin {"principal", "expensive"}
        BY <2>3 DEF RunTask, Charge, TakeExpensive, Start, End, Cancel, PC
      <3>2. slot' = slot /\ entry' = entry
        BY <2>3 DEF RunTask, Charge, TakeExpensive, Start, End, Cancel
      <3>3. pc'[c] = to /\ \A d \in Call \ {c} : pc'[d] = pc[d]
        BY <3>1, MovesTyped
      <3> QED
        BY <3>1, <3>2, <3>3, SlotKept DEF Inside
    <2> QED
      BY <1>3, <2>1, <2>2, <2>3 DEF Step
  <1> QED
    BY <1>1, <1>2, <1>3 DEF Next

\* MCP_PRINCIPAL_CONCURRENCY holds whatever _evict_principal_states takes from
\* the table, for any number of calls and principals and any table size.
THEOREM PrincipalLimitIsKept == Spec => []PrincipalLimitHolds
  <1>1. Init => SlotInv
    <2> SUFFICES ASSUME Init PROVE SlotInv
      OBVIOUS
    <2>1. \A u \in User : Holding(u) = {}
      BY DEF Init, Holding
    <2>2. Cardinality({}) <= PrincipalLimit
      BY FS_EmptySet
    <2>3. SemaphoresHold
      BY <2>1, <2>2 DEF SemaphoresHold
    <2> QED
      BY <2>3 DEF Init, SlotInv, SlotsAreCurrent, Inside
  <1>2. SlotInv => PrincipalLimitHolds
    <2> SUFFICES ASSUME SlotInv, NEW u \in User PROVE Cardinality(Executing(u)) <= PrincipalLimit
      BY DEF PrincipalLimitHolds
    <2>1. Executing(u) \in SUBSET Holding(u)
      BY DEF Executing, Holding
    <2>2. Cardinality(Executing(u)) <= Cardinality(Holding(u)) /\ Cardinality(Executing(u)) \in Nat
      BY <2>1, HoldingFinite, FS_Subset, FS_CardinalityType
    <2> QED
      BY <2>2, HoldingFinite DEF SlotInv, SemaphoresHold
  <1> QED
    BY <1>1, <1>2, SlotNext, TypeCorrect, PTL DEF Spec

-----------------------------------------------------------------------------
(***************************************************************************)
(* The drain.  The count that the drain loop reads is that of the bodies.  *)
(***************************************************************************)
Running == {c \in Call : pc[c] = "run"}

CountIsExact == phase # "stopped" => active = Cardinality(Running)
NothingRunsOn == phase = "stopped" => \A c \in Call : pc[c] \in Over \cup {"idle"}
DrainInv == CountIsExact /\ NothingRunsOn

LEMMA RunningFinite == IsFiniteSet(Running) /\ Cardinality(Running) \in Nat
  <1>1. Running \in SUBSET Call
    BY DEF Running
  <1> QED
    BY <1>1, FS_Subset, FS_CardinalityType

LEMMA DrainStep ==
    ASSUME TypeInv, DrainInv, NEW c \in Call, Step(c) PROVE DrainInv'
  <1>0. phase # "stopped" /\ phase' = phase /\ pc[c] \notin Over
    BY DEF DrainInv, NothingRunsOn, Step, Request, RunTask, Charge, TakeGlobal, TakePrincipal, TakeExpensive,
           Start, End, Cancel, process, Over
  <1>1. CASE Start(c)
    <2>1. Moves(c, "run") /\ pc[c] = "ready" /\ active' = active + 1
      BY <1>1 DEF Start
    <2>2. pc'[c] = "run" /\ \A d \in Call \ {c} : pc'[d] = pc[d]
      BY <2>1, MovesTyped DEF PC
    <2>3. Running' = Running \cup {c} /\ c \notin Running
      BY <2>1, <2>2 DEF Running
    <2>4. Cardinality(Running') = Cardinality(Running) + 1
      BY <2>3, RunningFinite, FS_AddElement
    <2> QED
      BY <1>0, <2>1, <2>4 DEF DrainInv, CountIsExact, NothingRunsOn
  <1>2. CASE End(c)
    <2>1. Moves(c, "done") /\ pc[c] = "run" /\ active' = active - 1
      BY <1>2 DEF End
    <2>2. pc'[c] = "done" /\ \A d \in Call \ {c} : pc'[d] = pc[d]
      BY <2>1, MovesTyped DEF PC
    <2>3. Running' = Running \ {c} /\ c \in Running
      BY <2>1, <2>2 DEF Running
    <2>4. Cardinality(Running') = Cardinality(Running) - 1
      BY <2>3, RunningFinite, FS_RemoveElement
    <2> QED
      BY <1>0, <2>1, <2>4 DEF DrainInv, CountIsExact, NothingRunsOn
  <1>3. CASE Request(c) \/ RunTask(c) \/ Charge(c) \/ TakeGlobal(c) \/ TakePrincipal(c)
             \/ TakeExpensive(c) \/ Cancel(c)
    <2>1. PICK to \in PC \ {"run"} : Moves(c, to)
      BY <1>3 DEF Request, RunTask, Charge, TakeGlobal, TakePrincipal, TakeExpensive, Cancel, PC
    <2>2. pc[c] # "run" /\ active' = active
      BY <1>3 DEF Request, RunTask, Charge, TakeGlobal, TakePrincipal, TakeExpensive, Cancel
    <2>3. Running' = Running
      BY <2>1, <2>2, MovesTyped DEF Running
    <2> QED
      BY <1>0, <2>2, <2>3 DEF DrainInv, CountIsExact, NothingRunsOn
  <1> QED
    BY <1>1, <1>2, <1>3 DEF Step

LEMMA DrainNext == TypeInv /\ DrainInv /\ [Next]_vars => DrainInv'
  <1> SUFFICES ASSUME TypeInv, DrainInv, [Next]_vars PROVE DrainInv'
    OBVIOUS
  <1>1. CASE Tick \/ UNCHANGED vars
    BY <1>1 DEF Tick, process, vars, DrainInv, CountIsExact, NothingRunsOn, Running
  <1>2. CASE BeginDrain
    BY <1>2 DEF BeginDrain, DrainInv, CountIsExact, NothingRunsOn, Running
  <1>3. CASE Stop
    BY <1>3 DEF Stop, DrainInv, CountIsExact, NothingRunsOn, Over
  <1> QED
    BY <1>1, <1>2, <1>3, DrainStep DEF Next

\* A drain that ends within its grace leaves no body of a request or a task
\* running (production_lifespan's loop over ActivityCounters), however many
\* calls started, failed or were cancelled before.
THEOREM DrainIsClean == Spec => DrainedMeansFinished
  <1>1. Init => DrainInv
    <2> SUFFICES ASSUME Init PROVE DrainInv
      OBVIOUS
    <2>1. Running = {}
      BY DEF Init, Running
    <2>2. Cardinality(Running) = 0
      BY <2>1, FS_EmptySet
    <2> QED
      BY <2>2 DEF Init, DrainInv, CountIsExact, NothingRunsOn
  <1>2. TypeInv /\ DrainInv /\ [Next]_vars
           => (phase' = "stopped" /\ phase # "stopped" /\ now < stopAt => \A c \in Call : pc[c] # "run")
    <2> SUFFICES ASSUME TypeInv, DrainInv, [Next]_vars, phase' = "stopped", phase # "stopped", now < stopAt
                 PROVE  \A c \in Call : pc[c] # "run"
      OBVIOUS
    <2>1. active = 0
      <3>1. Stop
        BY DEF Next, vars, Tick, BeginDrain, Step, Request, RunTask, Charge, TakeGlobal, TakePrincipal,
               TakeExpensive, Start, End, Cancel, process
      <3> QED
        BY <3>1 DEF Stop, TypeInv
    <2>2. Cardinality(Running) = 0
      BY <2>1 DEF DrainInv, CountIsExact
    <2>3. Running = {}
      BY <2>2, RunningFinite, FS_EmptySet
    <2> QED
      BY <2>3 DEF Running
  <1> QED
    BY <1>1, <1>2, DrainNext, TypeCorrect, PTL DEF Spec, DrainedMeansFinished

-----------------------------------------------------------------------------
(***************************************************************************)
(* The rate.  A principal may have had several windows; those that can     *)
(* still hold a timestamp of the last minute are few.                      *)
(***************************************************************************)
Charged(c) == pc[c] \notin {"idle", "charge", "refused", "cut"}
Fresh(c) == stamp[c] > now - Window

\* The calls that are counted in u's window g, or wait for its lock.
At(u, g) == windows[u][g] \cup {c \in Call : pc[c] = "charge" /\ UserOf[c] = u /\ slot[c] = g}

\* The windows of u that are in the table, or have seen a call lately.
Live(u) == {g \in DOMAIN windows[u] : g = entry[u] \/ \E c \in At(u, g) : Fresh(c)}

StampsPast == \A c \in Call : stamp[c] <= now

WindowsFit == \A u \in User : \A g \in DOMAIN windows[u] : Cardinality(windows[u][g]) <= RateLimit

CountedCame == \A u \in User : \A g \in DOMAIN windows[u] : \A c \in windows[u][g] : pc[c] # "idle"

SeenIsLast == \A u \in User : entry[u] # 0 => \A c \in At(u, entry[u]) : stamp[c] <= seen[u]

ChargedIsKept ==
    \A c \in Call \ Task : Charged(c) /\ Fresh(c) =>
        \E g \in DOMAIN windows[UserOf[c]] : c \in windows[UserOf[c]][g]

FewLive == \A u \in User : Cardinality(Live(u)) <= forRoom[u] + (IF entry[u] = 0 THEN 0 ELSE 1)

(***************************************************************************)
(* The inductive invariant: an eviction by age takes a window that no      *)
(* recent call used, every other one is paid for in forRoom.               *)
(***************************************************************************)
RateInv == StampsPast /\ WindowsFit /\ CountedCame /\ SeenIsLast /\ ChargedIsKept /\ FewLive

LEMMA TableTypes ==
    ASSUME TypeInv, NEW u \in User
    PROVE  /\ forRoom[u] \in Nat /\ seen[u] \in Nat /\ entry[u] \in Nat
           /\ Len(windows[u]) \in Nat /\ DOMAIN windows[u] = 1 .. Len(windows[u])
           /\ entry[u] # 0 => entry[u] \in DOMAIN windows[u]
           /\ \A g \in DOMAIN windows[u] : windows[u][g] \in SUBSET Call
  <1>1. windows[u] \in Seq(SUBSET Call) /\ entry[u] \in 0 .. Len(windows[u])
        /\ forRoom[u] \in Nat /\ seen[u] \in Nat /\ entry[u] \in Nat
    BY DEF TypeInv
  <1> QED
    BY SMTT(30), <1>1

LEMMA LiveFinite ==
    ASSUME TypeInv, NEW u \in User
    PROVE  IsFiniteSet(Live(u)) /\ Cardinality(Live(u)) \in Nat
  <1>0. DOMAIN windows[u] = 1 .. Len(windows[u]) /\ Len(windows[u]) \in Int /\ 1 \in Int
    BY TableTypes
  <1>1. IsFiniteSet(DOMAIN windows[u])
    BY <1>0, FS_Interval
  <1>2. Live(u) \in SUBSET DOMAIN windows[u]
    BY DEF Live
  <1> QED
    BY <1>1, <1>2, FS_Subset, FS_CardinalityType

\* A principal whose table entry and forRoom stay has no more live windows.
LEMMA FewLiveKept ==
    ASSUME TypeInv, FewLive, NEW u \in User, Live(u)' \subseteq Live(u),
           forRoom'[u] >= forRoom[u], entry'[u] = entry[u], forRoom'[u] \in Nat
    PROVE  Cardinality(Live(u)') <= forRoom'[u] + (IF entry'[u] = 0 THEN 0 ELSE 1)
  <1>1. Live(u)' \in SUBSET Live(u)
    OBVIOUS
  <1>2. Cardinality(Live(u)') <= Cardinality(Live(u)) /\ IsFiniteSet(Live(u)')
    BY <1>1, LiveFinite, FS_Subset
  <1>3. Cardinality(Live(u)') \in Nat /\ Cardinality(Live(u)) \in Nat
    BY <1>2, LiveFinite, FS_CardinalityType
  <1>4. forRoom[u] \in Nat
    BY TableTypes
  <1>5. Cardinality(Live(u)) <= forRoom[u] + (IF entry[u] = 0 THEN 0 ELSE 1)
    BY DEF FewLive
  <1>6. CASE entry[u] = 0
    BY <1>2, <1>3, <1>4, <1>5, <1>6
  <1>7. CASE entry[u] # 0
    BY <1>2, <1>3, <1>4, <1>5, <1>7
  <1> QED
    BY <1>6, <1>7

\* A window is a set of calls, and so are those about to be charged to it.
LEMMA AtTyped ==
    ASSUME TypeInv, NEW u \in User, NEW g \in DOMAIN windows[u]
    PROVE  windows[u][g] \in SUBSET Call /\ At(u, g) \subseteq Call
  <1>1. windows[u] \in Seq(SUBSET Call)
    BY DEF TypeInv
  <1>2. windows[u][g] \in SUBSET Call
    BY <1>1
  <1> QED
    BY <1>2 DEF At

\* Steps that leave the stamps and the table alone, and charge nobody.
LEMMA RateKept ==
    ASSUME TypeInv, RateInv, UNCHANGED <<stamp, entry, seen, windows, forRoom>>,
           now' \in Nat, now <= now',
           \A d \in Call : pc'[d] = "charge" => pc[d] = "charge" /\ slot'[d] = slot[d],
           \A d \in Call : pc'[d] = "idle" => pc[d] = "idle",
           \A d \in Call \ Task : Charged(d)' => Charged(d)
    PROVE  RateInv'
  <1>1. now \in Nat /\ \A c \in Call : stamp[c] \in Nat
    BY DEF TypeInv
  <1>2. StampsPast'
    BY <1>1 DEF RateInv, StampsPast
  <1>3. \A c \in Call : Fresh(c)' => Fresh(c)
    BY <1>1 DEF Fresh
  <1>4. ASSUME NEW u \in User, NEW g PROVE At(u, g)' \subseteq At(u, g)
    BY DEF At
  <1>5. \A u \in User : \A g \in DOMAIN windows[u] : At(u, g) \subseteq Call
    BY AtTyped
  <1>6. \A u \in User : Live(u)' \subseteq Live(u)
    BY <1>3, <1>4, <1>5 DEF Live
  <1>7. FewLive'
    <2> SUFFICES ASSUME NEW u \in User
                 PROVE  Cardinality(Live(u)') <= forRoom'[u] + (IF entry'[u] = 0 THEN 0 ELSE 1)
      BY DEF FewLive
    <2>1. forRoom'[u] \in Nat /\ forRoom'[u] >= forRoom[u] /\ entry'[u] = entry[u] /\ FewLive
      BY TableTypes DEF RateInv
    <2> QED
      BY <1>6, <2>1, FewLiveKept
  <1>8. SeenIsLast'
    BY <1>4 DEF RateInv, SeenIsLast
  <1>9. ChargedIsKept'
    BY <1>3 DEF RateInv, ChargedIsKept
  <1>10. WindowsFit'
    BY DEF RateInv, WindowsFit
  <1>11. CountedCame'
    <2> SUFFICES ASSUME NEW u \in User, NEW g \in DOMAIN windows[u], NEW c \in windows[u][g]
                 PROVE  pc'[c] # "idle"
      BY DEF CountedCame
    <2>1. c \in Call
      BY AtTyped
    <2>2. pc[c] # "idle"
      BY DEF RateInv, CountedCame
    <2> QED
      BY <2>1, <2>2
  <1> QED
    BY <1>2, <1>7, <1>8, <1>9, <1>10, <1>11 DEF RateInv

\* _Window.consume: what it prunes is no longer of the last minute.
LEMMA ChargeRate == ASSUME TypeInv, RateInv, NEW c \in Call, Charge(c) PROVE RateInv'
  <1> DEFINE u == UserOf[c]
             s == slot[c]
             kept == {d \in windows[u][s] : stamp[d] > stamp[c] - Window}
             full == Cardinality(kept) >= RateLimit
  <1>0. /\ UNCHANGED <<now, stamp, slot, entry, seen, forRoom>> /\ pc[c] = "charge" /\ u \in User
        /\ now \in Nat /\ \A d \in Call : stamp[d] \in Nat /\ stamp[d] <= now
    BY DEF Charge, TypeInv, RateInv, StampsPast
  <1>1. /\ s \in DOMAIN windows[u]
        /\ \A v \in User : DOMAIN windows'[v] = DOMAIN windows[v]
        /\ \A v \in User \ {u} : windows'[v] = windows[v]
        /\ \A g \in DOMAIN windows[u] : g # s => windows'[u][g] = windows[u][g]
        /\ windows'[u][s] = IF full THEN kept ELSE kept \cup {c}
    BY ChargeDoes
  <1>2. /\ windows[u][s] \in SUBSET Call /\ kept \in SUBSET windows[u][s] /\ IsFiniteSet(windows[u][s])
    <2>1. windows[u] \in Seq(SUBSET Call)
      BY <1>0 DEF TypeInv
    <2>2. windows[u][s] \in SUBSET Call
      BY <1>1, <2>1
    <2> QED
      BY <2>2, FS_Subset
  <1>3. /\ pc'[c] \in {"refused", "done", "global"} /\ (full => pc'[c] = "refused")
        /\ \A d \in Call \ {c} : pc'[d] = pc[d]
    <2>1. PICK to \in {"refused", "done", "global"} : Moves(c, to) /\ (full => to = "refused")
      BY DEF Charge
    <2> QED
      BY <2>1, MovesTyped DEF PC
  <1> HIDE DEF u, s
  <1>4. ASSUME NEW v \in User, NEW g \in DOMAIN windows[v] PROVE At(v, g)' \subseteq At(v, g)
    <2>1. c \in At(u, s)
      BY <1>0 DEF At, u, s
    <2>2. windows'[v][g] \subseteq At(v, g)
      BY <1>1, <1>2, <2>1 DEF At
    <2> QED
      BY <1>0, <1>3, <2>2 DEF At
  <1>5. \A d \in Call : Fresh(d)' <=> Fresh(d)
    BY <1>0 DEF Fresh
  <1>6. \A v \in User : \A g \in DOMAIN windows[v] : At(v, g) \subseteq Call
    BY AtTyped
  <1>7. \A v \in User : Live(v)' \subseteq Live(v)
    BY <1>0, <1>1, <1>4, <1>5, <1>6 DEF Live
  <1>8. FewLive'
    <2> SUFFICES ASSUME NEW v \in User
                 PROVE  Cardinality(Live(v)') <= forRoom'[v] + (IF entry'[v] = 0 THEN 0 ELSE 1)
      BY DEF FewLive
    <2>1. forRoom'[v] \in Nat /\ forRoom'[v] >= forRoom[v] /\ entry'[v] = entry[v] /\ FewLive
      BY <1>0, TableTypes DEF RateInv
    <2> QED
      BY <1>7, <2>1, FewLiveKept
  <1>9. SeenIsLast'
    <2> SUFFICES ASSUME NEW v \in User, entry'[v] # 0, NEW d \in At(v, entry[v])' PROVE stamp'[d] <= seen'[v]
      BY <1>0 DEF SeenIsLast
    <2>1. entry[v] \in DOMAIN windows[v]
      BY <1>0, TableTypes
    <2> QED
      BY <1>0, <1>4, <2>1 DEF RateInv, SeenIsLast
  <1>10. WindowsFit'
    <2>1. Cardinality(windows'[u][s]) <= RateLimit
      <3>1. Cardinality(kept) <= Cardinality(windows[u][s]) /\ IsFiniteSet(kept)
        BY <1>2, FS_Subset
      <3>2. Cardinality(kept) \in Nat /\ Cardinality(windows[u][s]) \in Nat
        BY <1>2, <3>1, FS_CardinalityType
      <3>3. Cardinality(windows[u][s]) <= RateLimit
        BY <1>0, <1>1 DEF RateInv, WindowsFit
      <3> HIDE DEF kept
      <3>4. Cardinality(kept \cup {c}) <= Cardinality(kept) + 1 /\ Cardinality(kept \cup {c}) \in Nat
        BY <3>1, AddOne
      <3> QED
        BY <1>1, <3>1, <3>2, <3>3, <3>4
    <2> QED
      BY <1>1, <2>1 DEF RateInv, WindowsFit
  <1>11. CountedCame'
    <2> SUFFICES ASSUME NEW v \in User, NEW g \in DOMAIN windows[v], NEW d \in windows'[v][g] PROVE pc'[d] # "idle"
      BY <1>1 DEF CountedCame
    <2>1. d = c \/ d \in windows[v][g]
      BY <1>1, <1>2
    <2>2. d \in windows[v][g] => d \in Call /\ pc[d] # "idle"
      BY SMTT(30) DEF RateInv, CountedCame, TypeInv
    <2> QED
      BY <1>3, <2>1, <2>2
  <1>12. ChargedIsKept'
    <2> SUFFICES ASSUME NEW d \in Call \ Task, Charged(d)', Fresh(d)'
                 PROVE  \E g \in DOMAIN windows'[UserOf[d]] : d \in windows'[UserOf[d]][g]
      BY DEF ChargedIsKept
    <2>1. CASE d = c
      <3>1. ~full
        BY <1>3, <2>1 DEF Charged
      <3> QED
        BY <1>0, <1>1, <2>1, <3>1 DEF u
    <2>2. CASE d # c
      <3>1. Charged(d) /\ Fresh(d)
        BY <1>3, <1>5, <2>2 DEF Charged
      <3>2. PICK g \in DOMAIN windows[UserOf[d]] : d \in windows[UserOf[d]][g]
        BY <3>1 DEF RateInv, ChargedIsKept
      <3>3. stamp[d] > stamp[c] - Window
        BY <1>0, <3>1 DEF Fresh
      <3>4. d \in windows'[UserOf[d]][g]
        BY <1>1, <3>2, <3>3
      <3> QED
        BY <1>1, <3>2, <3>4
    <2> QED
      BY <2>1, <2>2
  <1>13. StampsPast'
    BY <1>0 DEF StampsPast
  <1> QED
    BY <1>8, <1>9, <1>10, <1>11, <1>12, <1>13 DEF RateInv

\* admission_state: what is said of the windows that the caller did not get.
LEMMA LookUpAt ==
    ASSUME TypeInv, RateInv, NEW c \in Call, LookUp(c), now' = now,
           pc[c] \in {"idle", "global"},
           pc[c] = "idle" => pc'[c] = "charge" /\ stamp'[c] = now,
           pc[c] = "global" => pc'[c] = "principal" /\ stamp'[c] = stamp[c],
           \A d \in Call \ {c} : pc'[d] = pc[d] /\ stamp'[d] = stamp[d]
    PROVE  \A v \in User : \A g \in DOMAIN windows[v] :
              /\ windows'[v][g] = windows[v][g]
              /\ ~(v = UserOf[c] /\ g = slot'[c]) =>
                    \A d \in At(v, g)' : d \in At(v, g) /\ d \in Call /\ stamp'[d] = stamp[d]
  <1>1. PICK gone : Lost(UserOf[c], gone)
    BY LookUpDoes
  <1>2. Got(UserOf[c], slot'[c]) /\ slot' = [slot EXCEPT ![c] = slot'[c]]
    BY LookUpDoes
  <1> SUFFICES ASSUME NEW v \in User, NEW g \in DOMAIN windows[v]
               PROVE  /\ windows'[v][g] = windows[v][g]
                      /\ ~(v = UserOf[c] /\ g = slot'[c]) =>
                            \A d \in At(v, g)' : d \in At(v, g) /\ d \in Call /\ stamp'[d] = stamp[d]
    OBVIOUS
  <1>3. windows'[v][g] = windows[v][g]
    BY <1>1, <1>2 DEF Lost, Got
  <1>4. \A d \in windows[v][g] : d \in Call /\ pc[d] # "idle"
    BY TableTypes DEF RateInv, CountedCame
  <1>5. \A d \in Call \ {c} : slot'[d] = slot[d]
    BY <1>2 DEF TypeInv
  <1>6. ASSUME ~(v = UserOf[c] /\ g = slot'[c]), NEW d \in At(v, g)'
        PROVE  d \in At(v, g) /\ d \in Call /\ stamp'[d] = stamp[d]
    <2>1. CASE d \in windows'[v][g]
      BY <1>3, <1>4, <2>1 DEF At
    <2>2. CASE d \notin windows'[v][g]
      <3>1. d \in Call /\ pc'[d] = "charge" /\ UserOf[d] = v /\ slot'[d] = g
        BY <2>2 DEF At
      <3>2. d # c
        BY <1>6, <3>1
      <3> QED
        BY <1>5, <3>1, <3>2 DEF At
    <2> QED
      BY <2>1, <2>2
  <1> QED
    BY <1>3, <1>6

\* An eviction by age takes a window with no recent call; one that makes room
\* is counted.
LEMMA EvictedRate ==
    ASSUME TypeInv, RateInv, now' = now, NEW v \in User, NEW e, e = entry[v], e # 0,
           Live(v)' \subseteq Live(v),
           e \in Live(v)' => \E d \in At(v, e) \cap Call : stamp'[d] = stamp[d] /\ Fresh(d)',
           forRoom'[v] = IF ~Stale(v) THEN forRoom[v] + 1 ELSE forRoom[v]
    PROVE  Cardinality(Live(v)') <= forRoom'[v]
  <1>1. IsFiniteSet(Live(v)) /\ Cardinality(Live(v)) \in Nat /\ forRoom[v] \in Nat
    BY LiveFinite, TableTypes
  <1>2. Cardinality(Live(v)) <= forRoom[v] + 1
    BY <1>1 DEF RateInv, FewLive
  <1>3. Live(v)' \in SUBSET Live(v)
    OBVIOUS
  <1>4. IsFiniteSet(Live(v)') /\ Cardinality(Live(v)') <= Cardinality(Live(v)) /\ Cardinality(Live(v)') \in Nat
    BY <1>1, <1>3, FS_Subset, FS_CardinalityType
  <1>5. CASE ~Stale(v)
    BY <1>1, <1>2, <1>4, <1>5
  <1>6. CASE Stale(v)
    <2>1. seen[v] \in Nat /\ now \in Nat /\ e \in DOMAIN windows[v] /\ now - seen[v] >= StateTTL
      BY <1>6, TableTypes DEF Stale, TypeInv
    <2>2. \A d \in At(v, e) : stamp[d] <= seen[v]
      BY DEF RateInv, SeenIsLast
    <2>3. \A d \in Call : stamp[d] \in Nat
      BY DEF TypeInv
    <2>4. e \notin Live(v)'
      BY <2>1, <2>2, <2>3 DEF Fresh
    <2>5. e \in Live(v)
      BY <2>1 DEF Live
    <2>6. Live(v)' \in SUBSET (Live(v) \ {e})
      BY <2>4
    <2>7. IsFiniteSet(Live(v) \ {e}) /\ Cardinality(Live(v) \ {e}) = Cardinality(Live(v)) - 1
      BY <1>1, <2>5, FS_RemoveElement
    <2>8. Cardinality(Live(v)') <= Cardinality(Live(v) \ {e})
      BY <2>6, <2>7, FS_Subset
    <2> QED
      BY <1>1, <1>2, <1>4, <1>6, <2>7, <2>8
  <1> QED
    BY <1>5, <1>6

LEMMA LookUpRate ==
    ASSUME TypeInv, RateInv, NEW c \in Call, LookUp(c), now' = now,
           pc[c] \in {"idle", "global"},
           pc[c] = "idle" => pc'[c] = "charge" /\ stamp'[c] = now,
           pc[c] = "global" => pc'[c] = "principal" /\ stamp'[c] = stamp[c],
           \A d \in Call \ {c} : pc'[d] = pc[d] /\ stamp'[d] = stamp[d]
    PROVE  RateInv'
  <1> DEFINE u == UserOf[c]
             s == slot'[c]
  <1>1. PICK gone : Lost(u, gone)
    BY LookUpDoes
  <1>2. Got(u, s) /\ u \in User /\ forRoom' \in [User -> Nat] /\ windows' \in [User -> Seq(SUBSET Call)]
    BY LookUpDoes
  <1>3. \A v \in User : \A g \in DOMAIN windows[v] :
              /\ windows'[v][g] = windows[v][g]
              /\ ~(v = u /\ g = s) => \A d \in At(v, g)' : d \in At(v, g) /\ d \in Call /\ stamp'[d] = stamp[d]
    BY LookUpAt
  <1>4. /\ now \in Nat /\ \A d \in Call : stamp[d] \in Nat /\ stamp[d] <= now
        /\ \A d \in Call : stamp'[d] <= now
    <2>1. now \in Nat /\ \A d \in Call : stamp[d] \in Nat /\ stamp[d] <= now
      BY DEF TypeInv, RateInv, StampsPast
    <2>2. stamp'[c] <= now
      BY <2>1
    <2> QED
      BY <2>1, <2>2
  <1>5. StampsPast'
    BY <1>4 DEF StampsPast
  <1>6. ASSUME NEW v \in User
        PROVE  /\ Len(windows[v]) \in Nat /\ DOMAIN windows[v] = 1 .. Len(windows[v])
               /\ DOMAIN windows'[v] = 1 .. Len(windows'[v])
               /\ DOMAIN windows'[v] = DOMAIN windows[v] \cup (IF v = u THEN {s} ELSE {})
               /\ v = u => s \in DOMAIN windows'[v]
               /\ v = u /\ s \notin DOMAIN windows[v] => windows'[v][s] = {}
    <2>1. Len(windows[v]) \in Nat /\ DOMAIN windows[v] = 1 .. Len(windows[v])
          /\ (entry[v] # 0 => entry[v] \in DOMAIN windows[v])
      BY TableTypes
    <2>2. Len(windows'[v]) \in Nat /\ DOMAIN windows'[v] = 1 .. Len(windows'[v])
      BY <1>2
    <2>3. CASE v # u
      BY <1>1, <2>1, <2>2, <2>3 DEF Lost
    <2>4. CASE v = u /\ entry[v] # 0
      BY <1>2, <2>1, <2>2, <2>4 DEF Got
    <2>5. CASE v = u /\ entry[v] = 0
      <3>1. s = Len(windows[v]) + 1 /\ Len(windows'[v]) = s /\ windows'[v][s] = {}
        BY <1>2, <2>5 DEF Got
      <3> HIDE DEF s
      <3>2. DOMAIN windows'[v] = DOMAIN windows[v] \cup {s} /\ s \in DOMAIN windows'[v]
        BY SMTT(30), <2>1, <2>2, <3>1
      <3> QED
        BY <2>1, <2>2, <2>5, <3>1, <3>2
    <2> QED
      BY <2>3, <2>4, <2>5
  <1>7. ASSUME NEW v \in User, NEW g \in DOMAIN windows[v], ~(v = u /\ g = s),
               NEW d \in At(v, g)', Fresh(d)'
        PROVE  d \in At(v, g) /\ d \in Call /\ stamp'[d] = stamp[d] /\ Fresh(d)
    BY <1>3, <1>7 DEF Fresh
  <1> HIDE DEF u, s
  <1>8. FewLive'
    <2> SUFFICES ASSUME NEW v \in User
                 PROVE  Cardinality(Live(v)') <= forRoom'[v] + (IF entry'[v] = 0 THEN 0 ELSE 1)
      BY DEF FewLive
    <2>0. forRoom[v] \in Nat /\ forRoom'[v] \in Nat /\ IsFiniteSet(Live(v)) /\ Cardinality(Live(v)) \in Nat
      BY <1>2, TableTypes, LiveFinite
    <2>1. CASE v # u
      <3>1. windows'[v] = windows[v] /\ entry'[v] = (IF v \in gone THEN 0 ELSE entry[v])
            /\ forRoom'[v] = IF v \in gone /\ ~Stale(v) THEN forRoom[v] + 1 ELSE forRoom[v]
        BY <1>1, <2>1 DEF Lost
      <3>2. Live(v)' \subseteq Live(v)
        BY <1>7, <2>1, <3>1, <1>6 DEF Live
      <3>3. CASE v \notin gone
        <4>1. forRoom'[v] >= forRoom[v] /\ entry'[v] = entry[v] /\ FewLive
          BY <2>0, <3>1, <3>3 DEF RateInv
        <4> QED
          BY <2>0, <3>2, <4>1, FewLiveKept
      <3>4. CASE v \in gone
        <4>1. PICK e \in DOMAIN windows[v] : e = entry[v] /\ e # 0
          BY <1>1, <3>4, TableTypes DEF Lost
        <4>2. entry'[v] = 0 /\ forRoom'[v] = IF ~Stale(v) THEN forRoom[v] + 1 ELSE forRoom[v]
          BY <3>1, <3>4
        <4>3. e \in Live(v)' => \E d \in At(v, e)' : Fresh(d)'
          BY <1>6, <4>1, <4>2 DEF Live
        <4>4. e \in Live(v)' => \E d \in At(v, e) \cap Call : stamp'[d] = stamp[d] /\ Fresh(d)'
          BY <1>7, <2>1, <4>1, <4>3
        <4>5. Cardinality(Live(v)') <= forRoom'[v]
          BY <3>2, <4>1, <4>2, <4>4, EvictedRate
        <4> QED
          BY <2>0, <4>2, <4>5
      <3> QED
        BY <3>3, <3>4
    <2>2. CASE v = u /\ entry[v] # 0
      <3>1. s = entry[v] /\ windows'[v] = windows[v] /\ entry'[v] = entry[v] /\ forRoom'[v] = forRoom[v]
        BY <1>2, <2>2 DEF Got
      <3>2. Live(v)' \subseteq Live(v)
        BY <1>7, <1>6, <2>2, <3>1 DEF Live
      <3>3. forRoom'[v] >= forRoom[v] /\ FewLive
        BY <2>0, <3>1 DEF RateInv
      <3> QED
        BY <2>0, <3>1, <3>2, <3>3, FewLiveKept
    <2>3. CASE v = u /\ entry[v] = 0
      <3>1. entry'[v] = s /\ forRoom'[v] = forRoom[v] /\ s = Len(windows[v]) + 1 /\ s # 0
        BY <1>2, <1>6, <2>3 DEF Got
      <3>2. Live(v)' \subseteq Live(v) \cup {s}
        BY <1>6, <1>7, <2>3, <3>1 DEF Live
      <3>3. IsFiniteSet(Live(v) \cup {s}) /\ Cardinality(Live(v) \cup {s}) \in Nat
            /\ Cardinality(Live(v) \cup {s}) <= Cardinality(Live(v)) + 1
        BY <2>0, AddOne
      <3>4. Live(v)' \in SUBSET (Live(v) \cup {s})
        BY <3>2
      <3>5. Cardinality(Live(v)') <= Cardinality(Live(v) \cup {s}) /\ Cardinality(Live(v)') \in Nat
        BY <3>3, <3>4, FS_Subset, FS_CardinalityType
      <3>6. Cardinality(Live(v)) <= forRoom[v]
        BY <2>0, <2>3 DEF RateInv, FewLive
      <3> QED
        BY <2>0, <3>1, <3>3, <3>5, <3>6
    <2> QED
      BY <2>1, <2>2, <2>3
  <1>9. SeenIsLast'
    <2> SUFFICES ASSUME NEW v \in User, entry'[v] # 0, NEW d \in At(v, entry[v])' PROVE stamp'[d] <= seen'[v]
      BY DEF SeenIsLast
    <2>1. CASE v # u
      <3>1. entry'[v] = entry[v] /\ seen'[v] = seen[v] /\ entry[v] # 0 /\ entry[v] \in DOMAIN windows[v]
        BY <1>1, <2>1, TableTypes DEF Lost
      <3> QED
        BY <1>3, <2>1, <3>1 DEF RateInv, SeenIsLast
    <2>2. CASE v = u
      <3>1. entry'[v] \in DOMAIN windows'[v] /\ windows'[v] \in Seq(SUBSET Call)
        BY <1>2, <1>6, <2>2 DEF Got
      <3>2. d \in Call
        BY <3>1 DEF At
      <3> QED
        BY <1>2, <1>4, <2>2, <3>2 DEF Got
    <2> QED
      BY <2>1, <2>2
  <1>10. WindowsFit'
    <2> SUFFICES ASSUME NEW v \in User, NEW g \in DOMAIN windows'[v] PROVE Cardinality(windows'[v][g]) <= RateLimit
      BY DEF WindowsFit
    <2>1. CASE g \in DOMAIN windows[v]
      BY <1>3, <2>1 DEF RateInv, WindowsFit
    <2>2. CASE g \notin DOMAIN windows[v]
      <3>1. windows'[v][g] = {}
        BY <1>6, <2>2
      <3> QED
        BY <3>1, FS_EmptySet
    <2> QED
      BY <2>1, <2>2
  <1>11. CountedCame'
    <2> SUFFICES ASSUME NEW v \in User, NEW g \in DOMAIN windows'[v], NEW d \in windows'[v][g] PROVE pc'[d] # "idle"
      BY DEF CountedCame
    <2>1. g \in DOMAIN windows[v] /\ d \in windows[v][g]
      BY <1>3, <1>6
    <2>2. d \in Call /\ pc[d] # "idle"
      BY <2>1, TableTypes DEF RateInv, CountedCame
    <2> QED
      BY <2>2
  <1>12. ChargedIsKept'
    <2> SUFFICES ASSUME NEW d \in Call \ Task, Charged(d)', Fresh(d)'
                 PROVE  \E g \in DOMAIN windows'[UserOf[d]] : d \in windows'[UserOf[d]][g]
      BY DEF ChargedIsKept
    <2>1. Charged(d) /\ Fresh(d)
      BY DEF Charged, Fresh
    <2>2. UserOf[d] \in User
      OBVIOUS
    <2>3. PICK g \in DOMAIN windows[UserOf[d]] : d \in windows[UserOf[d]][g]
      BY <2>1 DEF RateInv, ChargedIsKept
    <2> QED
      BY <1>3, <1>6, <2>2, <2>3
  <1> QED
    BY <1>5, <1>8, <1>9, <1>10, <1>11, <1>12 DEF RateInv

LEMMA RateNext == TypeInv /\ RateInv /\ [Next]_vars => RateInv'
  <1> SUFFICES ASSUME TypeInv, RateInv, [Next]_vars PROVE RateInv'
    OBVIOUS
  <1>0. now \in Nat /\ pc \in [Call -> PC] /\ stamp \in [Call -> Nat]
    BY DEF TypeInv
  <1>1. CASE Tick \/ UNCHANGED vars
    <2>1. /\ UNCHANGED <<stamp, entry, seen, windows, forRoom, pc, slot>> /\ now' \in Nat /\ now <= now'
      BY <1>0, <1>1 DEF Tick, table, process, vars
    <2> QED
      BY <2>1, RateKept DEF Charged
  <1>2. CASE BeginDrain
    <2>1. /\ UNCHANGED <<stamp, entry, seen, windows, forRoom, pc, slot, now>>
      BY <1>2 DEF BeginDrain, table
    <2> QED
      BY <1>0, <2>1, RateKept DEF Charged
  <1>3. CASE Stop
    <2>1. /\ UNCHANGED <<stamp, entry, seen, windows, forRoom, slot, now>>
          /\ \A d \in Call : pc'[d] = IF pc[d] \in Over \cup {"idle"} THEN pc[d] ELSE "cut"
      BY <1>3 DEF Stop, table
    <2>2. /\ \A d \in Call : pc'[d] = "charge" => pc[d] = "charge" /\ slot'[d] = slot[d]
          /\ \A d \in Call : pc'[d] = "idle" => pc[d] = "idle"
          /\ \A d \in Call \ Task : Charged(d)' => Charged(d)
      BY <2>1 DEF Charged, Over
    <2> QED
      BY <1>0, <2>1, <2>2, RateKept
  <1>4. ASSUME NEW c \in Call, Step(c) PROVE RateInv'
    <2>1. CASE Request(c) \/ TakeGlobal(c)
      <3>1. LookUp(c) /\ now' = now /\ pc[c] \in {"idle", "global"}
        BY <2>1 DEF Request, TakeGlobal
      <3>2. PICK to \in PC : Moves(c, to) /\ (pc[c] = "idle" => to = "charge") /\ (pc[c] = "global" => to = "principal")
        BY <2>1 DEF Request, TakeGlobal, PC
      <3>3. pc'[c] = to /\ \A d \in Call \ {c} : pc'[d] = pc[d]
        BY <3>2, MovesTyped
      <3>4. (pc[c] = "idle" => stamp'[c] = now) /\ (pc[c] = "global" => stamp'[c] = stamp[c])
            /\ \A d \in Call \ {c} : stamp'[d] = stamp[d]
        BY <1>0, <2>1 DEF Request, TakeGlobal
      <3> QED
        BY <3>1, <3>2, <3>3, <3>4, LookUpRate
    <2>2. CASE Charge(c)
      BY <2>2, ChargeRate
    <2>3. CASE RunTask(c) \/ TakePrincipal(c) \/ TakeExpensive(c) \/ Start(c) \/ End(c) \/ Cancel(c)
      <3>1. UNCHANGED <<stamp, entry, seen, windows, forRoom, slot, now>>
        BY <2>3 DEF RunTask, TakePrincipal, TakeExpensive, Start, End, Cancel, table
      <3>2. PICK to \in PC \ {"charge", "idle"} :
                /\ Moves(c, to)
                /\ c \in Task \/ Charged(c) \/ to = "refused"
        BY <2>3 DEF RunTask, TakePrincipal, TakeExpensive, Start, End, Cancel, PC, Charged
      <3>3. pc'[c] = to /\ \A d \in Call \ {c} : pc'[d] = pc[d]
        BY <3>2, MovesTyped
      <3>4. /\ \A d \in Call : pc'[d] = "charge" => pc[d] = "charge" /\ slot'[d] = slot[d]
            /\ \A d \in Call : pc'[d] = "idle" => pc[d] = "idle"
            /\ \A d \in Call \ Task : Charged(d)' => Charged(d)
        BY <3>1, <3>2, <3>3 DEF Charged
      <3> QED
        BY <1>0, <3>1, <3>4, RateKept
    <2> QED
      BY <1>4, <2>1, <2>2, <2>3 DEF Step
  <1> QED
    BY <1>1, <1>2, <1>3, <1>4 DEF Next

LEMMA RateInit == Init => RateInv
  <1> SUFFICES ASSUME Init PROVE RateInv
    OBVIOUS
  <1>1. \A u \in User : Live(u) = {}
    BY DEF Init, Live
  <1>2. Cardinality({}) = 0
    BY FS_EmptySet
  <1>3. FewLive
    <2>1. \A u \in User : Cardinality(Live(u)) = 0 /\ forRoom[u] = 0 /\ entry[u] = 0
      BY <1>1, <1>2 DEF Init
    <2> QED
      BY <2>1 DEF FewLive
  <1> QED
    BY <1>3 DEF Init, RateInv, StampsPast, WindowsFit, CountedCame, SeenIsLast, ChargedIsKept, Charged

-----------------------------------------------------------------------------
\* A union of few small sets is not large.
LEMMA ManySmallSets ==
    ASSUME NEW G, NEW W, NEW R \in Nat, NEW T,
           IsFiniteSet(G), \A g \in G : IsFiniteSet(W[g]) /\ Cardinality(W[g]) <= R,
           \A x \in T : \E g \in G : x \in W[g]
    PROVE  IsFiniteSet(T) /\ Cardinality(T) <= Cardinality(G) * R
  <1>1. \A g \in G : \E f \in Injection(W[g], 1 .. R) : TRUE
    <2> SUFFICES ASSUME NEW g \in G PROVE \E f \in Injection(W[g], 1 .. R) : TRUE
      OBVIOUS
    <2>1. Cardinality(W[g]) \in Nat /\ Cardinality(W[g]) <= R
      BY FS_CardinalityType
    <2>2. PICK h : h \in Bijection(1 .. Cardinality(W[g]), W[g])
      BY FS_CardinalityType, Fun_ExistsBijEquiv DEF ExistsBijection
    <2>3. PICK f : f \in Bijection(W[g], 1 .. Cardinality(W[g]))
      BY <2>2, Fun_ExistsBijSymmetric DEF ExistsBijection
    <2>4. f \in Injection(W[g], 1 .. R)
      BY <2>1, <2>3 DEF Bijection, Injection, IsInjective
    <2> QED
      BY <2>4
  <1> DEFINE Nr == [g \in G |-> CHOOSE f \in Injection(W[g], 1 .. R) : TRUE]
             Place == [x \in T |-> CHOOSE g \in G : x \in W[g]]
             F == [x \in T |-> <<Place[x], Nr[Place[x]][x]>>]
  <1>2. \A g \in G : Nr[g] \in Injection(W[g], 1 .. R)
    BY <1>1
  <1>3. \A x \in T : Place[x] \in G /\ x \in W[Place[x]]
    OBVIOUS
  <1> HIDE DEF Nr, Place
  <1>4. F \in Injection(T, G \X (1 .. R))
    <2>1. \A x \in T : Nr[Place[x]][x] \in 1 .. R
      BY <1>2, <1>3 DEF Injection
    <2>2. F \in [T -> G \X (1 .. R)]
      BY <1>3, <2>1
    <2>3. ASSUME NEW x \in T, NEW y \in T, F[x] = F[y] PROVE x = y
      BY <1>2, <1>3, <2>3 DEF Injection, IsInjective
    <2> QED
      BY <2>2, <2>3 DEF Injection, IsInjective
  <1>5. IsFiniteSet(1 .. R) /\ Cardinality(1 .. R) = R
    <2>1. 1 \in Int /\ R \in Int /\ (1 > R => R = 0) /\ R - 1 + 1 = R
      OBVIOUS
    <2>2. IsFiniteSet(1 .. R) /\ Cardinality(1 .. R) = IF 1 > R THEN 0 ELSE R - 1 + 1
      BY <2>1, FS_Interval, Zenon
    <2> QED
      BY <2>1, <2>2
  <1>6. IsFiniteSet(G \X (1 .. R)) /\ Cardinality(G \X (1 .. R)) = Cardinality(G) * R
    BY <1>5, FS_Product
  <1> QED
    BY <1>4, <1>6, FS_Injection DEF ExistsInjection

\* MCP_RATE_LIMIT_PER_MINUTE holds for every principal (admission_state,
\* _evict_principal_states, _Window.consume): the objects dropped by age, at
\* whatever moment and with whatever calls queued on them, give nobody a
\* second quota; only those dropped for room do.
THEOREM LocalRateIsLimited == Spec => []LocalRateHolds
  <1>1. TypeInv /\ RateInv => LocalRateHolds
    <2> SUFFICES ASSUME TypeInv, RateInv, NEW u \in User
                 PROVE  Cardinality(Recent(u)) <= RateLimit * (1 + forRoom[u])
      BY DEF LocalRateHolds
    <2>1. IsFiniteSet(Live(u)) /\ Cardinality(Live(u)) \in Nat /\ forRoom[u] \in Nat
      BY LiveFinite, TableTypes
    <2>2. Cardinality(Live(u)) <= 1 + forRoom[u]
      BY <2>1 DEF RateInv, FewLive
    <2>3. ASSUME NEW g \in Live(u)
          PROVE  IsFiniteSet(windows[u][g]) /\ Cardinality(windows[u][g]) <= RateLimit
      <3>1. windows[u][g] \in SUBSET Call
        BY TableTypes DEF Live
      <3> QED
        BY <3>1, FS_Subset DEF RateInv, WindowsFit, Live
    <2>4. ASSUME NEW c \in Recent(u) PROVE \E g \in Live(u) : c \in windows[u][g]
      <3>1. c \in Call \ Task /\ UserOf[c] = u /\ Fresh(c) /\ Charged(c)
        BY DEF Recent, Fresh, Charged
      <3>2. PICK g \in DOMAIN windows[u] : c \in windows[u][g]
        BY <3>1 DEF RateInv, ChargedIsKept
      <3>3. g \in Live(u)
        BY <3>1, <3>2 DEF Live, At
      <3> QED
        BY <3>2, <3>3
    <2>5. Cardinality(Recent(u)) <= Cardinality(Live(u)) * RateLimit /\ IsFiniteSet(Recent(u))
      BY <2>1, <2>3, <2>4, ManySmallSets
    <2>6. Cardinality(Recent(u)) \in Nat
      BY <2>5, FS_CardinalityType
    <2>7. \A a, b, r \in Nat : a <= 1 + b => a * r <= r * (1 + b)
      <3> SUFFICES ASSUME NEW a \in Nat, NEW b \in Nat, NEW r \in Nat, a <= 1 + b PROVE a * r <= r * (1 + b)
        OBVIOUS
      <3>1. (1 + b) - a \in Nat /\ r * ((1 + b) - a) \in Nat
        OBVIOUS
      <3>2. r * ((1 + b) - a) = r * (1 + b) - a * r
        OBVIOUS
      <3>3. r * (1 + b) \in Nat /\ a * r \in Nat
        OBVIOUS
      <3> QED
        BY <3>1, <3>2, <3>3
    <2> QED
      BY <2>1, <2>2, <2>5, <2>6, <2>7
  <1> QED
    BY <1>1, RateInit, RateNext, TypeCorrect, PTL DEF Spec
=============================================================================

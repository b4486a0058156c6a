----------------------- MODULE RpcSubscriptionsProofs -----------------------
(***************************************************************************)
(* Proofs about RpcSubscriptions, for any number of workers, ids and       *)
(* events and any queue limit.                                             *)
(***************************************************************************)
EXTENDS RpcSubscriptions, SequenceTheorems, TLAPS

\* Facts about sequences.
LEMMA HeadTail ==
    ASSUME NEW S, NEW s \in Seq(S), s # << >>
    PROVE  Head(s) \in S /\ Tail(s) \in Seq(S) /\ Len(Tail(s)) = Len(s) - 1
OBVIOUS

LEMMA EmptyIn == ASSUME NEW S PROVE << >> \in Seq(S) /\ Len(<< >>) = 0
OBVIOUS

\* What the main loop and an unsubscribe know at each of their places.
LoopInv ==
    /\ \A w \in Workers : pc[w] = "erase" => method[w] = "unsubscribe"
    /\ loop = "lock" => Len(fanned) < MaxEvents
    /\ todo # {} => loop = "fan"
    /\ loop = "fan" => fanned # << >>

\* Types, mutual exclusion and the validity of iterators need each other:
\* an iterator is valid only because nobody else erases meanwhile.
Inv == TypeOK /\ LoopInv /\ MutualExclusion /\ IteratorsValid

LEMMA InitInv == Init => Inv
<1> SUFFICES ASSUME Init PROVE Inv
  OBVIOUS
<1> USE ConstantsAssumption DEF Init
<1>1. TypeOK
  BY DEF TypeOK, Places, Methods, Answers
<1>2. LoopInv
  BY DEF LoopInv
<1>3. MutualExclusion
  BY DEF MutualExclusion, Holding
<1>4. IteratorsValid
  BY DEF IteratorsValid
<1> QED BY <1>1, <1>2, <1>3, <1>4 DEF Inv

\* Next, action by action.
LEMMA Cases ==
    ASSUME [Next]_vars
    PROVE  \/ \E w \in Workers : \/ Request(w) \/ Lock(w) \/ Insert(w) \/ Erase(w) \/ Search(w)
                                \/ Sleep(w) \/ Pop(w) \/ Gone(w) \/ Reply(w)
           \/ Fetch \/ FanLock \/ FanUnlock
           \/ \E u \in Uuids : Fan(u)
           \/ UNCHANGED vars
BY DEF Next, Critical

LEMMA TypeStep == ASSUME Inv, [Next]_vars PROVE TypeOK'
<1> USE ConstantsAssumption DEF Inv, TypeOK, Events, Places, Methods, Answers
<1>1. ASSUME NEW w \in Workers, Request(w) PROVE TypeOK'
  BY <1>1 DEF Request, historyVars, Methods
<1>2. ASSUME NEW w \in Workers, Lock(w) PROVE TypeOK'
  BY <1>2 DEF Lock, historyVars, AfterLock, Methods, Places
<1>3. ASSUME NEW w \in Workers, Insert(w) PROVE TypeOK'
  <2>1. PICK u \in Uuids \ used :
            /\ used' = used \union {u}
            /\ uuid' = [uuid EXCEPT ![w] = u]
            /\ subscriptions' = [v \in DOMAIN subscriptions \union {u} |->
                                    IF v = u THEN << >> ELSE subscriptions[v]]
            /\ base' = [base EXCEPT ![u] = Len(fanned)]
    BY <1>3 DEF Insert
  <2>2. DOMAIN subscriptions' \subseteq used' /\ used' \subseteq Uuids
    BY <2>1
  <2>3. subscriptions' \in [DOMAIN subscriptions' -> Seq(Events)]
    <3>1. \A v \in DOMAIN subscriptions : subscriptions[v] \in Seq(Events)
      OBVIOUS
    <3> HIDE DEF Events
    <3> QED BY <2>1, <3>1, EmptyIn
  <2>4. uuid' \in [Workers -> Uuids \union {NoUuid}] /\ base' \in [Uuids -> Nat]
    BY <2>1
  <2> QED BY <2>2, <2>3, <2>4, <1>3 DEF Insert, ReplyWith
<1>4. ASSUME NEW w \in Workers, Erase(w) PROVE TypeOK'
  BY <1>4 DEF Erase, historyVars, ReplyWith, Restrict
<1>5. ASSUME NEW w \in Workers, Search(w) PROVE TypeOK'
  BY <1>5 DEF Search, historyVars
<1>6. ASSUME NEW w \in Workers, Sleep(w) PROVE TypeOK'
  BY <1>6 DEF Sleep, historyVars
<1>7. ASSUME NEW w \in Workers, Pop(w) PROVE TypeOK'
  <2>1. it[w] \in DOMAIN subscriptions /\ it[w] \in Uuids
    BY <1>7 DEF Pop, IteratorsValid
  <2>2. subscriptions[it[w]] \in Seq(Events) /\ subscriptions[it[w]] # << >>
    BY <1>7, <2>1 DEF Pop
  <2>3. Head(subscriptions[it[w]]) \in Events /\ Tail(subscriptions[it[w]]) \in Seq(Events)
    BY <2>2, HeadTail
  <2>4. DOMAIN subscriptions' = DOMAIN subscriptions
    BY <1>7 DEF Pop
  <2>5. subscriptions' \in [DOMAIN subscriptions -> Seq(Events)]
    BY <1>7, <2>3 DEF Pop
  <2>6. taken' \in [Uuids -> Seq(Events)]
    BY <1>7, <2>1, <2>3 DEF Pop
  <2> QED BY <2>4, <2>5, <2>6, <1>7 DEF Pop, ReplyWith
<1>8. ASSUME NEW w \in Workers, Gone(w) PROVE TypeOK'
  BY <1>8 DEF Gone, historyVars, ReplyWith
<1>9. ASSUME NEW w \in Workers, Reply(w) PROVE TypeOK'
  BY <1>9 DEF Reply, historyVars
<1>10. CASE Fetch
  BY <1>10 DEF Fetch, workerVars, historyVars
<1>11. CASE FanLock
  <2>1. Len(fanned) + 1 \in Events
    BY <1>11 DEF FanLock, LoopInv
  <2>2. fanned' \in Seq(Events)
    BY <1>11, <2>1 DEF FanLock
  <2>3. todo' \subseteq Uuids
    BY <1>11 DEF FanLock
  <2> QED BY <2>2, <2>3, <1>11 DEF FanLock, workerVars, historyVars
<1>12. CASE FanUnlock
  BY <1>12 DEF FanUnlock, workerVars, historyVars
<1>13. ASSUME NEW u \in Uuids, Fan(u) PROVE TypeOK'
  <2>1. u \in DOMAIN subscriptions /\ fanned # << >>
    BY <1>13 DEF Fan, IteratorsValid, LoopInv
  <2>2. Last(fanned) \in Events
    BY <2>1 DEF Last
  <2>3. Append(subscriptions[u], Last(fanned)) \in Seq(Events)
    BY <2>1, <2>2
  <2>4. CASE Abandoned(u)
    BY <2>4, <1>13 DEF Fan, workerVars, historyVars, Restrict
  <2>5. CASE ~ Abandoned(u)
    <3>1. subscriptions' = [subscriptions EXCEPT ![u] = Append(@, Last(fanned))]
      BY <2>5, <1>13 DEF Fan
    <3>2. subscriptions' \in [DOMAIN subscriptions -> Seq(Events)]
      BY <3>1, <2>3
    <3>3. DOMAIN subscriptions' = DOMAIN subscriptions
      BY <3>1
    <3> QED BY <3>2, <3>3, <1>13 DEF Fan, workerVars, historyVars
  <2> QED BY <2>4, <2>5
<1>14. CASE UNCHANGED vars
  BY <1>14 DEF vars, workerVars, historyVars
<1> QED BY <1>1, <1>2, <1>3, <1>4, <1>5, <1>6, <1>7, <1>8, <1>9, <1>10, <1>11, <1>12, <1>13, <1>14, Cases

LEMMA LoopStep == ASSUME Inv, [Next]_vars PROVE LoopInv'
<1> USE ConstantsAssumption DEF Inv, TypeOK, LoopInv, Events
<1>1. ASSUME NEW w \in Workers, Request(w) PROVE LoopInv'
  BY <1>1 DEF Request, historyVars, Methods
<1>2. ASSUME NEW w \in Workers, Lock(w) PROVE LoopInv'
  BY <1>2 DEF Lock, historyVars, AfterLock, Methods, Places
<1>3. ASSUME NEW w \in Workers, Insert(w) PROVE LoopInv'
  BY <1>3 DEF Insert, historyVars, ReplyWith
<1>4. ASSUME NEW w \in Workers, Erase(w) PROVE LoopInv'
  BY <1>4 DEF Erase, historyVars, ReplyWith, Restrict
<1>5. ASSUME NEW w \in Workers, Search(w) PROVE LoopInv'
  BY <1>5 DEF Search, historyVars
<1>6. ASSUME NEW w \in Workers, Sleep(w) PROVE LoopInv'
  BY <1>6 DEF Sleep, historyVars
<1>7. ASSUME NEW w \in Workers, Pop(w) PROVE LoopInv'
  BY <1>7 DEF Pop, historyVars, ReplyWith
<1>8. ASSUME NEW w \in Workers, Gone(w) PROVE LoopInv'
  BY <1>8 DEF Gone, historyVars, ReplyWith
<1>9. ASSUME NEW w \in Workers, Reply(w) PROVE LoopInv'
  BY <1>9 DEF Reply, historyVars
<1>10. CASE Fetch
  BY <1>10 DEF Fetch, workerVars, historyVars
<1>11. CASE FanLock
  BY <1>11 DEF FanLock, workerVars, historyVars
<1>12. CASE FanUnlock
  BY <1>12 DEF FanUnlock, workerVars, historyVars
<1>13. ASSUME NEW u \in Uuids, Fan(u) PROVE LoopInv'
  BY <1>13 DEF Fan, workerVars, historyVars, Restrict, Last, Abandoned
<1>14. CASE UNCHANGED vars
  BY <1>14 DEF vars, workerVars, historyVars
<1> QED BY <1>1, <1>2, <1>3, <1>4, <1>5, <1>6, <1>7, <1>8, <1>9, <1>10, <1>11, <1>12, <1>13, <1>14, Cases

LEMMA MutexStep == ASSUME Inv, [Next]_vars PROVE MutualExclusion'
<1> USE ConstantsAssumption DEF Inv, TypeOK, MutualExclusion, Holding
<1>1. ASSUME NEW w \in Workers, Request(w) PROVE MutualExclusion'
  BY <1>1 DEF Request, historyVars, Methods
<1>2. ASSUME NEW w \in Workers, Lock(w) PROVE MutualExclusion'
  BY <1>2 DEF Lock, historyVars, AfterLock, Methods, Places
<1>3. ASSUME NEW w \in Workers, Insert(w) PROVE MutualExclusion'
  BY <1>3 DEF Insert, historyVars, ReplyWith
<1>4. ASSUME NEW w \in Workers, Erase(w) PROVE MutualExclusion'
  BY <1>4 DEF Erase, historyVars, ReplyWith, Restrict
<1>5. ASSUME NEW w \in Workers, Search(w) PROVE MutualExclusion'
  BY <1>5 DEF Search, historyVars
<1>6. ASSUME NEW w \in Workers, Sleep(w) PROVE MutualExclusion'
  BY <1>6 DEF Sleep, historyVars
<1>7. ASSUME NEW w \in Workers, Pop(w) PROVE MutualExclusion'
  BY <1>7 DEF Pop, historyVars, ReplyWith
<1>8. ASSUME NEW w \in Workers, Gone(w) PROVE MutualExclusion'
  BY <1>8 DEF Gone, historyVars, ReplyWith
<1>9. ASSUME NEW w \in Workers, Reply(w) PROVE MutualExclusion'
  BY <1>9 DEF Reply, historyVars
<1>10. CASE Fetch
  BY <1>10 DEF Fetch, workerVars, historyVars
<1>11. CASE FanLock
  BY <1>11 DEF FanLock, workerVars, historyVars
<1>12. CASE FanUnlock
  BY <1>12 DEF FanUnlock, workerVars, historyVars
<1>13. ASSUME NEW u \in Uuids, Fan(u) PROVE MutualExclusion'
  BY <1>13 DEF Fan, workerVars, historyVars, Restrict, Last, Abandoned
<1>14. CASE UNCHANGED vars
  BY <1>14 DEF vars, workerVars, historyVars
<1> QED BY <1>1, <1>2, <1>3, <1>4, <1>5, <1>6, <1>7, <1>8, <1>9, <1>10, <1>11, <1>12, <1>13, <1>14, Cases

LEMMA IteratorStep == ASSUME Inv, [Next]_vars PROVE IteratorsValid'
<1> USE ConstantsAssumption DEF Inv, TypeOK, MutualExclusion, IteratorsValid, LoopInv, Holding
<1>1. ASSUME NEW w \in Workers, Request(w) PROVE IteratorsValid'
  BY <1>1 DEF Request, historyVars, Methods
<1>2. ASSUME NEW w \in Workers, Lock(w) PROVE IteratorsValid'
  BY <1>2 DEF Lock, historyVars, AfterLock, Methods, Places
<1>3. ASSUME NEW w \in Workers, Insert(w) PROVE IteratorsValid'
  BY <1>3 DEF Insert, historyVars, ReplyWith
<1>4. ASSUME NEW w \in Workers, Erase(w) PROVE IteratorsValid'
  BY <1>4 DEF Erase, historyVars, ReplyWith, Restrict
<1>5. ASSUME NEW w \in Workers, Search(w) PROVE IteratorsValid'
  BY <1>5 DEF Search, historyVars
<1>6. ASSUME NEW w \in Workers, Sleep(w) PROVE IteratorsValid'
  BY <1>6 DEF Sleep, historyVars
<1>7. ASSUME NEW w \in Workers, Pop(w) PROVE IteratorsValid'
  BY <1>7 DEF Pop, historyVars, ReplyWith
<1>8. ASSUME NEW w \in Workers, Gone(w) PROVE IteratorsValid'
  BY <1>8 DEF Gone, historyVars, ReplyWith
<1>9. ASSUME NEW w \in Workers, Reply(w) PROVE IteratorsValid'
  BY <1>9 DEF Reply, historyVars
<1>10. CASE Fetch
  BY <1>10 DEF Fetch, workerVars, historyVars
<1>11. CASE FanLock
  BY <1>11 DEF FanLock, workerVars, historyVars
<1>12. CASE FanUnlock
  BY <1>12 DEF FanUnlock, workerVars, historyVars
<1>13. ASSUME NEW u \in Uuids, Fan(u) PROVE IteratorsValid'
  BY <1>13 DEF Fan, workerVars, historyVars, Restrict, Last, Abandoned
<1>14. CASE UNCHANGED vars
  BY <1>14 DEF vars, workerVars, historyVars
<1> QED BY <1>1, <1>2, <1>3, <1>4, <1>5, <1>6, <1>7, <1>8, <1>9, <1>10, <1>11, <1>12, <1>13, <1>14, Cases

-----------------------------------------------------------------------------
LEMMA StepInv == Inv /\ [Next]_vars => Inv'
BY TypeStep, LoopStep, MutexStep, IteratorStep DEF Inv

LEMMA Invariance == Spec => []Inv
<1>1. Init => Inv
  BY InitInv
<1>2. Inv /\ [Next]_vars => Inv'
  BY StepInv
<1> QED BY <1>1, <1>2, PTL DEF Spec

\* Every variable keeps its type, for any number of workers, subscriptions
\* and events.
THEOREM TypeCorrect == Spec => []TypeOK
<1>1. Inv => TypeOK
  BY DEF Inv
<1> QED BY <1>1, Invariance, PTL

\* At most one thread is inside a critical section on the map.
THEOREM MutexHeld == Spec => []MutualExclusion
<1>1. Inv => MutualExclusion
  BY DEF Inv
<1> QED BY <1>1, Invariance, PTL

\* No worker dereferences an iterator whose subscription is gone and the
\* fan-out only visits subscriptions that exist.
THEOREM NoDanglingIterator == Spec => []IteratorsValid
<1>1. Inv => IteratorsValid
  BY DEF Inv
<1> QED BY <1>1, Invariance, PTL

-----------------------------------------------------------------------------
\* Steps that touch neither the map nor the fan-out.
Aside(w) == Request(w) \/ Lock(w) \/ Search(w) \/ Sleep(w) \/ Gone(w) \/ Reply(w)

LEMMA AsideFrame ==
    ASSUME NEW w \in Workers, Aside(w)
    PROVE  UNCHANGED <<subscriptions, used, todo, fanned, base, taken>>
BY DEF Aside, Request, Lock, Search, Sleep, Gone, Reply, ReplyWith, historyVars

LEMMA MainFrame ==
    ASSUME Fetch \/ FanUnlock
    PROVE  UNCHANGED <<subscriptions, used, todo, fanned, base, taken, workerVars>>
BY DEF Fetch, FanUnlock, historyVars, workerVars

\* A worker in its critical section does not overlap a fan-out.
LEMMA NoFanInside ==
    ASSUME Inv, NEW w \in Workers, pc[w] \in Holding
    PROVE  todo = {} /\ loop # "fan"
BY ConstantsAssumption DEF Inv, LoopInv, MutualExclusion

LEMMA BoundStep ==
    ASSUME Inv, QueueBounded, [Next]_vars
    PROVE  QueueBounded'
<1> USE ConstantsAssumption DEF QueueBounded
<1> SUFFICES ASSUME NEW v \in DOMAIN subscriptions'
             PROVE  Len(subscriptions'[v]) <= QueueLimit + 1
  OBVIOUS
<1>1. ASSUME NEW w \in Workers, Aside(w) PROVE Len(subscriptions'[v]) <= QueueLimit + 1
  BY <1>1, AsideFrame
<1>2. ASSUME NEW w \in Workers, Insert(w) PROVE Len(subscriptions'[v]) <= QueueLimit + 1
  BY <1>2, EmptyIn DEF Insert
<1>3. ASSUME NEW w \in Workers, Erase(w) PROVE Len(subscriptions'[v]) <= QueueLimit + 1
  BY <1>3 DEF Erase, Restrict
<1>4. ASSUME NEW w \in Workers, Pop(w) PROVE Len(subscriptions'[v]) <= QueueLimit + 1
  <2>1. it[w] \in DOMAIN subscriptions
    BY <1>4 DEF Pop, Inv, IteratorsValid
  <2>2. subscriptions[it[w]] \in Seq(Events) /\ subscriptions[it[w]] # << >>
    BY <2>1, <1>4 DEF Pop, Inv, TypeOK
  <2>3. Len(Tail(subscriptions[it[w]])) <= QueueLimit + 1
    <3> HIDE DEF QueueBounded
    <3>1. Len(subscriptions[it[w]]) \in Nat /\ Len(subscriptions[it[w]]) <= QueueLimit + 1
      BY <2>1, <2>2 DEF QueueBounded
    <3> QED BY <3>1, <2>2, HeadTail
  <2> QED BY <2>1, <2>3, <1>4 DEF Pop
<1>5. CASE Fetch \/ FanUnlock
  BY <1>5, MainFrame
<1>6. CASE FanLock
  BY <1>6 DEF FanLock
<1>7. ASSUME NEW u \in Uuids, Fan(u) PROVE Len(subscriptions'[v]) <= QueueLimit + 1
  <2>1. u \in DOMAIN subscriptions /\ fanned # << >> /\ fanned \in Seq(Events)
    BY <1>7 DEF Fan, Inv, IteratorsValid, LoopInv, TypeOK
  <2>2. subscriptions[u] \in Seq(Events)
    BY <2>1 DEF Inv, TypeOK
  <2>3. CASE Abandoned(u)
    BY <2>3, <1>7 DEF Fan, Restrict
  <2>4. CASE ~ Abandoned(u)
    <3>1. Len(Append(subscriptions[u], Last(fanned))) = Len(subscriptions[u]) + 1
      BY <2>2
    <3>2. Len(subscriptions[u]) <= QueueLimit /\ Len(subscriptions[u]) \in Nat
      BY <2>2, <2>4 DEF Abandoned
    <3> QED BY <3>1, <3>2, <2>1, <2>4, <1>7 DEF Fan
  <2> QED BY <2>3, <2>4
<1>8. CASE UNCHANGED vars
  BY <1>8 DEF vars
<1> QED BY <1>1, <1>2, <1>3, <1>4, <1>5, <1>6, <1>7, <1>8, Cases DEF Aside

\* A subscription never holds more than one event over the limit: the client
\* that stops polling costs bounded memory.
THEOREM Bounded == Spec => []QueueBounded
<1>1. Init => QueueBounded
  BY DEF Init, QueueBounded
<1>2. Inv /\ QueueBounded /\ [Next]_vars => QueueBounded'
  BY BoundStep
<1> QED BY <1>1, <1>2, Invariance, PTL DEF Spec

-----------------------------------------------------------------------------
\* Ids in use are known, so a new one differs from the one a worker holds.
GoneInv ==
    /\ \A w \in Workers : uuid[w] \in used \union {NoUuid}
    /\ \A w \in Workers : answer[w] = "gone" => pc[w] = "reply"
    /\ \A w \in Workers : pc[w] = "test" /\ it[w] = End => uuid[w] \notin DOMAIN subscriptions
    /\ GoneIsFinal

LEMMA GoneStep ==
    ASSUME Inv, GoneInv, [Next]_vars
    PROVE  GoneInv'
<1> USE ConstantsAssumption DEF GoneInv, GoneIsFinal
<1>0. /\ pc \in [Workers -> Places] /\ method \in [Workers -> Methods]
      /\ uuid \in [Workers -> Uuids \union {NoUuid}] /\ it \in [Workers -> Uuids \union {End}]
      /\ answer \in [Workers -> Answers] /\ DOMAIN subscriptions \subseteq used
      /\ used \subseteq Uuids
  BY DEF Inv, TypeOK
<1>1. ASSUME NEW w \in Workers, Request(w) PROVE GoneInv'
  BY <1>0, <1>1 DEF Request
<1>2. ASSUME NEW w \in Workers, Lock(w) PROVE GoneInv'
  <2>1. AfterLock(w) \in {"insert", "erase", "search"}
    BY <1>0 DEF AfterLock, Methods
  <2> QED BY <1>0, <1>2, <2>1 DEF Lock
<1>3. ASSUME NEW w \in Workers, Insert(w) PROVE GoneInv'
  <2>1. \A x \in Workers \ {w} : pc[x] # "test"
    BY <1>3 DEF Insert, Inv, MutualExclusion, Holding
  <2> QED BY <1>0, <1>3, <2>1 DEF Insert, ReplyWith
<1>4. ASSUME NEW w \in Workers, Erase(w) PROVE GoneInv'
  BY <1>0, <1>4 DEF Erase, ReplyWith, Restrict
<1>5. ASSUME NEW w \in Workers, Search(w) PROVE GoneInv'
  BY <1>0, <1>5 DEF Search
<1>6. ASSUME NEW w \in Workers, Sleep(w) PROVE GoneInv'
  BY <1>0, <1>6 DEF Sleep
<1>7. ASSUME NEW w \in Workers, Pop(w) PROVE GoneInv'
  BY <1>0, <1>7 DEF Pop, ReplyWith
<1>8. ASSUME NEW w \in Workers, Gone(w) PROVE GoneInv'
  BY <1>0, <1>8 DEF Gone, ReplyWith
<1>9. ASSUME NEW w \in Workers, Reply(w) PROVE GoneInv'
  BY <1>0, <1>9 DEF Reply
<1>10. CASE Fetch \/ FanUnlock
  BY <1>0, <1>10, MainFrame DEF workerVars
<1>11. CASE FanLock
  BY <1>0, <1>11 DEF FanLock, workerVars
<1>12. ASSUME NEW u \in Uuids, Fan(u) PROVE GoneInv'
  BY <1>0, <1>12 DEF Fan, workerVars, Restrict
<1>13. CASE UNCHANGED vars
  BY <1>13 DEF vars, workerVars
<1> QED BY <1>1, <1>2, <1>3, <1>4, <1>5, <1>6, <1>7, <1>8, <1>9, <1>10, <1>11, <1>12,
           <1>13, Cases

\* A client that was told its subscription does not exist was told the truth,
\* and nothing makes the subscription exist later.
THEOREM GoneForever == Spec => []GoneIsFinal
<1>1. Init => GoneInv
  BY DEF Init, GoneInv, GoneIsFinal
<1>2. Inv /\ GoneInv /\ [Next]_vars => GoneInv'
  BY GoneStep
<1>3. GoneInv => GoneIsFinal
  BY DEF GoneInv
<1> QED BY <1>1, <1>2, <1>3, Invariance, PTL DEF Spec

-----------------------------------------------------------------------------
\* The gateway by itself only drops abandoned subscriptions.
THEOREM DropsOnlyAbandoned == Spec => OnlyAbandonedDropped
<1> DEFINE P == \A u \in DOMAIN subscriptions \ DOMAIN subscriptions' :
            \/ Len(subscriptions[u]) > QueueLimit
            \/ \E w \in Workers : mutex = w /\ method[w] = "unsubscribe" /\ uuid[w] = u
<1>1. Inv /\ [Next]_vars => [P]_vars
  <2> SUFFICES ASSUME Inv, [Next]_vars, NEW u \in DOMAIN subscriptions \ DOMAIN subscriptions',
                      vars' # vars
               PROVE  \/ Len(subscriptions[u]) > QueueLimit
                      \/ \E w \in Workers : mutex = w /\ method[w] = "unsubscribe" /\ uuid[w] = u
    OBVIOUS
  <2>1. ASSUME NEW w \in Workers, Aside(w) PROVE FALSE
    BY <2>1, AsideFrame
  <2>2. ASSUME NEW w \in Workers, Insert(w) PROVE FALSE
    BY <2>2 DEF Insert
  <2>3. ASSUME NEW w \in Workers, Erase(w)
        PROVE  mutex = w /\ method[w] = "unsubscribe" /\ uuid[w] = u
    <3>1. mutex = w
      BY <2>3 DEF Erase, Inv, MutualExclusion, Holding
    <3>2. uuid[w] = u
      BY <2>3 DEF Erase, Restrict
    <3> QED BY <3>1, <3>2, <2>3 DEF Erase, Inv, LoopInv
  <2>4. ASSUME NEW w \in Workers, Pop(w) PROVE FALSE
    BY <2>4 DEF Pop
  <2>5. CASE Fetch \/ FanUnlock
    BY <2>5, MainFrame
  <2>6. CASE FanLock
    BY <2>6 DEF FanLock
  <2>7. ASSUME NEW v \in Uuids, Fan(v) PROVE Len(subscriptions[u]) > QueueLimit
    BY <2>7 DEF Fan, Abandoned, Restrict
  <2>8. CASE UNCHANGED vars
    BY <2>8
  <2> QED BY <2>1, <2>2, <2>3, <2>4, <2>5, <2>6, <2>7, <2>8, Cases DEF Aside
<1> QED BY <1>1, Invariance, PTL DEF OnlyAbandonedDropped, Spec

-----------------------------------------------------------------------------
\* The k-th event fanned out is k, so a slice of what was fanned out is a run of
\* numbers.
Counts(s, n) == \A k \in 1 .. Len(s) : s[k] = n + k

\* The number of events fanned out that have reached subscription u.
Reached(u) == Len(fanned) - (IF u \in todo THEN 1 ELSE 0)

\* What was taken from a subscription goes on from where it was made, what
\* waits goes on from there, and together they end with the last event that
\* has reached it.  From an id not yet handed out nothing was taken.
SliceInv ==
    /\ Counts(fanned, 0)
    /\ \A u \in Uuids \ used : taken[u] = << >>
    /\ \A u \in DOMAIN subscriptions :
          /\ base[u] + Len(taken[u]) + Len(subscriptions[u]) = Reached(u)
          /\ Counts(taken[u], base[u])
          /\ Counts(subscriptions[u], base[u] + Len(taken[u]))

LEMMA CountsEmpty == ASSUME NEW n PROVE Counts(<< >>, n)
BY DEF Counts

LEMMA CountsAppend ==
    ASSUME NEW s \in Seq(Events), NEW n \in Nat, Counts(s, n), NEW e \in Events,
           e = n + Len(s) + 1
    PROVE  Counts(Append(s, e), n) /\ Len(Append(s, e)) = Len(s) + 1
<1>1. /\ Len(s) \in Nat
      /\ Len(Append(s, e)) = Len(s) + 1
      /\ \A k \in 1 .. Len(s) : Append(s, e)[k] = s[k]
      /\ Append(s, e)[Len(s) + 1] = e
  BY AppendProperties, LenProperties
<1>2. \A k \in 1 .. Len(s) + 1 : Append(s, e)[k] = n + k
  BY <1>1 DEF Counts
<1> QED BY <1>1, <1>2 DEF Counts

LEMMA CountsTail ==
    ASSUME NEW s \in Seq(Events), NEW n \in Nat, Counts(s, n), s # << >>
    PROVE  /\ Head(s) = n + 1 /\ Head(s) \in Events
           /\ Counts(Tail(s), n + 1) /\ Len(Tail(s)) = Len(s) - 1
<1>1. /\ Tail(s) \in Seq(Events) /\ Len(Tail(s)) = Len(s) - 1
      /\ Head(s) \in Events
      /\ \A k \in 1 .. Len(Tail(s)) : Tail(s)[k] = s[k + 1]
  BY HeadTailProperties
<1>2. Len(s) \in Nat \ {0} /\ Head(s) = s[1]
  BY EmptySeq
<1>3. \A k \in 1 .. Len(Tail(s)) : Tail(s)[k] = n + 1 + k
  BY <1>1, <1>2 DEF Counts
<1> QED BY <1>1, <1>2, <1>3 DEF Counts

\* The types that the steps below need of one subscription.
LEMMA SliceTypes ==
    ASSUME Inv, NEW u \in DOMAIN subscriptions
    PROVE  /\ subscriptions[u] \in Seq(Events) /\ Len(subscriptions[u]) \in Nat
           /\ taken[u] \in Seq(Events) /\ Len(taken[u]) \in Nat
           /\ base[u] \in Nat /\ u \in used /\ u \in Uuids
           /\ fanned \in Seq(Events) /\ Len(fanned) \in Nat
<1>1. /\ subscriptions[u] \in Seq(Events) /\ taken[u] \in Seq(Events)
      /\ base[u] \in Nat /\ u \in used /\ u \in Uuids /\ fanned \in Seq(Events)
  BY DEF Inv, TypeOK
<1> QED BY <1>1, LenProperties

LEMMA SliceStep == ASSUME Inv, SliceInv, [Next]_vars PROVE SliceInv'
<1>1. ASSUME NEW w \in Workers, Aside(w) PROVE SliceInv'
  BY <1>1, AsideFrame DEF SliceInv, Reached
<1>2. ASSUME NEW w \in Workers, Insert(w) PROVE SliceInv'
  <2>1. PICK u \in Uuids \ used :
            /\ used' = used \union {u}
            /\ subscriptions' = [v \in DOMAIN subscriptions \union {u} |->
                                    IF v = u THEN << >> ELSE subscriptions[v]]
            /\ base' = [base EXCEPT ![u] = Len(fanned)]
    BY <1>2 DEF Insert
  <2>2. UNCHANGED <<fanned, taken, todo>> /\ todo = {}
    BY <1>2, NoFanInside DEF Insert, Holding
  <2>3. u \notin DOMAIN subscriptions
    BY <2>1 DEF Inv, TypeOK
  <2>4. \A v \in DOMAIN subscriptions : subscriptions'[v] = subscriptions[v] /\ base'[v] = base[v]
    BY <2>1, <2>3 DEF Inv, TypeOK
  <2>5. subscriptions'[u] = << >> /\ base'[u] = Len(fanned) /\ taken[u] = << >>
    BY <2>1 DEF SliceInv, Inv, TypeOK
  <2>6. /\ base'[u] + Len(taken'[u]) + Len(subscriptions'[u]) = Reached(u)'
        /\ Counts(taken'[u], base'[u]) /\ Counts(subscriptions'[u], base'[u] + Len(taken'[u]))
    <3>1. Len(fanned) \in Nat
      BY LenProperties DEF Inv, TypeOK
    <3> QED BY <2>2, <2>5, <3>1, EmptyIn, CountsEmpty DEF Reached
  <2> QED BY <2>1, <2>2, <2>4, <2>6 DEF SliceInv, Reached
<1>3. ASSUME NEW w \in Workers, Erase(w) PROVE SliceInv'
  BY <1>3 DEF Erase, Restrict, historyVars, SliceInv, Reached
<1>4. ASSUME NEW w \in Workers, Pop(w) PROVE SliceInv'
  <2>0. PICK u : u = it[w]
    OBVIOUS
  <2>1. /\ subscriptions' = [subscriptions EXCEPT ![u] = Tail(@)]
        /\ taken' = [taken EXCEPT ![u] = Append(@, Head(subscriptions[u]))]
        /\ UNCHANGED <<used, todo, fanned, base>>
        /\ subscriptions[u] # << >>
    BY <1>4, <2>0 DEF Pop
  <2>2. u \in DOMAIN subscriptions
    BY <1>4, <2>0 DEF Pop, Inv, IteratorsValid
  <2>3. /\ DOMAIN subscriptions' = DOMAIN subscriptions
        /\ subscriptions'[u] = Tail(subscriptions[u])
        /\ taken'[u] = Append(taken[u], Head(subscriptions[u]))
        /\ \A v \in DOMAIN subscriptions \ {u} : subscriptions'[v] = subscriptions[v]
        /\ \A v \in Uuids \ {u} : taken'[v] = taken[v]
    BY <2>1, <2>2 DEF Inv, TypeOK
  <2>4. /\ base[u] + Len(taken[u]) + Len(subscriptions[u]) = Reached(u)
        /\ Counts(taken[u], base[u])
        /\ Counts(subscriptions[u], base[u] + Len(taken[u]))
    BY <2>2 DEF SliceInv
  <2>5. /\ Head(subscriptions[u]) = base[u] + Len(taken[u]) + 1
        /\ Head(subscriptions[u]) \in Events
        /\ Counts(Tail(subscriptions[u]), base[u] + Len(taken[u]) + 1)
        /\ Len(Tail(subscriptions[u])) = Len(subscriptions[u]) - 1
    BY <2>1, <2>2, <2>4, SliceTypes, CountsTail
  <2>6. Counts(taken'[u], base[u]) /\ Len(taken'[u]) = Len(taken[u]) + 1
    BY <2>2, <2>3, <2>4, <2>5, SliceTypes, CountsAppend
  <2>7. /\ base'[u] + Len(taken'[u]) + Len(subscriptions'[u]) = Reached(u)'
        /\ Counts(taken'[u], base'[u])
        /\ Counts(subscriptions'[u], base'[u] + Len(taken'[u]))
    <3>1. base[u] + Len(taken'[u]) = base[u] + Len(taken[u]) + 1
      BY <2>2, <2>6, SliceTypes
    <3>2. base[u] + Len(taken'[u]) + Len(subscriptions'[u]) = Reached(u)
      <4>1. base[u] \in Nat /\ Len(taken[u]) \in Nat /\ Len(subscriptions[u]) \in Nat
        BY <2>2, SliceTypes
      <4>2. Len(subscriptions'[u]) = Len(subscriptions[u]) - 1
        BY <2>3, <2>5
      <4>3. Len(taken'[u]) = Len(taken[u]) + 1
        BY <2>6
      <4>4. base[u] + Len(taken'[u]) + Len(subscriptions'[u])
              = base[u] + Len(taken[u]) + Len(subscriptions[u])
        BY <4>1, <4>2, <4>3
      <4> QED BY <2>4, <4>4
    <3>3. Reached(u)' = Reached(u) /\ base'[u] = base[u]
      BY <2>1 DEF Reached
    <3> QED BY <2>3, <2>5, <2>6, <3>1, <3>2, <3>3
  <2>8. u \in used /\ DOMAIN subscriptions \subseteq Uuids
    BY <2>2 DEF Inv, TypeOK
  <2>9. Counts(fanned', 0) /\ \A v \in Uuids \ used' : taken'[v] = << >>
    BY <2>1, <2>3, <2>8 DEF SliceInv
  <2>10. ASSUME NEW v \in DOMAIN subscriptions \ {u}
         PROVE  /\ base'[v] + Len(taken'[v]) + Len(subscriptions'[v]) = Reached(v)'
                /\ Counts(taken'[v], base'[v])
                /\ Counts(subscriptions'[v], base'[v] + Len(taken'[v]))
    <3>1. subscriptions'[v] = subscriptions[v] /\ taken'[v] = taken[v] /\ base'[v] = base[v]
      BY <2>1, <2>3, <2>8
    <3>2. Reached(v)' = Reached(v)
      BY <2>1 DEF Reached
    <3> QED BY <3>1, <3>2 DEF SliceInv
  <2> QED BY <2>3, <2>7, <2>9, <2>10 DEF SliceInv
<1>5. CASE Fetch \/ FanUnlock
  BY <1>5, MainFrame DEF SliceInv, Reached
<1>6. CASE FanLock
  <2>1. /\ todo = {} /\ todo' = DOMAIN subscriptions
        /\ fanned' = Append(fanned, Len(fanned) + 1)
        /\ UNCHANGED <<subscriptions, used, base, taken>>
    BY <1>6 DEF FanLock, Inv, LoopInv, historyVars
  <2>2. fanned \in Seq(Events) /\ Len(fanned) \in Nat /\ Len(fanned) + 1 \in Events
    BY <1>6, ConstantsAssumption, LenProperties DEF FanLock, Inv, LoopInv, TypeOK, Events
  <2>3. Counts(fanned', 0) /\ Len(fanned') = Len(fanned) + 1
    <3>1. Len(fanned) + 1 = 0 + Len(fanned) + 1
      BY <2>2
    <3> QED BY <2>1, <2>2, <3>1, CountsAppend DEF SliceInv
  <2>4. \A u \in DOMAIN subscriptions : Reached(u)' = Reached(u)
    BY <2>1, <2>2, <2>3 DEF Reached
  <2> QED BY <2>1, <2>3, <2>4 DEF SliceInv
<1>7. ASSUME NEW u \in Uuids, Fan(u) PROVE SliceInv'
  <2>1. /\ u \in DOMAIN subscriptions /\ u \in todo /\ todo' = todo \ {u}
        /\ UNCHANGED <<used, fanned, base, taken>> /\ fanned # << >>
    BY <1>7 DEF Fan, Inv, IteratorsValid, LoopInv, historyVars
  <2>2. \A v \in DOMAIN subscriptions \ {u} : Reached(v)' = Reached(v)
    BY <2>1 DEF Reached
  <2>3. CASE Abandoned(u)
    BY <2>1, <2>2, <2>3, <1>7 DEF Fan, Restrict, SliceInv
  <2>4. CASE ~ Abandoned(u)
    <3>1. subscriptions' = [subscriptions EXCEPT ![u] = Append(@, Last(fanned))]
      BY <2>4, <1>7 DEF Fan
    <3>2. Len(fanned) \in Nat \ {0} /\ fanned[Len(fanned)] = Len(fanned) /\ Len(fanned) \in Events
      <4>1. fanned \in Seq(Events) /\ Len(fanned) \in Nat \ {0}
        BY <2>1, EmptySeq DEF Inv, TypeOK
      <4>2. fanned[Len(fanned)] = 0 + Len(fanned)
        BY <4>1 DEF SliceInv, Counts
      <4>3. fanned[Len(fanned)] \in Events
        BY <4>1, ElementOfSeq
      <4> QED BY <4>1, <4>2, <4>3
    <3>3. Last(fanned) = Len(fanned) /\ Last(fanned) \in Events
      BY <3>2 DEF Last
    <3>4. /\ base[u] + Len(taken[u]) + Len(subscriptions[u]) = Len(fanned) - 1
          /\ Counts(taken[u], base[u])
          /\ Counts(subscriptions[u], base[u] + Len(taken[u]))
      BY <2>1 DEF SliceInv, Reached
    <3>5. /\ Counts(subscriptions'[u], base[u] + Len(taken[u]))
          /\ Len(subscriptions'[u]) = Len(subscriptions[u]) + 1
      <4>1. /\ subscriptions'[u] = Append(subscriptions[u], Last(fanned))
            /\ base[u] + Len(taken[u]) \in Nat
            /\ Last(fanned) = base[u] + Len(taken[u]) + Len(subscriptions[u]) + 1
        BY <2>1, <3>1, <3>2, <3>3, <3>4, SliceTypes
      <4> QED BY <2>1, <3>3, <3>4, <4>1, SliceTypes, CountsAppend
    <3>6. base[u] + Len(taken[u]) + Len(subscriptions'[u]) = Reached(u)'
      <4>1. base[u] \in Nat /\ Len(taken[u]) \in Nat /\ Len(subscriptions[u]) \in Nat
        BY <2>1, SliceTypes
      <4>2. Reached(u)' = Len(fanned)
        BY <2>1, <3>2 DEF Reached
      <4>3. Len(subscriptions'[u]) = Len(subscriptions[u]) + 1
        BY <3>5
      <4>4. base[u] + Len(taken[u]) + Len(subscriptions[u]) + 1 = Len(fanned)
        BY <3>2, <3>4
      <4>5. base[u] + Len(taken[u]) + Len(subscriptions'[u]) = Len(fanned)
        BY <4>1, <4>3, <4>4
      <4> QED BY <4>2, <4>5
    <3>7. /\ DOMAIN subscriptions' = DOMAIN subscriptions
          /\ \A v \in DOMAIN subscriptions \ {u} : subscriptions'[v] = subscriptions[v]
      BY <3>1
    <3> QED BY <2>1, <2>2, <3>4, <3>5, <3>6, <3>7 DEF SliceInv
  <2> QED BY <2>3, <2>4
<1>8. CASE UNCHANGED vars
  BY <1>8 DEF vars, historyVars, SliceInv, Reached
<1> QED BY <1>1, <1>2, <1>3, <1>4, <1>5, <1>6, <1>7, <1>8, Cases DEF Aside

\* Every event that is fanned out while a subscription is open reaches its
\* client once and in order, or still waits for it.
THEOREM EventsKept == Spec => []NothingLost
<1>1. Init => SliceInv
  BY EmptyIn, CountsEmpty DEF Init, SliceInv
<1>2. Inv /\ SliceInv /\ [Next]_vars => SliceInv'
  BY SliceStep
<1>3. Inv /\ SliceInv => NothingLost
  <2> SUFFICES ASSUME Inv, SliceInv, NEW u \in DOMAIN subscriptions
               PROVE  taken[u] \o subscriptions[u] = SubSeq(fanned, base[u] + 1, Reached(u))
    BY DEF NothingLost, Reached
  <2> DEFINE t == taken[u]
             s == subscriptions[u]
             b == base[u]
             r == Reached(u)
  <2>1. /\ t \in Seq(Events) /\ s \in Seq(Events) /\ fanned \in Seq(Events)
        /\ Len(t) \in Nat /\ Len(s) \in Nat /\ b \in Nat /\ Len(fanned) \in Nat
    BY SliceTypes
  <2>2. b + Len(t) + Len(s) = r /\ Counts(t, b) /\ Counts(s, b + Len(t)) /\ Counts(fanned, 0)
    BY DEF SliceInv
  <2>3. r <= Len(fanned)
    BY <2>1 DEF Reached
  <2> HIDE DEF t, s, b, r
  <2>4. /\ t \o s \in Seq(Events) /\ Len(t \o s) = Len(t) + Len(s)
        /\ \A k \in 1 .. Len(t) + Len(s) :
              (t \o s)[k] = IF k <= Len(t) THEN t[k] ELSE s[k - Len(t)]
    BY <2>1, ConcatProperties
  <2>5. \A k \in 1 .. Len(t) + Len(s) : (t \o s)[k] = b + k
    <3> SUFFICES ASSUME NEW k \in 1 .. Len(t) + Len(s) PROVE (t \o s)[k] = b + k
      OBVIOUS
    <3>1. CASE k <= Len(t)
      BY <2>1, <2>2, <2>4, <3>1 DEF Counts
    <3>2. CASE ~ (k <= Len(t))
      <4>1. k - Len(t) \in 1 .. Len(s)
        BY <2>1, <3>2
      <4>2. s[k - Len(t)] = b + Len(t) + (k - Len(t))
        BY <2>2, <4>1 DEF Counts
      <4> QED BY <2>1, <2>4, <3>2, <4>2
    <3> QED BY <3>1, <3>2
  <2>6. \A i \in b + 1 .. r : fanned[i] = i /\ fanned[i] \in Events
    <3> SUFFICES ASSUME NEW i \in b + 1 .. r PROVE fanned[i] = i /\ fanned[i] \in Events
      OBVIOUS
    <3>1. i \in 1 .. Len(fanned)
      BY <2>1, <2>2, <2>3
    <3> QED BY <2>1, <2>2, <3>1, ElementOfSeq DEF Counts
  <2>7. b + 1 \in Int /\ r \in Int /\ r - (b + 1) + 1 = Len(t) + Len(s)
    BY <2>1, <2>2
  <2>8. /\ SubSeq(fanned, b + 1, r) \in Seq(Events)
        /\ Len(SubSeq(fanned, b + 1, r)) = IF b + 1 <= r THEN r - (b + 1) + 1 ELSE 0
        /\ \A k \in 1 .. r - (b + 1) + 1 : SubSeq(fanned, b + 1, r)[k] = fanned[b + 1 + k - 1]
    BY <2>6, <2>7, SubSeqProperties
  <2>9. Len(SubSeq(fanned, b + 1, r)) = Len(t) + Len(s)
    BY <2>1, <2>2, <2>8
  <2>10. \A k \in 1 .. Len(t) + Len(s) : SubSeq(fanned, b + 1, r)[k] = b + k
    <3> SUFFICES ASSUME NEW k \in 1 .. Len(t) + Len(s)
                 PROVE  SubSeq(fanned, b + 1, r)[k] = b + k
      OBVIOUS
    <3>1. b + 1 + k - 1 = b + k /\ b + k \in b + 1 .. r
      BY <2>1, <2>2
    <3> QED BY <2>6, <2>7, <2>8, <3>1
  <2>11. t \o s = SubSeq(fanned, b + 1, r)
    <3>1. \A k \in 1 .. Len(t \o s) : (t \o s)[k] = SubSeq(fanned, b + 1, r)[k]
      BY <2>4, <2>5, <2>10
    <3>2. Len(t \o s) = Len(SubSeq(fanned, b + 1, r))
      BY <2>4, <2>9
    <3>3. t \o s \in Seq(Events) /\ SubSeq(fanned, b + 1, r) \in Seq(Events)
      BY <2>4, <2>8
    <3> QED BY <3>1, <3>2, <3>3, SeqEqual
  <2> QED BY <2>11 DEF t, s, b, r
<1> QED BY <1>1, <1>2, <1>3, Invariance, PTL DEF Spec

-----------------------------------------------------------------------------
\* Refinement.  Outside a fan-out the view is the map itself.
LEMMA ViewPlain ==
    ASSUME Inv, todo = {}
    PROVE  FeedView = subscriptions
BY DEF Inv, TypeOK, FeedView, PendingAbandoned

LEMMA ViewPlainNext ==
    ASSUME Inv', todo' = {}
    PROVE  FeedView' = subscriptions'
BY DEF Inv, TypeOK, FeedView, PendingAbandoned

LEMMA ViewFrame ==
    ASSUME UNCHANGED <<subscriptions, todo, fanned>>
    PROVE  FeedView' = FeedView
BY DEF FeedView, PendingAbandoned, Abandoned

LEMMA LenNat ==
    ASSUME Inv, NEW u \in DOMAIN subscriptions
    PROVE  Len(subscriptions[u]) \in Nat
<1>1. subscriptions[u] \in Seq(Events)
  BY DEF Inv, TypeOK
<1> QED BY <1>1

LEMMA InitFeed == Init => Feed!Init
BY DEF Init, Feed!Init, FeedView, PendingAbandoned

LEMMA StepFeed ==
    ASSUME Inv, Inv', [Next]_vars
    PROVE  [Feed!Next]_Feed!vars
<1> USE DEF Feed!vars
<1>1. ASSUME NEW w \in Workers, Aside(w) PROVE UNCHANGED Feed!vars
  BY <1>1, AsideFrame, ViewFrame
<1>2. ASSUME NEW w \in Workers, Insert(w) PROVE Feed!Next
  <2>1. todo = {} /\ todo' = {}
    BY <1>2, NoFanInside DEF Insert, Holding
  <2>2. FeedView = subscriptions /\ FeedView' = subscriptions'
    BY <2>1, ViewPlain, ViewPlainNext
  <2>3. PICK u \in Uuids \ used :
            /\ used' = used \union {u}
            /\ subscriptions' = [v \in DOMAIN subscriptions \union {u} |->
                                    IF v = u THEN << >> ELSE subscriptions[v]]
    BY <1>2 DEF Insert
  <2>4. Feed!Open(u)
    BY <2>2, <2>3 DEF Feed!Open
  <2> QED BY <2>4 DEF Feed!Next
<1>3. ASSUME NEW w \in Workers, Erase(w) PROVE Feed!Next \/ UNCHANGED Feed!vars
  <2>1. todo = {} /\ todo' = {}
    BY <1>3, NoFanInside DEF Erase, Holding
  <2>2. FeedView = subscriptions /\ FeedView' = subscriptions'
    BY <2>1, ViewPlain, ViewPlainNext
  <2>3. CASE uuid[w] \in Uuids
    <3>1. Feed!Close(uuid[w])
      BY <1>3, <2>2 DEF Erase, Feed!Close, Restrict, Feed!Restrict
    <3> QED BY <2>3, <3>1 DEF Feed!Next
  <2>4. CASE uuid[w] \notin Uuids
    <3>1. DOMAIN subscriptions \ {uuid[w]} = DOMAIN subscriptions
      <4>1. DOMAIN subscriptions \subseteq Uuids
        BY DEF Inv, TypeOK
      <4> QED BY <4>1, <2>4
    <3>2. Restrict(subscriptions, DOMAIN subscriptions) = subscriptions
      BY DEF Inv, TypeOK, Restrict
    <3> QED BY <1>3, <2>2, <3>1, <3>2 DEF Erase
  <2> QED BY <2>3, <2>4
<1>4. ASSUME NEW w \in Workers, Pop(w) PROVE Feed!Next
  <2>1. todo = {} /\ todo' = {}
    BY <1>4, NoFanInside DEF Pop, Holding
  <2>2. FeedView = subscriptions /\ FeedView' = subscriptions'
    BY <2>1, ViewPlain, ViewPlainNext
  <2>3. it[w] \in DOMAIN subscriptions /\ it[w] \in Uuids
    BY <1>4 DEF Pop, Inv, TypeOK, IteratorsValid
  <2>4. Feed!Take(it[w])
    BY <1>4, <2>2, <2>3 DEF Pop, Feed!Take
  <2> QED BY <2>3, <2>4 DEF Feed!Next
<1>5. CASE Fetch \/ FanUnlock
  BY <1>5, MainFrame, ViewFrame
<1>6. CASE FanLock
  <2> DEFINE e == Len(fanned) + 1
  <2>1. todo = {} /\ todo' = DOMAIN subscriptions /\ UNCHANGED <<subscriptions, used>>
    BY <1>6 DEF FanLock, Inv, LoopInv
  <2>2. e \in Events
    BY <1>6, ConstantsAssumption DEF FanLock, Inv, LoopInv, TypeOK, Events
  <2>3. Last(fanned') = e
    BY <1>6, <2>2 DEF FanLock, Inv, TypeOK, Last
  <2>4. FeedView = subscriptions
    BY <2>1, ViewPlain
  <2>5. FeedView' = Feed!Appended(subscriptions, e)
    <3>1. FeedView' = [u \in DOMAIN subscriptions \ {v \in DOMAIN subscriptions : Abandoned(v)} |->
                          Append(subscriptions[u], e)]
      BY <2>1, <2>3 DEF FeedView, PendingAbandoned, Abandoned
    <3>2. DOMAIN subscriptions \ {v \in DOMAIN subscriptions : Abandoned(v)}
             = {v \in DOMAIN subscriptions : Len(subscriptions[v]) <= QueueLimit}
      BY LenNat, ConstantsAssumption DEF Abandoned
    <3> QED BY <3>1, <3>2 DEF Feed!Appended
  <2>6. Feed!Publish(e)
    BY <2>1, <2>4, <2>5 DEF Feed!Publish
  <2> QED BY <2>2, <2>6 DEF Feed!Next
<1>7. ASSUME NEW u \in Uuids, Fan(u) PROVE UNCHANGED Feed!vars
  <2>1. u \in DOMAIN subscriptions /\ u \in todo /\ todo' = todo \ {u}
    BY <1>7 DEF Fan, Inv, IteratorsValid
  <2>2. UNCHANGED <<fanned, used>>
    BY <1>7 DEF Fan
  <2>3. CASE Abandoned(u)
    <3>1. subscriptions' = [v \in DOMAIN subscriptions \ {u} |-> subscriptions[v]]
      BY <2>3, <1>7 DEF Fan, Restrict
    <3>2. DOMAIN subscriptions' \ PendingAbandoned' = DOMAIN subscriptions \ PendingAbandoned
      BY <2>1, <2>3, <3>1 DEF PendingAbandoned, Abandoned, Inv, IteratorsValid
    <3>3. \A v \in DOMAIN subscriptions \ PendingAbandoned : v # u
      BY <2>1, <2>3 DEF PendingAbandoned
    <3> QED BY <2>1, <2>2, <3>1, <3>2, <3>3 DEF FeedView
  <2>4. CASE ~ Abandoned(u)
    <3>1. subscriptions' = [subscriptions EXCEPT ![u] = Append(@, Last(fanned))]
      BY <2>4, <1>7 DEF Fan
    <3>2. DOMAIN subscriptions' = DOMAIN subscriptions
      BY <3>1
    <3>3. \A v \in DOMAIN subscriptions : v # u => subscriptions'[v] = subscriptions[v]
      BY <3>1
    <3>4. PendingAbandoned' = PendingAbandoned
      BY <2>1, <2>4, <3>3 DEF PendingAbandoned, Abandoned, Inv, IteratorsValid
    <3>5. \A v \in DOMAIN subscriptions :
             (IF v \in todo' THEN Append(subscriptions'[v], Last(fanned')) ELSE subscriptions'[v])
               = (IF v \in todo THEN Append(subscriptions[v], Last(fanned)) ELSE subscriptions[v])
      BY <2>1, <2>2, <3>1, <3>3
    <3> QED BY <2>2, <3>2, <3>4, <3>5 DEF FeedView
  <2> QED BY <2>3, <2>4
<1>8. CASE UNCHANGED vars
  BY <1>8, ViewFrame DEF vars
<1> QED BY <1>1, <1>2, <1>3, <1>4, <1>5, <1>6, <1>7, <1>8, Cases DEF Aside

\* The threads, the mutex and the polling implement the feeds of EventFeed:
\* to a client a fan-out happens at one moment, between two takes.
THEOREM Refinement == Spec => ImplementsEventFeed
<1>1. Init => Feed!Init
  BY InitFeed
<1>2. Inv /\ Inv' /\ [Next]_vars => [Feed!Next]_Feed!vars
  BY StepFeed
<1> QED BY <1>1, <1>2, Invariance, PTL DEF Spec, ImplementsEventFeed, Feed!Spec
=============================================================================

-------------------------- MODULE RpcSubscriptions --------------------------
(***************************************************************************)
(* The event subscriptions of the JSON-RPC gateway, agorpc.cpp.  The web   *)
(* server's worker threads serve subscribe, unsubscribe and getevent; the  *)
(* main loop fans every bus event out to all subscriptions.  They share    *)
(* the map "subscriptions" under mutexSubscriptions.  A getevent on an     *)
(* empty queue drops the lock, sleeps 200 ms, and looks the id up again.   *)
(***************************************************************************)
EXTENDS Naturals, Sequences, FiniteSets, Functions, SequencesExt

CONSTANTS
    Workers,        \* the web server's threads, option num_threads
    Uuids,          \* the ids generateUuid() may return
    NoUuid,         \* a string in a request that never was a subscription
    MainLoop,       \* the thread of main()
    NoThread,       \* nobody holds the mutex
    End,            \* subscriptions.end()
    QueueLimit,     \* 100 in the code
    MaxEvents       \* bound of the model: events fanned out

ASSUME ConstantsAssumption ==
    /\ QueueLimit \in Nat
    /\ MaxEvents \in Nat
    /\ MainLoop \notin Workers
    /\ NoThread \notin Workers \union {MainLoop}
    /\ NoUuid \notin Uuids
    /\ End \notin Uuids

VARIABLES
    subscriptions,  \* id -> queue of events, the map of agorpc.cpp:71
    mutex,          \* the holder of mutexSubscriptions
    used,           \* ids handed out by subscribe
    pc, method, uuid, it,   \* per worker: place, request, its id, the iterator
    answer,         \* per worker: what it is about to write to the client
    loop, todo,     \* the main loop: place, subscriptions still to visit
    fanned,         \* history: the events fanned out, in order
    base, taken     \* history, per id: events fanned out before it was
                    \* subscribed, events getevent took from it

workerVars == <<pc, method, uuid, it, answer>>
historyVars == <<base, taken>>
vars == <<subscriptions, mutex, used, workerVars, loop, todo, fanned, historyVars>>

Events == 1..MaxEvents
Methods == {"subscribe", "unsubscribe", "getevent"}
Places == {"idle", "lock", "search", "test", "insert", "erase", "sleep", "reply"}
Holding == {"search", "test", "insert", "erase"}
Answers == {"none", "done", "event", "gone"}

TypeOK ==
    /\ used \subseteq Uuids
    /\ DOMAIN subscriptions \subseteq used
    /\ subscriptions \in [DOMAIN subscriptions -> Seq(Events)]
    /\ mutex \in Workers \union {MainLoop, NoThread}
    /\ pc \in [Workers -> Places]
    /\ method \in [Workers -> Methods]
    /\ uuid \in [Workers -> Uuids \union {NoUuid}]
    /\ it \in [Workers -> Uuids \union {End}]
    /\ answer \in [Workers -> Answers]
    /\ loop \in {"fetch", "lock", "fan"}
    /\ todo \subseteq Uuids
    /\ fanned \in Seq(Events)
    /\ base \in [Uuids -> Nat]
    /\ taken \in [Uuids -> Seq(Events)]

Init ==
    /\ subscriptions = << >>
    /\ mutex = NoThread
    /\ used = {}
    /\ pc = [w \in Workers |-> "idle"]
    /\ method = [w \in Workers |-> "getevent"]
    /\ uuid = [w \in Workers |-> NoUuid]
    /\ it = [w \in Workers |-> End]
    /\ answer = [w \in Workers |-> "none"]
    /\ loop = "fetch"
    /\ todo = {}
    /\ fanned = << >>
    /\ base = [u \in Uuids |-> 0]
    /\ taken = [u \in Uuids |-> << >>]

-----------------------------------------------------------------------------
(* The worker threads: jsonrpcRequestHandler().                            *)

\* Bound of the model: there are as many subscriptions as members of Uuids.
CanSubscribe ==
    Cardinality(used) + Cardinality({v \in Workers : pc[v] \in {"lock", "insert"}
                                            /\ method[v] = "subscribe"}) < Cardinality(Uuids)

\* The web server hands a request to an idle worker.  A client names an id
\* it was given, or something else.
Request(w) ==
    /\ pc[w] = "idle"
    /\ pc' = [pc EXCEPT ![w] = "lock"]
    /\ \E m \in Methods, u \in used \union {NoUuid} :
          /\ m = "subscribe" => u = NoUuid /\ CanSubscribe
          /\ method' = [method EXCEPT ![w] = m]
          /\ uuid' = [uuid EXCEPT ![w] = u]
    /\ UNCHANGED <<subscriptions, mutex, used, it, answer, loop, todo, fanned, historyVars>>

\* Wrong: a getevent that slept trusts the iterator it had.
AfterLockStale(w) ==
    CASE method[w] = "subscribe"   -> "insert"
      [] method[w] = "unsubscribe" -> "erase"
      [] method[w] = "getevent"    -> IF pc[w] = "sleep" THEN "test" ELSE "search"

\* Where a worker goes when it has the lock; a getevent that slept starts
\* over with the search (agorpc.cpp:338).
AfterLock(w) ==
    CASE method[w] = "subscribe"   -> "insert"
      [] method[w] = "unsubscribe" -> "erase"
      [] method[w] = "getevent"    -> "search"

Lock(w) ==
    /\ pc[w] \in {"lock", "sleep"}
    /\ mutex = NoThread
    /\ mutex' = w
    /\ pc' = [pc EXCEPT ![w] = AfterLock(w)]
    /\ UNCHANGED <<subscriptions, used, method, uuid, it, answer, loop, todo,
                   fanned, historyVars>>

\* Unlock and go on to write a reply.
ReplyWith(w, what) ==
    /\ mutex' = NoThread
    /\ pc' = [pc EXCEPT ![w] = "reply"]
    /\ answer' = [answer EXCEPT ![w] = what]

\* Wrong: ids are only distinct among the open subscriptions.
InsertReusedId(w) ==
    /\ pc[w] = "insert"
    /\ \E u \in Uuids \ DOMAIN subscriptions :
          /\ used' = used \union {u}
          /\ uuid' = [uuid EXCEPT ![w] = u]
          /\ subscriptions' = [v \in DOMAIN subscriptions \union {u} |->
                                  IF v = u THEN << >> ELSE subscriptions[v]]
          /\ base' = [base EXCEPT ![u] = Len(fanned)]
          /\ taken' = [taken EXCEPT ![u] = << >>]
    /\ ReplyWith(w, "done")
    /\ UNCHANGED <<method, it, loop, todo, fanned>>

\* The id is new: generateUuid() never repeats.
Insert(w) ==
    /\ pc[w] = "insert"
    /\ \E u \in Uuids \ used :
          /\ used' = used \union {u}
          /\ uuid' = [uuid EXCEPT ![w] = u]
          /\ subscriptions' = [v \in DOMAIN subscriptions \union {u} |->
                                  IF v = u THEN << >> ELSE subscriptions[v]]
          /\ base' = [base EXCEPT ![u] = Len(fanned)]
    /\ ReplyWith(w, "done")
    /\ UNCHANGED <<method, it, loop, todo, fanned, taken>>

\* Success is the answer whether or not the id was there.
Erase(w) ==
    /\ pc[w] = "erase"
    /\ subscriptions' = Restrict(subscriptions, DOMAIN subscriptions \ {uuid[w]})
    /\ ReplyWith(w, "done")
    /\ UNCHANGED <<used, method, uuid, it, loop, todo, fanned, historyVars>>

\* it = subscriptions.find(...)
Search(w) ==
    /\ pc[w] = "search"
    /\ it' = [it EXCEPT ![w] = IF uuid[w] \in DOMAIN subscriptions THEN uuid[w] ELSE End]
    /\ pc' = [pc EXCEPT ![w] = "test"]
    /\ UNCHANGED <<subscriptions, mutex, used, method, uuid, answer, loop, todo,
                   fanned, historyVars>>

\* Wrong: an off-by-one in the loop condition.
SleepOnOne(w) ==
    /\ pc[w] = "test"
    /\ it[w] # End
    /\ Len(subscriptions[it[w]]) <= 1
    /\ mutex' = NoThread
    /\ pc' = [pc EXCEPT ![w] = "sleep"]
    /\ UNCHANGED <<subscriptions, used, method, uuid, it, answer, loop, todo,
                   fanned, historyVars>>

\* The loop condition holds: unlock and sleep.
Sleep(w) ==
    /\ pc[w] = "test"
    /\ it[w] # End
    /\ subscriptions[it[w]] = << >>
    /\ mutex' = NoThread
    /\ pc' = [pc EXCEPT ![w] = "sleep"]
    /\ UNCHANGED <<subscriptions, used, method, uuid, it, answer, loop, todo,
                   fanned, historyVars>>

\* Wrong: pop_back() for pop_front().
PopNewest(w) ==
    /\ pc[w] = "test"
    /\ it[w] # End
    /\ subscriptions[it[w]] # << >>
    /\ subscriptions' = [subscriptions EXCEPT ![it[w]] = Front(@)]
    /\ taken' = [taken EXCEPT ![it[w]] = Append(@, Head(subscriptions[it[w]]))]
    /\ ReplyWith(w, "event")
    /\ UNCHANGED <<used, method, uuid, it, loop, todo, fanned, base>>

\* front() and pop_front().
Pop(w) ==
    /\ pc[w] = "test"
    /\ it[w] # End
    /\ subscriptions[it[w]] # << >>
    /\ subscriptions' = [subscriptions EXCEPT ![it[w]] = Tail(@)]
    /\ taken' = [taken EXCEPT ![it[w]] = Append(@, Head(subscriptions[it[w]]))]
    /\ ReplyWith(w, "event")
    /\ UNCHANGED <<used, method, uuid, it, loop, todo, fanned, base>>

\* Wrong: a missing subscription is polled like an empty one.
GonePolls(w) ==
    /\ pc[w] = "test"
    /\ it[w] = End
    /\ mutex' = NoThread
    /\ pc' = [pc EXCEPT ![w] = "sleep"]
    /\ UNCHANGED <<subscriptions, used, method, uuid, it, answer, loop, todo,
                   fanned, historyVars>>

\* Wrong: the error branch forgets to unlock.
GoneKeepsLock(w) ==
    /\ pc[w] = "test"
    /\ it[w] = End
    /\ pc' = [pc EXCEPT ![w] = "reply"]
    /\ answer' = [answer EXCEPT ![w] = "gone"]
    /\ UNCHANGED <<subscriptions, mutex, used, method, uuid, it, loop, todo,
                   fanned, historyVars>>

Gone(w) ==
    /\ pc[w] = "test"
    /\ it[w] = End
    /\ ReplyWith(w, "gone")
    /\ UNCHANGED <<subscriptions, used, method, uuid, it, loop, todo, fanned, historyVars>>

\* mg_printf() to the client, without the lock; the locals are gone.
Reply(w) ==
    /\ pc[w] = "reply"
    /\ pc' = [pc EXCEPT ![w] = "idle"]
    /\ answer' = [answer EXCEPT ![w] = "none"]
    /\ method' = [method EXCEPT ![w] = "getevent"]
    /\ uuid' = [uuid EXCEPT ![w] = NoUuid]
    /\ it' = [it EXCEPT ![w] = End]
    /\ UNCHANGED <<subscriptions, mutex, used, loop, todo, fanned, historyVars>>

-----------------------------------------------------------------------------
(* The main loop.                                                          *)

\* A message with a subject other than event.environment.timechanged and a
\* body that decodes; every other message leaves the loop where it was.
Fetch ==
    /\ loop = "fetch"
    /\ Len(fanned) < MaxEvents
    /\ loop' = "lock"
    /\ UNCHANGED <<subscriptions, mutex, used, workerVars, todo, fanned, historyVars>>

FanLock ==
    /\ loop = "lock"
    /\ mutex = NoThread
    /\ mutex' = MainLoop
    /\ loop' = "fan"
    /\ todo' = DOMAIN subscriptions
    /\ fanned' = Append(fanned, Len(fanned) + 1)
    /\ UNCHANGED <<subscriptions, used, workerVars, historyVars>>

\* Wrong: off by one, above and below.
AbandonedLate(u) == Len(subscriptions[u]) > QueueLimit + 1
AbandonedEarly(u) == Len(subscriptions[u]) >= QueueLimit

Abandoned(u) == Len(subscriptions[u]) > QueueLimit

\* Wrong: the event is dropped instead of the subscription.
FanDropsEvent(u) ==
    /\ loop = "fan"
    /\ u \in todo
    /\ todo' = todo \ {u}
    /\ subscriptions' = IF Abandoned(u) THEN subscriptions
                        ELSE [subscriptions EXCEPT ![u] = Append(@, Last(fanned))]
    /\ UNCHANGED <<mutex, used, workerVars, loop, fanned, historyVars>>

\* One round of the for loop: drop an abandoned subscription or append.
Fan(u) ==
    /\ loop = "fan"
    /\ u \in todo
    /\ todo' = todo \ {u}
    /\ subscriptions' =
          IF Abandoned(u) THEN Restrict(subscriptions, DOMAIN subscriptions \ {u})
          ELSE [subscriptions EXCEPT ![u] = Append(@, Last(fanned))]
    /\ UNCHANGED <<mutex, used, workerVars, loop, fanned, historyVars>>

FanUnlock ==
    /\ loop = "fan"
    /\ todo = {}
    /\ mutex' = NoThread
    /\ loop' = "fetch"
    /\ UNCHANGED <<subscriptions, used, workerVars, todo, fanned, historyVars>>

-----------------------------------------------------------------------------
Critical(w) == Insert(w) \/ Erase(w) \/ Search(w) \/ Sleep(w) \/ Pop(w) \/ Gone(w)

Next ==
    \/ \E w \in Workers : Request(w) \/ Lock(w) \/ Critical(w) \/ Reply(w)
    \/ Fetch \/ FanLock \/ FanUnlock
    \/ \E u \in Uuids : Fan(u)

Spec == Init /\ [][Next]_vars

\* Threads run.  A lock request is granted when the mutex is free again and
\* again: whoever contends for it sleeps 200 ms or waits for the network
\* between two critical sections.
Fairness ==
    /\ \A w \in Workers :
          SF_vars(Lock(w)) /\ WF_vars(Critical(w)) /\ WF_vars(Reply(w))
    /\ SF_vars(FanLock) /\ WF_vars(FanUnlock)
    /\ \A u \in Uuids : WF_vars(Fan(u))

FairSpec == Spec /\ Fairness

-----------------------------------------------------------------------------
(* Safety.                                                                 *)

\* Whoever is inside a critical section holds the mutex, so at most one
\* thread touches the map (agorpc.cpp:299-301, 313-319, 332-350, 504-516).
MutualExclusion ==
    /\ \A w \in Workers : pc[w] \in Holding <=> mutex = w
    /\ loop = "fan" <=> mutex = MainLoop

\* No thread dereferences an iterator whose element is gone, although the
\* lock was dropped while getevent slept and the main loop erases while it
\* iterates (agorpc.cpp:338-343, 505-514).
IteratorsValid ==
    /\ \A w \in Workers : pc[w] = "test" => it[w] \in DOMAIN subscriptions \union {End}
    /\ todo \subseteq DOMAIN subscriptions

\* A subscription never keeps more than one event over the limit
\* (agorpc.cpp:506).
QueueBounded ==
    \A u \in DOMAIN subscriptions : Len(subscriptions[u]) <= QueueLimit + 1

\* What getevent took from a subscription, followed by what still waits, is
\* exactly what was fanned out since it was made: nothing lost, duplicated
\* or out of order, whatever the threads do in between.
NothingLost ==
    \A u \in DOMAIN subscriptions :
        taken[u] \o subscriptions[u] =
            SubSeq(fanned, base[u] + 1, Len(fanned) - (IF u \in todo THEN 1 ELSE 0))

\* A client that is told "no current subscription" will never see that
\* subscription again: the id is not open later (agorpc.cpp:348-350).
GoneIsFinal ==
    \A w \in Workers : answer[w] = "gone" => uuid[w] \notin DOMAIN subscriptions

-----------------------------------------------------------------------------
(* Steps.                                                                  *)

\* The gateway drops a subscription on its own only when more than the limit
\* of events wait in it; otherwise only an unsubscribe of that id does
\* (agorpc.cpp:506-510, 317).
OnlyAbandonedDropped ==
    [][\A u \in DOMAIN subscriptions \ DOMAIN subscriptions' :
            \/ Len(subscriptions[u]) > QueueLimit
            \/ \E w \in Workers : mutex = w /\ method[w] = "unsubscribe" /\ uuid[w] = u]_vars

-----------------------------------------------------------------------------
(* Liveness.                                                               *)

\* A getevent whose subscription was removed while it slept comes back with
\* an error instead of sleeping for ever (agorpc.cpp:334-350).
OrphanReturns ==
    \A w \in Workers :
        (pc[w] = "sleep" /\ uuid[w] \notin DOMAIN subscriptions) ~> pc[w] = "idle"

\* An event that waits while a getevent of that subscription is in progress
\* does not stay there: it is taken, or the subscription is removed.
WaitingEventTaken ==
    \A w \in Workers, u \in Uuids :
        (pc[w] = "sleep" /\ uuid[w] = u /\ u \in DOMAIN subscriptions /\ subscriptions[u] # << >>)
            ~> (u \notin DOMAIN subscriptions \/ pc[w] = "idle" \/ subscriptions[u] = << >>)

\* The fan-out of an event the main loop has fetched always ends.
FanOutEnds == (loop = "lock") ~> (loop = "fetch")

-----------------------------------------------------------------------------
(* Refinement: the fan-out of an event appears to happen at once, when the *)
(* main loop takes the lock.                                               *)

PendingAbandoned == {u \in todo : Abandoned(u)}

FeedView ==
    [u \in DOMAIN subscriptions \ PendingAbandoned |->
        IF u \in todo THEN Append(subscriptions[u], Last(fanned)) ELSE subscriptions[u]]

Feed == INSTANCE EventFeed WITH feed <- FeedView

\* The threads, the lock and the polling loop implement the feeds that
\* EventFeed promises.
ImplementsEventFeed == Feed!Spec
=============================================================================

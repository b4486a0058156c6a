----------------------------- MODULE EventFeed -----------------------------
(***************************************************************************)
(* What the JSON-RPC gateway promises its browser clients, without         *)
(* threads, locks or polling: a feed is opened, every event published      *)
(* while it is open is appended to it, each event is taken at most once    *)
(* and in order, and the feed is closed by its owner or, when a publish    *)
(* finds more than QueueLimit events waiting, by the gateway.              *)
(* RpcSubscriptions.tla is shown to implement this module.                 *)
(***************************************************************************)
EXTENDS Naturals, Sequences, Functions

CONSTANTS
    Uuids,          \* the subscription ids generateUuid() may return
    Events,         \* the events of the bus
    QueueLimit      \* agorpc.cpp:506, 100 in the code

VARIABLES
    feed,           \* open feeds: id -> events waiting, oldest first
    used            \* the ids that were ever handed out

vars == <<feed, used>>

TypeOK ==
    /\ used \subseteq Uuids
    /\ DOMAIN feed \subseteq used
    /\ feed \in [DOMAIN feed -> Seq(Events)]

Init ==
    /\ feed = << >>
    /\ used = {}

\* The surviving feeds of a publish, each with the new event at its end.
Appended(f, e) ==
    [u \in {v \in DOMAIN f : Len(f[v]) <= QueueLimit} |-> Append(f[u], e)]

Open(u) ==
    /\ u \notin used
    /\ used' = used \union {u}
    /\ feed' = [v \in DOMAIN feed \union {u} |-> IF v = u THEN << >> ELSE feed[v]]

Close(u) ==
    /\ feed' = Restrict(feed, DOMAIN feed \ {u})
    /\ UNCHANGED used

Publish(e) ==
    /\ feed' = Appended(feed, e)
    /\ UNCHANGED used

Take(u) ==
    /\ u \in DOMAIN feed
    /\ feed[u] # << >>
    /\ feed' = [feed EXCEPT ![u] = Tail(@)]
    /\ UNCHANGED used

Next ==
    \/ \E u \in Uuids : Open(u) \/ Close(u) \/ Take(u)
    \/ \E e \in Events : Publish(e)

Spec == Init /\ [][Next]_vars
=============================================================================

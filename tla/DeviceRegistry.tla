--------------------------- MODULE DeviceRegistry ---------------------------
(***************************************************************************)
(* How the devices of the driver processes come to be listed by the        *)
(* resolver: agoclient.cpp (AgoConnection, one instance per driver) and    *)
(* agoresolver.cpp, over the topic "agocontrol" of the message broker.     *)
(*                                                                         *)
(* A driver names its devices by internal ids and keeps a file that maps   *)
(* generated uuids to them.  It announces a device when it adds it and     *)
(* again whenever the resolver's discover command reaches it.  The         *)
(* resolver keeps the inventory in memory only.  A process gets messages   *)
(* from the moment its receiver exists, in the order they were sent;       *)
(* everything sent before is lost to it.  Any process may crash.           *)
(*                                                                         *)
(* Left out: names and rooms (the SQLite inventory), values other than the *)
(* state, and the stale mark of devices that stopped announcing.           *)
(***************************************************************************)
EXTENDS Naturals, Sequences, SequencesExt, FiniteSets, Functions

CONSTANTS
    Clients,        \* driver processes
    Ids,            \* internal ids
    Passed,         \* those added with passuuid: the id is the uuid
    Uuids,          \* generated uuids, disjoint from Passed
    Controller,     \* the resolver's own device
    Levels, Zero,   \* device states; Zero is the default
    Void,           \* a map entry made by operator[]
    MaxQueue,       \* bound of the model: no driver starts to send on its own
                    \* while so many messages wait for the resolver
    MaxCrashes      \* bound of the model

AllUuids == Uuids \union Passed \union {Controller}
Entry == [state : Levels, hasValues : BOOLEAN]

ASSUME ConstantsAssumption ==
    /\ IsFiniteSet(Ids) /\ Ids # {}
    /\ Passed \subseteq Ids
    /\ Uuids \intersect Passed = {}
    /\ Controller \notin Uuids \union Passed
    /\ Zero \in Levels
    /\ Void \notin Entry
    /\ MaxQueue \in Nat
    /\ MaxCrashes \in Nat

VARIABLES
    up,             \* client: "down", "setup" (no receiver yet), "run"
    cpc, adding,    \* client: place inside addDevice, the id it adds
    uuidMap,        \* client: internal id -> uuid
    uuidFile,       \* client: the same on disk
    deviceMap,      \* client: the ids it announces
    discovers,      \* client: discover commands in its queue
    rup,            \* resolver: "down", "setup", "run"
    rqueue,         \* resolver: messages in its queue
    inventory,      \* resolver: uuid -> entry
    crashes,
    names,          \* history: uuids under which <<client, id>> was announced
    torn,           \* history: clients that crashed while writing their file
    asked,          \* history: uuids looked up before they were listed
    removed         \* history: <<client, id>> removed and not added since

clientVars == <<up, cpc, adding, uuidMap, uuidFile, deviceMap, discovers>>
resolverVars == <<rup, rqueue, inventory>>
histVars == <<crashes, names, torn, asked, removed>>
vars == <<clientVars, resolverVars, histVars>>

Message == [kind : {"announce", "remove"}, uuid : AllUuids]
           \union [kind : {"state"}, uuid : AllUuids, level : Levels]
           \union [kind : {"discover"}]
NoMap == << >>
With(f, key, value) == [k \in DOMAIN f \union {key} |-> IF k = key THEN value ELSE f[k]]
UuidMaps == UNION {[S -> AllUuids] : S \in SUBSET Ids}

TypeOK ==
    /\ up \in [Clients -> {"down", "setup", "run"}]
    /\ cpc \in [Clients -> {"idle", "store", "announce"}]
    /\ adding \in [Clients -> Ids]
    /\ uuidMap \in [Clients -> UuidMaps] /\ uuidFile \in [Clients -> UuidMaps]
    /\ deviceMap \in [Clients -> SUBSET Ids]
    /\ \A c \in Clients : deviceMap[c] \subseteq DOMAIN uuidMap[c]
    /\ discovers \in [Clients -> 0..1]
    /\ rup \in {"down", "setup", "run"}
    /\ rqueue \in Seq(Message)
    /\ DOMAIN inventory \subseteq AllUuids
    /\ inventory \in [DOMAIN inventory -> Entry \union {Void}]
    /\ crashes \in 0..MaxCrashes
    /\ names \in [Clients \X Ids -> SUBSET AllUuids]
    /\ torn \subseteq Clients
    /\ asked \subseteq AllUuids
    /\ removed \subseteq Clients \X Ids

Init ==
    /\ up = [c \in Clients |-> "down"]
    /\ cpc = [c \in Clients |-> "idle"]
    /\ adding = [c \in Clients |-> CHOOSE i \in Ids : TRUE]
    /\ uuidMap = [c \in Clients |-> NoMap]
    /\ uuidFile = [c \in Clients |-> NoMap]
    /\ deviceMap = [c \in Clients |-> {}]
    /\ discovers = [c \in Clients |-> 0]
    /\ rup = "down"
    /\ rqueue = << >>
    /\ inventory = << >>
    /\ crashes = 0
    /\ names = [d \in Clients \X Ids |-> {}]
    /\ torn = {}
    /\ asked = {}
    /\ removed = {}

-----------------------------------------------------------------------------
(* The topic.  The resolver's queue is filled in the order of sending.     *)

Announcement(u) == [kind |-> "announce", uuid |-> u]
Removal(u) == [kind |-> "remove", uuid |-> u]
StateChange(u, l) == [kind |-> "state", uuid |-> u, level |-> l]

\* sender.send(): to the resolver if it has a receiver, else to nobody.
Send(ms) == rqueue' = IF rup = "run" THEN rqueue \o ms ELSE rqueue

Room == Len(rqueue) < MaxQueue

-----------------------------------------------------------------------------
(* A driver: AgoConnection.                                                *)

\* The constructor: loadUuidMap, a sender, no receiver.
ClientStart(c) ==
    /\ up[c] = "down"
    /\ up' = [up EXCEPT ![c] = "setup"]
    /\ uuidMap' = [uuidMap EXCEPT ![c] = uuidFile[c]]
    /\ UNCHANGED <<cpc, adding, uuidFile, deviceMap, discovers, resolverVars, histVars>>

\* run(): the receiver; from now on messages are queued.
ClientRun(c) ==
    /\ up[c] = "setup"
    /\ cpc[c] = "idle"
    /\ up' = [up EXCEPT ![c] = "run"]
    /\ UNCHANGED <<cpc, adding, uuidMap, uuidFile, deviceMap, discovers, resolverVars,
                   histVars>>

Taken == (UNION {Range(uuidMap[c]) \union Range(uuidFile[c]) : c \in Clients})
         \union (UNION Range(names))

\* Wrong: the file is written for a passed uuid only.
AddDeviceUnsaved(c, i) ==
    /\ up[c] # "down"
    /\ cpc[c] = "idle"
    /\ Room
    /\ adding' = [adding EXCEPT ![c] = i]
    /\ IF i \in Passed THEN uuidMap' = [uuidMap EXCEPT ![c] = With(@, i, i)]
       ELSE IF i \in DOMAIN uuidMap[c] THEN UNCHANGED uuidMap
       ELSE \E u \in Uuids \ Taken : uuidMap' = [uuidMap EXCEPT ![c] = With(@, i, u)]
    /\ cpc' = [cpc EXCEPT ![c] = IF i \in Passed THEN "store" ELSE "announce"]
    /\ UNCHANGED <<up, uuidFile, deviceMap, discovers, resolverVars, histVars>>

\* addDevice: the map gets a uuid if the id has none; with passuuid the id
\* itself, and the file is written every time.
AddDevice(c, i) ==
    /\ up[c] # "down"
    /\ cpc[c] = "idle"
    /\ Room
    /\ adding' = [adding EXCEPT ![c] = i]
    /\ \/ /\ i \in Passed
          /\ uuidMap' = [uuidMap EXCEPT ![c] = With(@, i, i)]
          /\ uuidFile' = [uuidFile EXCEPT ![c] = NoMap]
          /\ cpc' = [cpc EXCEPT ![c] = "store"]
       \/ /\ i \notin Passed \union DOMAIN uuidMap[c]
          /\ \E u \in Uuids \ Taken : uuidMap' = [uuidMap EXCEPT ![c] = With(@, i, u)]
          /\ uuidFile' = [uuidFile EXCEPT ![c] = NoMap]
          /\ cpc' = [cpc EXCEPT ![c] = "store"]
       \/ /\ i \in DOMAIN uuidMap[c] \ Passed
          /\ cpc' = [cpc EXCEPT ![c] = "announce"]
          /\ UNCHANGED <<uuidMap, uuidFile>>
    /\ UNCHANGED <<up, deviceMap, discovers, resolverVars, histVars>>

\* storeUuidMap: opening the file has emptied it, now it is written.
StoreUuidMap(c) ==
    /\ cpc[c] = "store"
    /\ uuidFile' = [uuidFile EXCEPT ![c] = uuidMap[c]]
    /\ cpc' = [cpc EXCEPT ![c] = "announce"]
    /\ UNCHANGED <<up, adding, uuidMap, deviceMap, discovers, resolverVars, histVars>>

\* The device map gets the device, emitDeviceAnnounce.
AnnounceNew(c) ==
    LET i == adding[c]
    IN  /\ cpc[c] = "announce"
        /\ cpc' = [cpc EXCEPT ![c] = "idle"]
        /\ deviceMap' = [deviceMap EXCEPT ![c] = @ \union {i}]
        /\ Send(<<Announcement(uuidMap[c][i])>>)
        /\ names' = [names EXCEPT ![<<c, i>>] = @ \union {uuidMap[c][i]}]
        /\ removed' = removed \ {<<c, i>>}
        /\ UNCHANGED <<up, adding, uuidMap, uuidFile, discovers, rup, inventory, crashes,
                       torn, asked>>

\* Wrong: the device stays in the device map.
RemoveKeepsDevice(c, i) ==
    /\ up[c] = "run"
    /\ cpc[c] = "idle"
    /\ i \in DOMAIN uuidMap[c]
    /\ Room
    /\ Send(<<Removal(uuidMap[c][i])>>)
    /\ removed' = removed \union {<<c, i>>}
    /\ UNCHANGED <<clientVars, rup, inventory, crashes, names, torn, asked>>

\* removeDevice, called from the driver's command handler: the event is sent
\* for any id that has a uuid; the uuid stays in map and file.
RemoveDevice(c, i) ==
    /\ up[c] = "run"
    /\ cpc[c] = "idle"
    /\ i \in DOMAIN uuidMap[c]
    /\ Room
    /\ Send(<<Removal(uuidMap[c][i])>>)
    /\ deviceMap' = [deviceMap EXCEPT ![c] = @ \ {i}]
    /\ removed' = removed \union {<<c, i>>}
    /\ UNCHANGED <<up, cpc, adding, uuidMap, uuidFile, discovers, rup, inventory, crashes,
                   names, torn, asked>>

\* run() gets a discover command: reportDevices announces the device map.
ReportDevices(c) ==
    /\ up[c] = "run"
    /\ discovers[c] > 0
    /\ discovers' = [discovers EXCEPT ![c] = @ - 1]
    /\ \E order \in SetToSeqs(deviceMap[c]) :
          Send([k \in DOMAIN order |-> Announcement(uuidMap[c][order[k]])])
    /\ UNCHANGED <<up, cpc, adding, uuidMap, uuidFile, deviceMap, rup, inventory, histVars>>

\* emitEvent, of any id with a uuid: event.device.statechanged.
EmitState(c, i, l) ==
    /\ up[c] # "down"
    /\ i \in DOMAIN uuidMap[c]
    /\ Room
    /\ Send(<<StateChange(uuidMap[c][i], l)>>)
    /\ UNCHANGED <<clientVars, rup, inventory, histVars>>

\* The process ends at any point; its file is all that is left.
ClientCrash(c) ==
    /\ up[c] # "down"
    /\ crashes < MaxCrashes
    /\ crashes' = crashes + 1
    /\ up' = [up EXCEPT ![c] = "down"]
    /\ cpc' = [cpc EXCEPT ![c] = "idle"]
    /\ uuidMap' = [uuidMap EXCEPT ![c] = NoMap]
    /\ deviceMap' = [deviceMap EXCEPT ![c] = {}]
    /\ discovers' = [discovers EXCEPT ![c] = 0]
    /\ torn' = IF cpc[c] = "store" THEN torn \union {c} ELSE torn
    /\ UNCHANGED <<adding, uuidFile, resolverVars, names, asked, removed>>

-----------------------------------------------------------------------------
(* The resolver.                                                           *)

\* main(): an empty inventory, its own device announced to others only, the
\* discover thread started, no receiver yet.
ResolverStart ==
    /\ rup = "down"
    /\ rup' = "setup"
    /\ inventory' = << >>
    /\ UNCHANGED <<clientVars, rqueue, histVars>>

ResolverRun ==
    /\ rup = "setup"
    /\ rup' = "run"
    /\ UNCHANGED <<clientVars, rqueue, inventory, histVars>>

\* The discover thread, once per discoverdelay; a queue holds at most one
\* command because the delay is minutes.
Discover ==
    /\ rup # "down"
    /\ \A c \in Clients : discovers[c] = 0
    /\ [kind |-> "discover"] \notin Range(rqueue)
    /\ discovers' = [c \in Clients |-> IF up[c] = "run" THEN 1 ELSE 0]
    /\ Send(<<[kind |-> "discover"]>>)
    /\ UNCHANGED <<up, cpc, adding, uuidMap, uuidFile, deviceMap, rup, inventory, histVars>>

Listed(u) == u \in DOMAIN inventory /\ inventory[u] # Void

\* Wrong: an announcement of a listed device starts it anew.
AnnouncedAnew(u) == [state |-> Zero, hasValues |-> TRUE]

\* The entry an announce leaves: a new one, or the old state and values; of a
\* void entry there is nothing to take over.
Announced(u) ==
    IF u \notin DOMAIN inventory
      THEN [state |-> Zero, hasValues |-> TRUE]
      ELSE IF inventory[u] = Void THEN [state |-> Zero, hasValues |-> FALSE]
      ELSE inventory[u]

\* One message from the resolver's queue.
Receive(kind) ==
    /\ rup = "run"
    /\ rqueue # << >>
    /\ Head(rqueue).kind = kind

HandleAnnounce ==
    /\ Receive("announce")
    /\ inventory' = With(inventory, Head(rqueue).uuid, Announced(Head(rqueue).uuid))
    /\ rqueue' = Tail(rqueue)
    /\ UNCHANGED <<clientVars, rup, histVars>>

\* Wrong: inventory[uuid] = Variant() for erase().
HandleRemoveVoids ==
    /\ Receive("remove")
    /\ LET u == Head(rqueue).uuid
       IN  inventory' = IF u \in DOMAIN inventory THEN With(inventory, u, Void) ELSE inventory
    /\ rqueue' = Tail(rqueue)
    /\ UNCHANGED <<clientVars, rup, histVars>>

HandleRemove ==
    /\ Receive("remove")
    /\ inventory' = Restrict(inventory, DOMAIN inventory \ {Head(rqueue).uuid})
    /\ rqueue' = Tail(rqueue)
    /\ UNCHANGED <<clientVars, rup, histVars>>

\* handleEvent(): an entry without values ignores the event.
HandleState ==
    /\ Receive("state")
    /\ LET u == Head(rqueue).uuid
       IN  inventory' = IF Listed(u) /\ inventory[u].hasValues
                          THEN [inventory EXCEPT ![u].state = Head(rqueue).level]
                          ELSE inventory
    /\ rqueue' = Tail(rqueue)
    /\ UNCHANGED <<clientVars, rup, histVars>>

\* Wrong: the resolver takes the command for another's.
HandleDiscoverMuted ==
    /\ Receive("discover")
    /\ rqueue' = Tail(rqueue)
    /\ UNCHANGED <<clientVars, rup, inventory, histVars>>

\* Its own discover command: the resolver announces its device, to itself
\* among others.
HandleDiscover ==
    /\ Receive("discover")
    /\ rqueue' = Append(Tail(rqueue), Announcement(Controller))
    /\ UNCHANGED <<clientVars, rup, inventory, histVars>>

\* getdevice, and setdevicename or setdeviceroom of a device with a database
\* row: the lookup of an unlisted uuid leaves a void entry.
Lookup(u) ==
    /\ rup = "run"
    /\ inventory' = IF u \in DOMAIN inventory THEN inventory ELSE With(inventory, u, Void)
    /\ asked' = IF Listed(u) THEN asked ELSE asked \union {u}
    /\ UNCHANGED <<clientVars, rup, rqueue, crashes, names, torn, removed>>

ResolverCrash ==
    /\ rup # "down"
    /\ crashes < MaxCrashes
    /\ crashes' = crashes + 1
    /\ rup' = "down"
    /\ rqueue' = << >>
    /\ inventory' = << >>
    /\ asked' = {}
    /\ UNCHANGED <<clientVars, names, torn, removed>>

-----------------------------------------------------------------------------
Handle == HandleAnnounce \/ HandleRemove \/ HandleState \/ HandleDiscover

Client(c) ==
    \/ ClientStart(c) \/ ClientRun(c)
    \/ StoreUuidMap(c) \/ AnnounceNew(c) \/ ReportDevices(c) \/ ClientCrash(c)
    \/ \E i \in Ids : \/ AddDevice(c, i) \/ RemoveDevice(c, i)
                      \/ \E l \in Levels : EmitState(c, i, l)

Resolver ==
    \/ ResolverStart \/ ResolverRun \/ ResolverCrash
    \/ Discover \/ Handle
    \/ \E u \in AllUuids : Lookup(u)

Next == (\E c \in Clients : Client(c)) \/ Resolver

Spec == Init /\ [][Next]_vars

\* Every process goes on from its setup to run() and works its queue off,
\* the discover thread loops for ever, systemd restarts the resolver
\* (conf/systemd, Restart=always).
Fairness ==
    /\ WF_vars(ResolverStart) /\ WF_vars(ResolverRun)
    /\ WF_vars(Discover) /\ WF_vars(Handle)
    /\ \A c \in Clients :
          /\ WF_vars(ClientRun(c)) /\ WF_vars(ReportDevices(c))
          /\ WF_vars(StoreUuidMap(c)) /\ WF_vars(AnnounceNew(c))

FairSpec == Spec /\ Fairness

-----------------------------------------------------------------------------
(* Safety.                                                                 *)

\* A device is announced under one uuid for ever, across restarts of its
\* driver, because the file is written before the first announcement; only
\* a crash that tore the file loses the name (agoclient.cpp:507-519, 556).
UuidStable ==
    \A c \in Clients, i \in Ids :
        c \notin torn => Cardinality(names[<<c, i>>]) <= 1

\* Messages about a uuid that the resolver has not yet handled.
Pending(u) == \E k \in DOMAIN rqueue : rqueue[k].kind # "discover" /\ rqueue[k].uuid = u

\* A device that was removed, with no message about it on the way, is not
\* listed: no answer to a discover brings it back (agoclient.cpp:521-528,
\* 543-554, agoresolver.cpp:375-384).
RemovedNotListed ==
    \A c \in Clients, i \in Ids \ Passed :
        <<c, i>> \in removed =>
            \A u \in names[<<c, i>>] : ~ Pending(u) /\ c \notin torn => ~ Listed(u)

\* An entry lacks its values only if somebody looked its uuid up before it was
\* announced (agoresolver.cpp:295, 353-369).
ValuesUnlessAsked ==
    \A u \in DOMAIN inventory : Listed(u) /\ ~ inventory[u].hasValues => u \in asked

-----------------------------------------------------------------------------
(* Steps.                                                                  *)

\* An announcement of a listed device changes neither its state nor its
\* values (agoresolver.cpp:361-369); only an event about it does.
AnnounceKeepsState ==
    [][\A u \in DOMAIN inventory :
          Listed(u) /\ Listed(u)' /\ inventory'[u].state # inventory[u].state
              => Receive("state") /\ Head(rqueue).uuid = u]_vars

-----------------------------------------------------------------------------
(* Liveness.                                                               *)

Present(c, i) == up[c] = "run" /\ i \in deviceMap[c]

\* Every device a running driver keeps comes to be listed, whatever was lost
\* while the resolver was not there (agoclient.cpp:409-410, 543-554,
\* agoresolver.cpp:407-416).
\* So does the resolver's own device, although the resolver announces it before
\* it can hear the announcement (agoresolver.cpp:472-479).
AllListed ==
    /\ \A c \in Clients, i \in Ids :
          Present(c, i) ~> (~ Present(c, i) \/ Listed(uuidMap[c][i]))
    /\ (rup = "run") ~> (rup # "run" \/ Listed(Controller))
=============================================================================

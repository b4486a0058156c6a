------------------------ MODULE DeviceRegistryProofs ------------------------
(***************************************************************************)
(* Proofs about DeviceRegistry, for any number of drivers, devices, uuids, *)
(* levels and crashes, and with queues of any length.                      *)
(***************************************************************************)
EXTENDS DeviceRegistry, FiniteSetTheorems, SequenceTheorems, TLAPS

\* Next, action by action.
LEMMA Cases ==
    ASSUME [Next]_vars
    PROVE  \/ \E c \in Clients :
                 \/ ClientStart(c) \/ ClientRun(c) \/ StoreUuidMap(c) \/ AnnounceNew(c)
                 \/ ReportDevices(c) \/ ClientCrash(c)
                 \/ \E i \in Ids : \/ AddDevice(c, i) \/ RemoveDevice(c, i)
                                   \/ \E l \in Levels : EmitState(c, i, l)
           \/ ResolverStart \/ ResolverRun \/ ResolverCrash \/ Discover
           \/ HandleAnnounce \/ HandleRemove \/ HandleState \/ HandleDiscover
           \/ \E u \in AllUuids : Lookup(u)
           \/ UNCHANGED vars
BY DEF Next, Client, Resolver, Handle

\* A uuid map with one more entry is a uuid map, and keeps the others.
LEMMA WithMap ==
    ASSUME NEW m \in UuidMaps, NEW i \in Ids, NEW u \in AllUuids
    PROVE  /\ With(m, i, u) \in UuidMaps
           /\ DOMAIN With(m, i, u) = DOMAIN m \union {i}
           /\ With(m, i, u)[i] = u
           /\ \A j \in DOMAIN m : j # i => With(m, i, u)[j] = m[j]
<1>1. PICK S \in SUBSET Ids : m \in [S -> AllUuids]
  BY DEF UuidMaps
<1>2. With(m, i, u) \in [S \union {i} -> AllUuids]
  BY <1>1 DEF With
<1>3. S \union {i} \in SUBSET Ids
  OBVIOUS
<1> QED BY <1>1, <1>2, <1>3 DEF With, UuidMaps

\* What a uuid map holds.
LEMMA MapEntry ==
    ASSUME NEW m \in UuidMaps
    PROVE  /\ DOMAIN m \subseteq Ids
           /\ \A i \in DOMAIN m : m[i] \in AllUuids
BY DEF UuidMaps

LEMMA NoMapType == NoMap \in UuidMaps /\ DOMAIN NoMap = {}
<1>1. NoMap \in [{} -> AllUuids]
  BY DEF NoMap
<1> QED BY <1>1 DEF UuidMaps

\* A message the resolver takes is one of the kinds it knows.
LEMMA HeadTail ==
    ASSUME NEW S, NEW s \in Seq(S), s # << >>
    PROVE  Head(s) \in S /\ Tail(s) \in Seq(S)
OBVIOUS

LEMMA FunctionIsSeq ==
    ASSUME NEW S, NEW n \in Nat, NEW f \in [1..n -> S]
    PROVE  f \in Seq(S)
OBVIOUS

\* A void entry is not an entry.
LEMMA VoidIsNoEntry == Void \notin Entry
BY ConstantsAssumption

\* What an announcement leaves is an entry.
LEMMA AnnouncedType ==
    ASSUME TypeOK, NEW u
    PROVE  Announced(u) \in Entry
<1>1. [state |-> Zero, hasValues |-> TRUE] \in Entry
      /\ [state |-> Zero, hasValues |-> FALSE] \in Entry
  BY ConstantsAssumption DEF Entry
<1>2. ASSUME u \in DOMAIN inventory, inventory[u] # Void PROVE inventory[u] \in Entry
  BY <1>2 DEF TypeOK
<1> QED BY <1>1, <1>2 DEF Announced

\* A state message carries a level.
LEMMA StateMessage ==
    ASSUME TypeOK, Receive("state")
    PROVE  Head(rqueue).level \in Levels
<1> DEFINE m == Head(rqueue)
<1>1. m \in Message /\ m.kind = "state"
  BY HeadTail DEF TypeOK, Receive
<1>2. m.level \in Levels
  <2> HIDE DEF m
  <2> QED BY <1>1 DEF Message
<1> QED BY <1>2

-----------------------------------------------------------------------------
(* What a driver has in hand while it adds a device: the device has a uuid *)
(* already.  A driver that is down has nothing.                            *)
AddingInv ==
    \A c \in Clients :
        /\ cpc[c] # "idle" => up[c] # "down" /\ adding[c] \in DOMAIN uuidMap[c]
        /\ up[c] = "down" => deviceMap[c] = {}

LEMMA InitType == Init => TypeOK /\ AddingInv
<1> SUFFICES ASSUME Init PROVE TypeOK /\ AddingInv
  OBVIOUS
<1>1. adding \in [Clients -> Ids]
  BY ConstantsAssumption DEF Init
<1>2. uuidMap \in [Clients -> UuidMaps] /\ uuidFile \in [Clients -> UuidMaps]
  BY NoMapType DEF Init
<1>3. rqueue \in Seq(Message) /\ DOMAIN inventory = {}
  BY DEF Init
<1>4. inventory \in [DOMAIN inventory -> Entry \union {Void}]
  BY <1>3 DEF Init
<1>5. crashes \in 0..MaxCrashes
  BY ConstantsAssumption DEF Init
<1> QED BY <1>1, <1>2, <1>3, <1>4, <1>5 DEF Init, TypeOK, AddingInv

\* Sending well-formed messages keeps the queue well-formed.
LEMMA SendType ==
    ASSUME rqueue \in Seq(Message), NEW ms \in Seq(Message), Send(ms)
    PROVE  rqueue' \in Seq(Message)
BY DEF Send

LEMMA TypeStep == ASSUME TypeOK, AddingInv, [Next]_vars PROVE TypeOK' /\ AddingInv'
<1> USE DEF TypeOK, AddingInv, clientVars, resolverVars, histVars
<1>1. ASSUME NEW c \in Clients, ClientStart(c) PROVE TypeOK' /\ AddingInv'
  BY <1>1 DEF ClientStart
<1>2. ASSUME NEW c \in Clients, ClientRun(c) PROVE TypeOK' /\ AddingInv'
  BY <1>2 DEF ClientRun
<1>3. ASSUME NEW c \in Clients, StoreUuidMap(c) PROVE TypeOK' /\ AddingInv'
  BY <1>3 DEF StoreUuidMap
<1>4. ASSUME NEW c \in Clients, AnnounceNew(c) PROVE TypeOK' /\ AddingInv'
  <2> DEFINE i == adding[c]
             u == uuidMap[c][i]
  <2>1. i \in Ids /\ i \in DOMAIN uuidMap[c] /\ u \in AllUuids
    BY <1>4, MapEntry DEF AnnounceNew
  <2>2. <<Announcement(u)>> \in Seq(Message)
    BY <2>1 DEF Announcement, Message
  <2>3. rqueue' \in Seq(Message)
    <3>1. Send(<<Announcement(u)>>)
      BY <1>4 DEF AnnounceNew
    <3> HIDE DEF u
    <3> QED BY <2>2, <3>1, SendType
  <2>4. names' \in [Clients \X Ids -> SUBSET AllUuids]
    <3>1. names' = [names EXCEPT ![<<c, i>>] = @ \union {u}]
      BY <1>4 DEF AnnounceNew
    <3> HIDE DEF u, i
    <3> QED BY <3>1, <2>1
  <2>5. /\ deviceMap' \in [Clients -> SUBSET Ids]
        /\ \A d \in Clients : deviceMap'[d] \subseteq DOMAIN uuidMap'[d]
        /\ cpc' \in [Clients -> {"idle", "store", "announce"}]
    BY <1>4, <2>1 DEF AnnounceNew
  <2>6. removed' \subseteq Clients \X Ids
    BY <1>4 DEF AnnounceNew
  <2>7. AddingInv'
    BY <1>4 DEF AnnounceNew
  <2> QED BY <1>4, <2>3, <2>4, <2>5, <2>6, <2>7 DEF AnnounceNew
<1>5. ASSUME NEW c \in Clients, ReportDevices(c) PROVE TypeOK' /\ AddingInv'
  <2>1. PICK order \in SetToSeqs(deviceMap[c]) :
            Send([k \in DOMAIN order |-> Announcement(uuidMap[c][order[k]])])
    BY <1>5 DEF ReportDevices
  <2> DEFINE ms == [k \in DOMAIN order |-> Announcement(uuidMap[c][order[k]])]
  <2>2. Cardinality(deviceMap[c]) \in Nat
    BY ConstantsAssumption, FS_Subset, FS_CardinalityType
  <2>3. order \in [1..Cardinality(deviceMap[c]) -> deviceMap[c]]
    BY <2>1 DEF SetToSeqs
  <2>4. \A k \in DOMAIN order : Announcement(uuidMap[c][order[k]]) \in Message
    BY <2>3, MapEntry DEF Announcement, Message
  <2>5. ms \in Seq(Message)
    <3>1. ms \in [1..Cardinality(deviceMap[c]) -> Message]
      BY <2>3, <2>4
    <3> HIDE DEF ms
    <3> QED BY <2>2, <3>1, FunctionIsSeq
  <2>6. rqueue' \in Seq(Message)
    <3>1. Send(ms)
      BY <2>1
    <3> HIDE DEF ms
    <3> QED BY <2>5, <3>1, SendType
  <2>7. discovers' \in [Clients -> 0..1]
    BY <1>5 DEF ReportDevices
  <2> QED BY <1>5, <2>6, <2>7 DEF ReportDevices
<1>6. ASSUME NEW c \in Clients, ClientCrash(c) PROVE TypeOK' /\ AddingInv'
  <2>1. crashes' \in 0..MaxCrashes
    BY <1>6, ConstantsAssumption DEF ClientCrash
  <2>2. uuidMap' \in [Clients -> UuidMaps]
    BY <1>6, NoMapType DEF ClientCrash
  <2>3. /\ discovers' \in [Clients -> 0..1] /\ deviceMap' \in [Clients -> SUBSET Ids]
        /\ \A d \in Clients : deviceMap'[d] \subseteq DOMAIN uuidMap'[d]
    BY <1>6 DEF ClientCrash
  <2>4. torn' \subseteq Clients
    BY <1>6 DEF ClientCrash
  <2> QED BY <1>6, <2>1, <2>2, <2>3, <2>4 DEF ClientCrash
<1>7. ASSUME NEW c \in Clients, NEW i \in Ids, AddDevice(c, i) PROVE TypeOK' /\ AddingInv'
  <2>1. CASE i \in DOMAIN uuidMap[c] /\ UNCHANGED <<uuidMap, uuidFile>>
                /\ cpc' = [cpc EXCEPT ![c] = "announce"]
    BY <1>7, <2>1 DEF AddDevice
  <2>2. ASSUME NEW u \in AllUuids, uuidMap' = [uuidMap EXCEPT ![c] = With(@, i, u)],
               uuidFile' = [uuidFile EXCEPT ![c] = NoMap],
               cpc' = [cpc EXCEPT ![c] = "store"]
        PROVE TypeOK' /\ AddingInv'
    <3>5. uuidMap[c] \in UuidMaps
      BY DEF TypeOK
    <3>1. /\ With(uuidMap[c], i, u) \in UuidMaps
          /\ DOMAIN With(uuidMap[c], i, u) = DOMAIN uuidMap[c] \union {i}
      <4> HIDE DEF TypeOK, AddingInv
      <4> QED BY <3>5, WithMap
    <3>2. uuidMap' \in [Clients -> UuidMaps] /\ uuidFile' \in [Clients -> UuidMaps]
      BY <2>2, <3>1, NoMapType
    <3>3. \A d \in Clients : DOMAIN uuidMap[d] \subseteq DOMAIN uuidMap'[d]
      BY <2>2, <3>1
    <3>4. adding' = [adding EXCEPT ![c] = i] /\ i \in DOMAIN uuidMap'[c]
      BY <1>7, <2>2, <3>1 DEF AddDevice
    <3> QED BY <1>7, <2>2, <3>2, <3>3, <3>4 DEF AddDevice
  <2> QED BY <1>7, <2>1, <2>2 DEF AddDevice, AllUuids
<1>8. ASSUME NEW c \in Clients, NEW i \in Ids, RemoveDevice(c, i) PROVE TypeOK' /\ AddingInv'
  <2>1. <<Removal(uuidMap[c][i])>> \in Seq(Message)
    BY <1>8, MapEntry DEF RemoveDevice, Removal, Message
  <2>2. rqueue' \in Seq(Message)
    BY <1>8, <2>1, SendType DEF RemoveDevice
  <2> QED BY <1>8, <2>2 DEF RemoveDevice
<1>9. ASSUME NEW c \in Clients, NEW i \in Ids, NEW l \in Levels, EmitState(c, i, l)
      PROVE TypeOK' /\ AddingInv'
  <2>1. <<StateChange(uuidMap[c][i], l)>> \in Seq(Message)
    BY <1>9, MapEntry DEF EmitState, StateChange, Message
  <2>2. rqueue' \in Seq(Message)
    BY <1>9, <2>1, SendType DEF EmitState
  <2> QED BY <1>9, <2>2 DEF EmitState
<1>10. CASE ResolverStart
  <2>1. DOMAIN inventory' = {} /\ inventory' \in [{} -> Entry \union {Void}]
    BY <1>10 DEF ResolverStart
  <2> QED BY <1>10, <2>1 DEF ResolverStart
<1>11. CASE ResolverRun
  BY <1>11 DEF ResolverRun
<1>12. CASE ResolverCrash
  <2>1. DOMAIN inventory' = {} /\ inventory' \in [{} -> Entry \union {Void}]
    BY <1>12 DEF ResolverCrash
  <2>2. crashes' \in 0..MaxCrashes /\ rqueue' \in Seq(Message)
    BY <1>12, ConstantsAssumption DEF ResolverCrash
  <2> QED BY <1>12, <2>1, <2>2 DEF ResolverCrash
<1>13. CASE Discover
  <2>1. <<[kind |-> "discover"]>> \in Seq(Message)
    BY DEF Message
  <2>2. rqueue' \in Seq(Message)
    BY <1>13, <2>1, SendType DEF Discover
  <2> QED BY <1>13, <2>2 DEF Discover
<1>14. CASE HandleAnnounce
  <2> DEFINE m == Head(rqueue)
  <2>1. m \in Message /\ m.kind = "announce" /\ rqueue' \in Seq(Message)
    BY <1>14, HeadTail DEF HandleAnnounce, Receive
  <2>2. m.uuid \in AllUuids
    <3> HIDE DEF m
    <3> QED BY <2>1 DEF Message
  <2>3. Announced(m.uuid) \in Entry
    BY AnnouncedType
  <2>4. inventory' = With(inventory, m.uuid, Announced(m.uuid))
    BY <1>14 DEF HandleAnnounce
  <2>5. /\ DOMAIN inventory' \subseteq AllUuids
        /\ inventory' \in [DOMAIN inventory' -> Entry \union {Void}]
    <3> HIDE DEF m
    <3> QED BY <2>2, <2>3, <2>4 DEF With
  <2> QED BY <1>14, <2>1, <2>5 DEF HandleAnnounce
<1>15. CASE HandleRemove
  <2>1. rqueue' \in Seq(Message)
    BY <1>15, HeadTail DEF HandleRemove, Receive
  <2>2. /\ DOMAIN inventory' \subseteq AllUuids
        /\ inventory' \in [DOMAIN inventory' -> Entry \union {Void}]
    BY <1>15 DEF HandleRemove, Restrict
  <2> QED BY <1>15, <2>1, <2>2 DEF HandleRemove
<1>16. CASE HandleState
  <2> DEFINE m == Head(rqueue)
  <2>1. m \in Message /\ m.kind = "state" /\ rqueue' \in Seq(Message)
    BY <1>16, HeadTail DEF HandleState, Receive
  <2>2. m.level \in Levels
    BY <1>16, StateMessage DEF HandleState
  <2>3. CASE inventory' = inventory
    BY <1>16, <2>1, <2>3 DEF HandleState
  <2>4. CASE /\ Listed(m.uuid)
             /\ inventory' = [inventory EXCEPT ![m.uuid].state = m.level]
    <3>1. inventory[m.uuid] \in Entry
      BY <2>4 DEF Listed
    <3>2. [inventory[m.uuid] EXCEPT !.state = m.level] \in Entry
      <4> HIDE DEF m
      <4> QED BY <2>2, <3>1 DEF Entry
    <3>3. DOMAIN inventory' = DOMAIN inventory
          /\ inventory' \in [DOMAIN inventory -> Entry \union {Void}]
      BY <2>4, <3>2
    <3> QED BY <1>16, <2>1, <3>3 DEF HandleState
  <2> QED BY <1>16, <2>3, <2>4 DEF HandleState
<1>17. CASE HandleDiscover
  <2>1. Tail(rqueue) \in Seq(Message) /\ Announcement(Controller) \in Message
    BY <1>17, HeadTail DEF HandleDiscover, Receive, Announcement, Message, AllUuids
  <2> QED BY <1>17, <2>1 DEF HandleDiscover
<1>18. ASSUME NEW u \in AllUuids, Lookup(u) PROVE TypeOK' /\ AddingInv'
  <2>1. /\ DOMAIN inventory' \subseteq AllUuids
        /\ inventory' \in [DOMAIN inventory' -> Entry \union {Void}]
    BY <1>18 DEF Lookup, With
  <2> QED BY <1>18, <2>1 DEF Lookup
<1>19. CASE UNCHANGED vars
  BY <1>19 DEF vars
<1> QED
  BY <1>1, <1>2, <1>3, <1>4, <1>5, <1>6, <1>7, <1>8, <1>9, <1>10, <1>11, <1>12, <1>13,
     <1>14, <1>15, <1>16, <1>17, <1>18, <1>19, Cases

\* The types hold in every reachable state: no device is announced without a
\* uuid, and the resolver's map never holds anything but entries and the void
\* ones that operator[] makes.
THEOREM TypeCorrect == Spec => []TypeOK
<1>1. Init => TypeOK /\ AddingInv
  BY InitType
<1>2. TypeOK /\ AddingInv /\ [Next]_vars => (TypeOK /\ AddingInv)'
  BY TypeStep
<1> QED BY <1>1, <1>2, PTL DEF Spec

-----------------------------------------------------------------------------
(* The names of devices.                                                   *)

\* A passed id is its own uuid.
OwnName(m) == \A i \in Passed \intersect DOMAIN m : m[i] = i

\* The map that says how a driver names its devices: in memory while it is
\* up, on disk while it is down.
Naming(c) == IF up[c] = "down" THEN uuidFile[c] ELSE uuidMap[c]

NameInv ==
    \A c \in Clients :
        /\ OwnName(uuidMap[c]) /\ OwnName(uuidFile[c])
        /\ up[c] # "down" /\ cpc[c] # "store" => uuidFile[c] = uuidMap[c]
        /\ c \notin torn =>
             \A i \in Ids : \A u \in names[<<c, i>>] :
                i \in DOMAIN Naming(c) /\ Naming(c)[i] = u

\* A step that changes neither the names nor a driver.
LEMMA NameUnchanged ==
    ASSUME NameInv, UNCHANGED <<up, cpc, uuidMap, uuidFile, torn, names>>
    PROVE  NameInv'
BY DEF NameInv, Naming, OwnName

LEMMA NameStep == ASSUME TypeOK, AddingInv, NameInv, [Next]_vars PROVE NameInv'
<1> USE DEF clientVars, resolverVars, histVars
<1>1. ASSUME NEW c \in Clients, ClientStart(c) PROVE NameInv'
  <2>1. /\ uuidMap' = [uuidMap EXCEPT ![c] = uuidFile[c]]
        /\ up' = [up EXCEPT ![c] = "setup"] /\ up[c] = "down"
        /\ UNCHANGED <<uuidFile, names, torn, cpc>>
    BY <1>1 DEF ClientStart
  <2> QED BY <2>1 DEF NameInv, Naming, OwnName, TypeOK
<1>2. ASSUME NEW c \in Clients, ClientRun(c) PROVE NameInv'
  BY <1>2 DEF ClientRun, NameInv, Naming, OwnName, TypeOK
<1>3. ASSUME NEW c \in Clients, StoreUuidMap(c) PROVE NameInv'
  BY <1>3 DEF StoreUuidMap, NameInv, Naming, OwnName, TypeOK, AddingInv
<1>4. ASSUME NEW c \in Clients, AnnounceNew(c) PROVE NameInv'
  <2>1. /\ adding[c] \in DOMAIN uuidMap[c] /\ adding[c] \in Ids /\ up[c] # "down"
        /\ cpc[c] = "announce"
    BY <1>4 DEF AnnounceNew, AddingInv, TypeOK
  <2>2. \A d \in Clients, i \in Ids :
            names'[<<d, i>>] = IF d = c /\ i = adding[c]
                                 THEN names[<<d, i>>] \union {uuidMap[c][i]}
                                 ELSE names[<<d, i>>]
    BY <1>4 DEF AnnounceNew, TypeOK
  <2>3. UNCHANGED <<up, uuidMap, uuidFile, torn>> /\ cpc' = [cpc EXCEPT ![c] = "idle"]
    BY <1>4 DEF AnnounceNew
  <2>4. \A d \in Clients : Naming(d)' = Naming(d)
    BY <2>3 DEF Naming
  <2>5. \A d \in Clients : OwnName(uuidMap[d])' /\ OwnName(uuidFile[d])'
    BY <2>3 DEF NameInv, OwnName
  <2>6. \A d \in Clients : up'[d] # "down" /\ cpc'[d] # "store" => uuidFile'[d] = uuidMap'[d]
    BY <2>1, <2>3 DEF NameInv, TypeOK
  <2>7. ASSUME NEW d \in Clients, d \notin torn', NEW i \in Ids, NEW u \in names'[<<d, i>>]
        PROVE  i \in DOMAIN Naming(d) /\ Naming(d)[i] = u
    <3>1. CASE u \in names[<<d, i>>]
      BY <2>3, <2>7, <3>1 DEF NameInv
    <3>2. CASE d = c /\ i = adding[c] /\ u = uuidMap[c][i]
      BY <2>1, <3>2 DEF Naming
    <3> QED BY <2>2, <2>7, <3>1, <3>2
  <2> QED BY <2>4, <2>5, <2>6, <2>7 DEF NameInv
<1>5. ASSUME NEW c \in Clients, ReportDevices(c) PROVE NameInv'
  BY <1>5, NameUnchanged DEF ReportDevices
<1>6. ASSUME NEW c \in Clients, ClientCrash(c) PROVE NameInv'
  <2>1. /\ up' = [up EXCEPT ![c] = "down"] /\ cpc' = [cpc EXCEPT ![c] = "idle"]
        /\ uuidMap' = [uuidMap EXCEPT ![c] = NoMap] /\ up[c] # "down"
        /\ UNCHANGED <<uuidFile, names>>
        /\ torn' = IF cpc[c] = "store" THEN torn \union {c} ELSE torn
    BY <1>6 DEF ClientCrash
  <2> QED BY <2>1, NoMapType DEF NameInv, Naming, OwnName, TypeOK
<1>7. ASSUME NEW c \in Clients, NEW i \in Ids, AddDevice(c, i) PROVE NameInv'
  <2>0. up[c] # "down" /\ UNCHANGED <<up, names, torn>>
    BY <1>7 DEF AddDevice
  <2>1. CASE /\ UNCHANGED <<uuidMap, uuidFile>>
             /\ cpc' = [cpc EXCEPT ![c] = "announce"] /\ cpc[c] = "idle"
    BY <2>0, <2>1 DEF NameInv, Naming, OwnName, TypeOK
  <2>2. ASSUME NEW u \in AllUuids, uuidMap' = [uuidMap EXCEPT ![c] = With(@, i, u)],
               i \in Passed => u = i, i \notin Passed => i \notin DOMAIN uuidMap[c],
               uuidFile' = [uuidFile EXCEPT ![c] = NoMap],
               cpc' = [cpc EXCEPT ![c] = "store"]
        PROVE NameInv'
    <3> DEFINE m == With(uuidMap[c], i, u)
    <3>8. uuidMap[c] \in UuidMaps
      BY DEF TypeOK
    <3>1. /\ DOMAIN m = DOMAIN uuidMap[c] \union {i}
          /\ m[i] = u
          /\ \A j \in DOMAIN uuidMap[c] : j # i => m[j] = uuidMap[c][j]
      BY <3>8, WithMap
    <3>2. i \in DOMAIN uuidMap[c] => uuidMap[c][i] = u
      BY <2>2 DEF NameInv, OwnName
    <3>3. OwnName(m) /\ OwnName(NoMap)
      <4> HIDE DEF m
      <4> QED BY <2>2, <3>1, NoMapType DEF NameInv, OwnName
    <3>4. \A j \in DOMAIN uuidMap[c] : j \in DOMAIN m /\ m[j] = uuidMap[c][j]
      <4> HIDE DEF m
      <4> QED BY <3>1, <3>2
    <3>5. uuidMap' = [uuidMap EXCEPT ![c] = m]
      BY <2>2
    <3> HIDE DEF m
    <3> QED BY <2>0, <2>2, <3>3, <3>4, <3>5 DEF NameInv, Naming, OwnName, TypeOK
  <2> QED BY <1>7, <2>1, <2>2 DEF AddDevice, AllUuids
<1>8. ASSUME NEW c \in Clients, NEW i \in Ids, RemoveDevice(c, i) PROVE NameInv'
  BY <1>8, NameUnchanged DEF RemoveDevice
<1>9. ASSUME NEW c \in Clients, NEW i \in Ids, NEW l \in Levels, EmitState(c, i, l)
      PROVE NameInv'
  BY <1>9, NameUnchanged DEF EmitState
<1>10. CASE ResolverStart \/ ResolverRun \/ ResolverCrash \/ Discover
  BY <1>10, NameUnchanged DEF ResolverStart, ResolverRun, ResolverCrash, Discover
<1>11. CASE HandleAnnounce \/ HandleRemove \/ HandleState \/ HandleDiscover
  BY <1>11, NameUnchanged DEF HandleAnnounce, HandleRemove, HandleState, HandleDiscover
<1>12. ASSUME NEW u \in AllUuids, Lookup(u) PROVE NameInv'
  BY <1>12, NameUnchanged DEF Lookup
<1>13. CASE UNCHANGED vars
  BY <1>13, NameUnchanged DEF vars
<1> QED
  BY <1>1, <1>2, <1>3, <1>4, <1>5, <1>6, <1>7, <1>8, <1>9, <1>10, <1>11, <1>12, <1>13, Cases

\* One name, or none.
LEMMA AtMostOne ==
    ASSUME NEW S, NEW x, S \subseteq {x}
    PROVE  Cardinality(S) <= 1
<1>1. S = {} \/ S = {x}
  OBVIOUS
<1>2. Cardinality(S) = 0 \/ Cardinality(S) = 1
  BY <1>1, FS_EmptySet, FS_Singleton
<1> QED BY <1>2

\* A driver never announces a device under a second uuid, however often it is
\* restarted, unless it crashed in the middle of writing its file.
THEOREM NamesKept == Spec => []UuidStable
<1>1. Init => NameInv
  <2> SUFFICES ASSUME Init PROVE NameInv
    OBVIOUS
  <2> QED BY NoMapType DEF Init, NameInv, Naming, OwnName
<1>2. TypeOK /\ AddingInv /\ NameInv /\ [Next]_vars => (TypeOK /\ AddingInv /\ NameInv)'
  BY TypeStep, NameStep
<1>3. NameInv => UuidStable
  <2> SUFFICES ASSUME NameInv, NEW c \in Clients, NEW i \in Ids, c \notin torn
               PROVE  Cardinality(names[<<c, i>>]) <= 1
    BY DEF UuidStable
  <2>1. names[<<c, i>>] \subseteq {Naming(c)[i]}
    BY DEF NameInv
  <2> QED BY <2>1, AtMostOne
<1>4. Init => TypeOK /\ AddingInv
  BY InitType
<1> QED BY <1>1, <1>2, <1>3, <1>4, PTL DEF Spec

-----------------------------------------------------------------------------
(* The entries of the resolver.                                            *)

\* Void entries and entries without values come from a lookup only.
AskedInv ==
    \A u \in DOMAIN inventory :
        inventory[u] = Void \/ ~ inventory[u].hasValues => u \in asked

LEMMA AskedStep == ASSUME TypeOK, AskedInv, [Next]_vars PROVE AskedInv'
<1> USE DEF clientVars, resolverVars, histVars
<1>1. ASSUME UNCHANGED <<inventory, asked>> PROVE AskedInv'
  BY <1>1 DEF AskedInv
<1>2. ASSUME NEW c \in Clients,
             \/ ClientStart(c) \/ ClientRun(c) \/ StoreUuidMap(c) \/ AnnounceNew(c)
             \/ ReportDevices(c) \/ ClientCrash(c)
             \/ \E i \in Ids : \/ AddDevice(c, i) \/ RemoveDevice(c, i)
                               \/ \E l \in Levels : EmitState(c, i, l)
      PROVE AskedInv'
  BY <1>1, <1>2 DEF ClientStart, ClientRun, StoreUuidMap, AnnounceNew, ReportDevices,
     ClientCrash, AddDevice, RemoveDevice, EmitState
<1>3. CASE ResolverStart \/ ResolverCrash
  BY <1>3 DEF ResolverStart, ResolverCrash, AskedInv
<1>4. CASE ResolverRun \/ Discover \/ HandleDiscover \/ UNCHANGED vars
  BY <1>1, <1>4 DEF ResolverRun, Discover, HandleDiscover, vars
<1>5. CASE HandleAnnounce
  <2> DEFINE u == Head(rqueue).uuid
  <2>1. inventory' = With(inventory, u, Announced(u)) /\ asked' = asked
    BY <1>5 DEF HandleAnnounce
  <2> HIDE DEF u
  <2>2. Announced(u) # Void
    BY AnnouncedType, VoidIsNoEntry
  <2>3. u \notin DOMAIN inventory => Announced(u).hasValues
    BY DEF Announced
  <2>4. u \in DOMAIN inventory /\ ~ Announced(u).hasValues => u \in asked
    BY DEF Announced, AskedInv
  <2> QED BY <2>1, <2>2, <2>3, <2>4 DEF AskedInv, With
<1>6. CASE HandleRemove
  BY <1>6 DEF HandleRemove, AskedInv, Restrict
<1>7. CASE HandleState
  <2> DEFINE u == Head(rqueue).uuid
  <2>1. \/ inventory' = inventory
        \/ Listed(u) /\ inventory' = [inventory EXCEPT ![u].state = Head(rqueue).level]
    BY <1>7 DEF HandleState
  <2>2. asked' = asked
    BY <1>7 DEF HandleState
  <2> HIDE DEF u
  <2>3. CASE Listed(u) /\ inventory' = [inventory EXCEPT ![u].state = Head(rqueue).level]
    <3>1. inventory[u] \in Entry
      BY <2>3 DEF Listed, TypeOK
    <3>2. inventory'[u].hasValues = inventory[u].hasValues
      BY <2>3, <3>1 DEF Listed, Entry
    <3>3. DOMAIN inventory' = DOMAIN inventory
          /\ \A v \in DOMAIN inventory : v # u => inventory'[v] = inventory[v]
      BY <2>3
    <3>4. ~ inventory[u].hasValues => u \in asked
      BY <2>3 DEF Listed, AskedInv
    <3>5. inventory'[u] \in Entry
      <4>1. Head(rqueue).level \in Levels
        BY <1>7, StateMessage DEF HandleState
      <4>2. inventory'[u] = [inventory[u] EXCEPT !.state = Head(rqueue).level]
        BY <2>3 DEF Listed
      <4> QED BY <3>1, <4>1, <4>2 DEF Entry
    <3>6. inventory'[u] # Void
      BY <3>5, VoidIsNoEntry
    <3> QED BY <2>2, <3>2, <3>3, <3>4, <3>6 DEF AskedInv
  <2> QED BY <1>1, <2>1, <2>2, <2>3
<1>8. ASSUME NEW u \in AllUuids, Lookup(u) PROVE AskedInv'
  BY <1>8 DEF Lookup, Listed, AskedInv, With
<1> QED BY <1>2, <1>3, <1>4, <1>5, <1>6, <1>7, <1>8, Cases

\* Only a lookup that came before the announcement leaves a device without
\* values, deaf to every event about it.
THEOREM OnlyAskedLackValues == Spec => []ValuesUnlessAsked
<1>1. Init => AskedInv
  BY DEF Init, AskedInv
<1>2. TypeOK /\ AddingInv /\ AskedInv /\ [Next]_vars => (TypeOK /\ AddingInv /\ AskedInv)'
  BY TypeStep, AskedStep
<1>3. AskedInv => ValuesUnlessAsked
  BY DEF AskedInv, ValuesUnlessAsked
<1>4. Init => TypeOK /\ AddingInv
  BY InitType
<1> QED BY <1>1, <1>2, <1>3, <1>4, PTL DEF Spec

-----------------------------------------------------------------------------
(* What an announcement leaves alone.                                      *)

LEMMA StateStep ==
    ASSUME TypeOK, [Next]_vars, NEW u \in DOMAIN inventory, Listed(u), Listed(u)',
           inventory'[u].state # inventory[u].state
    PROVE  Receive("state") /\ Head(rqueue).uuid = u
<1> USE DEF clientVars, resolverVars, histVars
<1>1. ASSUME NEW c \in Clients,
             \/ ClientStart(c) \/ ClientRun(c) \/ StoreUuidMap(c) \/ AnnounceNew(c)
             \/ ReportDevices(c) \/ ClientCrash(c)
             \/ \E i \in Ids : \/ AddDevice(c, i) \/ RemoveDevice(c, i)
                               \/ \E l \in Levels : EmitState(c, i, l)
      PROVE inventory' = inventory
  BY <1>1 DEF ClientStart, ClientRun, StoreUuidMap, AnnounceNew, ReportDevices,
     ClientCrash, AddDevice, RemoveDevice, EmitState
<1>2. CASE ResolverStart \/ ResolverCrash
  BY <1>2 DEF ResolverStart, ResolverCrash, Listed
<1>3. CASE ResolverRun \/ Discover \/ HandleDiscover \/ UNCHANGED vars
  BY <1>3 DEF ResolverRun, Discover, HandleDiscover, vars
<1>4. CASE HandleAnnounce
  <2>1. PICK v : v = Head(rqueue).uuid
    OBVIOUS
  <2>2. inventory' = With(inventory, v, Announced(v))
    BY <1>4, <2>1 DEF HandleAnnounce
  <2>3. v = u => Announced(v) = inventory[u]
    BY DEF Listed, Announced
  <2> QED BY <2>2, <2>3 DEF With
<1>5. CASE HandleRemove
  BY <1>5 DEF HandleRemove, Restrict, Listed
<1>6. CASE HandleState
  BY <1>6 DEF HandleState
<1>7. ASSUME NEW v \in AllUuids, Lookup(v) PROVE FALSE
  BY <1>7 DEF Lookup, With, Listed
<1> QED BY <1>1, <1>2, <1>3, <1>4, <1>5, <1>6, <1>7, Cases

\* A listed device keeps its state through every announcement; only an event
\* about it changes it.
THEOREM StatesKept == Spec => AnnounceKeepsState
<1>1. Init => TypeOK /\ AddingInv
  BY InitType
<1>2. TypeOK /\ AddingInv /\ [Next]_vars => (TypeOK /\ AddingInv)'
  BY TypeStep
<1>3. TypeOK /\ [Next]_vars =>
        [\A u \in DOMAIN inventory :
            Listed(u) /\ Listed(u)' /\ inventory'[u].state # inventory[u].state
                => Receive("state") /\ Head(rqueue).uuid = u]_vars
  BY StateStep
<1> QED BY <1>1, <1>2, <1>3, PTL DEF Spec, AnnounceKeepsState

-----------------------------------------------------------------------------
(* Every generated uuid belongs to one device of one driver.               *)

Owns(c, i, u) ==
    \/ i \in DOMAIN uuidMap[c] /\ uuidMap[c][i] = u
    \/ i \in DOMAIN uuidFile[c] /\ uuidFile[c][i] = u
    \/ u \in names[<<c, i>>]

OwnerInv ==
    \A c \in Clients, i \in Ids, u \in AllUuids :
        Owns(c, i, u) =>
            /\ i \in Passed => u = i
            /\ i \notin Passed =>
                  /\ u \in Uuids
                  /\ \A d \in Clients, j \in Ids : Owns(d, j, u) => d = c /\ j = i

\* A step after which no device owns a uuid that it did not own before.
LEMMA OwnerLess ==
    ASSUME OwnerInv,
           \A c \in Clients, i \in Ids, u \in AllUuids : Owns(c, i, u)' => Owns(c, i, u)
    PROVE  OwnerInv'
BY DEF OwnerInv

\* A new uuid is one that no device owns.
LEMMA OwnedTaken ==
    ASSUME TypeOK, NEW c \in Clients, NEW i \in Ids, NEW u, Owns(c, i, u)
    PROVE  u \in Taken
<1>1. CASE i \in DOMAIN uuidMap[c] /\ uuidMap[c][i] = u
  <2>1. u \in Range(uuidMap[c])
    BY <1>1 DEF Range
  <2>2. Range(uuidMap[c]) \subseteq Range(uuidMap[c]) \union Range(uuidFile[c])
    OBVIOUS
  <2> QED BY <2>1, <2>2, Zenon DEF Taken
<1>2. CASE i \in DOMAIN uuidFile[c] /\ uuidFile[c][i] = u
  <2>1. u \in Range(uuidFile[c])
    BY <1>2 DEF Range
  <2>2. Range(uuidFile[c]) \subseteq Range(uuidMap[c]) \union Range(uuidFile[c])
    OBVIOUS
  <2> QED BY <2>1, <2>2, Zenon DEF Taken
<1>3. CASE u \in names[<<c, i>>]
  <2>1. <<c, i>> \in DOMAIN names
    BY DEF TypeOK
  <2>2. names[<<c, i>>] \in Range(names)
    BY <2>1 DEF Range
  <2> QED BY <1>3, <2>2, Zenon DEF Taken
<1> QED BY <1>1, <1>2, <1>3 DEF Owns

LEMMA OwnerStep == ASSUME TypeOK, AddingInv, OwnerInv, [Next]_vars PROVE OwnerInv'
<1> USE DEF clientVars, resolverVars, histVars
<1>1. ASSUME NEW c \in Clients, ClientStart(c) PROVE OwnerInv'
  <2>1. /\ uuidMap' = [uuidMap EXCEPT ![c] = uuidFile[c]]
        /\ UNCHANGED <<uuidFile, names>>
    BY <1>1 DEF ClientStart
  <2>2. \A d \in Clients, i \in Ids, u \in AllUuids : Owns(d, i, u)' => Owns(d, i, u)
    BY <2>1 DEF Owns, TypeOK
  <2> QED BY <2>2, OwnerLess
<1>2. ASSUME NEW c \in Clients, StoreUuidMap(c) PROVE OwnerInv'
  <2>1. /\ uuidFile' = [uuidFile EXCEPT ![c] = uuidMap[c]]
        /\ UNCHANGED <<uuidMap, names>>
    BY <1>2 DEF StoreUuidMap
  <2>2. \A d \in Clients, i \in Ids, u \in AllUuids : Owns(d, i, u)' => Owns(d, i, u)
    BY <2>1 DEF Owns, TypeOK
  <2> QED BY <2>2, OwnerLess
<1>3. ASSUME NEW c \in Clients, AnnounceNew(c) PROVE OwnerInv'
  <2>1. PICK k : k = adding[c]
    OBVIOUS
  <2>2. /\ k \in DOMAIN uuidMap[c] /\ k \in Ids
        /\ names' = [names EXCEPT ![<<c, k>>] = @ \union {uuidMap[c][k]}]
        /\ UNCHANGED <<uuidMap, uuidFile>>
    BY <1>3, <2>1 DEF AnnounceNew, AddingInv, TypeOK
  <2>3. \A d \in Clients, i \in Ids :
            names'[<<d, i>>] = IF d = c /\ i = k THEN names[<<d, i>>] \union {uuidMap[c][k]}
                               ELSE names[<<d, i>>]
    BY <2>2 DEF TypeOK
  <2>4. \A d \in Clients, i \in Ids, u \in AllUuids : Owns(d, i, u)' => Owns(d, i, u)
    BY <2>2, <2>3 DEF Owns
  <2> QED BY <2>4, OwnerLess
<1>4. ASSUME NEW c \in Clients, ClientCrash(c) PROVE OwnerInv'
  <2>1. /\ uuidMap' = [uuidMap EXCEPT ![c] = NoMap]
        /\ UNCHANGED <<uuidFile, names>>
    BY <1>4 DEF ClientCrash
  <2>2. \A d \in Clients, i \in Ids, u \in AllUuids : Owns(d, i, u)' => Owns(d, i, u)
    BY <2>1, NoMapType DEF Owns, TypeOK
  <2> QED BY <2>2, OwnerLess
<1>5. ASSUME NEW c \in Clients, NEW i \in Ids, AddDevice(c, i) PROVE OwnerInv'
  <2>1. CASE UNCHANGED <<uuidMap, uuidFile, names>>
    BY <2>1, OwnerLess DEF Owns
  <2>2. ASSUME NEW u \in AllUuids, uuidMap' = [uuidMap EXCEPT ![c] = With(@, i, u)],
               uuidFile' = [uuidFile EXCEPT ![c] = NoMap], names' = names,
               \/ i \in Passed /\ u = i
               \/ i \notin Passed /\ u \in Uuids \ Taken
        PROVE OwnerInv'
    <3>1. uuidMap[c] \in UuidMaps
      BY DEF TypeOK
    <3>2. /\ DOMAIN With(uuidMap[c], i, u) = DOMAIN uuidMap[c] \union {i}
          /\ With(uuidMap[c], i, u)[i] = u
          /\ \A j \in DOMAIN uuidMap[c] : j # i => With(uuidMap[c], i, u)[j] = uuidMap[c][j]
      BY <3>1, WithMap
    <3>3. \A d \in Clients, j \in Ids, v \in AllUuids :
              Owns(d, j, v)' => Owns(d, j, v) \/ (d = c /\ j = i /\ v = u)
      BY <2>2, <3>2, NoMapType DEF Owns, TypeOK
    <3>4. CASE i \in Passed /\ u = i
      <4>1. u \notin Uuids
        BY <3>4, ConstantsAssumption
      <4>2. ASSUME NEW d \in Clients, NEW j \in Ids, NEW v \in AllUuids, Owns(d, j, v)'
            PROVE  /\ j \in Passed => v = j
                   /\ j \notin Passed =>
                         /\ v \in Uuids
                         /\ \A e \in Clients, k \in Ids : Owns(e, k, v)' => e = d /\ k = j
        <5>1. CASE Owns(d, j, v)
          BY <3>3, <4>1, <5>1 DEF OwnerInv
        <5>2. CASE d = c /\ j = i /\ v = u
          BY <3>4, <5>2
        <5> QED BY <3>3, <4>2, <5>1, <5>2
      <4> QED BY <4>2 DEF OwnerInv
    <3>5. CASE i \notin Passed /\ u \in Uuids \ Taken
      <4>1. \A d \in Clients, j \in Ids : ~ Owns(d, j, u)
        BY <3>5, OwnedTaken
      <4>2. ASSUME NEW d \in Clients, NEW j \in Ids, NEW v \in AllUuids, Owns(d, j, v)'
            PROVE  /\ j \in Passed => v = j
                   /\ j \notin Passed =>
                         /\ v \in Uuids
                         /\ \A e \in Clients, k \in Ids : Owns(e, k, v)' => e = d /\ k = j
        <5>1. CASE Owns(d, j, v)
          BY <3>3, <4>1, <5>1 DEF OwnerInv
        <5>2. CASE d = c /\ j = i /\ v = u
          BY <3>3, <3>5, <4>1, <5>2
        <5> QED BY <3>3, <4>2, <5>1, <5>2
      <4> QED BY <4>2 DEF OwnerInv
    <3> QED BY <2>2, <3>4, <3>5
  <2> QED BY <1>5, <2>1, <2>2, ConstantsAssumption DEF AddDevice, AllUuids
<1>6. CASE UNCHANGED <<uuidMap, uuidFile, names>>
  BY <1>6, OwnerLess DEF Owns
<1>7. ASSUME NEW c \in Clients,
             \/ ClientRun(c) \/ ReportDevices(c)
             \/ \E i \in Ids : RemoveDevice(c, i) \/ \E l \in Levels : EmitState(c, i, l)
      PROVE UNCHANGED <<uuidMap, uuidFile, names>>
  BY <1>7 DEF ClientRun, ReportDevices, RemoveDevice, EmitState
<1>8. ASSUME \/ ResolverStart \/ ResolverRun \/ ResolverCrash \/ Discover
             \/ HandleAnnounce \/ HandleRemove \/ HandleState \/ HandleDiscover
             \/ \E u \in AllUuids : Lookup(u)
             \/ UNCHANGED vars
      PROVE UNCHANGED <<uuidMap, uuidFile, names>>
  BY <1>8 DEF ResolverStart, ResolverRun, ResolverCrash, Discover, HandleAnnounce,
     HandleRemove, HandleState, HandleDiscover, Lookup, vars
<1> QED BY <1>1, <1>2, <1>3, <1>4, <1>5, <1>6, <1>7, <1>8, Cases

-----------------------------------------------------------------------------
(* Removed devices.                                                        *)

\* Whatever is on the way about u ends with its removal, if there is need.
Cleared(u) ==
    /\ Listed(u) => \E m \in 1 .. Len(rqueue) : rqueue[m] = Removal(u)
    /\ \A k \in 1 .. Len(rqueue) :
          rqueue[k] = Announcement(u) =>
              \E m \in k + 1 .. Len(rqueue) : rqueue[m] = Removal(u)

RemovedInv ==
    /\ rup # "run" => rqueue = << >> /\ inventory = << >>
    /\ \A c \in Clients, i \in Ids : <<c, i>> \in removed => i \notin deviceMap[c]
    /\ \A c \in Clients \ torn, i \in Ids \ Passed :
          <<c, i>> \in removed => \A u \in names[<<c, i>>] : Cleared(u)

LEMMA Kinds ==
    /\ \A u : Announcement(u).kind = "announce" /\ Removal(u).kind = "remove"
    /\ \A u, l : StateChange(u, l).kind = "state"
    /\ \A u : Announcement(u).uuid = u /\ Removal(u).uuid = u
    /\ \A u, v : Announcement(u) # Removal(v)
BY DEF Announcement, Removal, StateChange

\* Nothing is on the way, and nothing is listed.
LEMMA ClearedEmpty ==
    ASSUME rqueue = << >>, inventory = << >>, NEW u
    PROVE  Cleared(u)
BY DEF Cleared, Listed

LEMMA ClearedSame ==
    ASSUME NEW u, Cleared(u), UNCHANGED rqueue, Listed(u)' => Listed(u)
    PROVE  Cleared(u)'
BY DEF Cleared

\* More messages, none of them an announcement of u.
LEMMA ClearedMore ==
    ASSUME NEW u, rqueue \in Seq(Message), NEW ms \in Seq(Message), Cleared(u),
           \A k \in 1 .. Len(ms) : ms[k] # Announcement(u),
           rqueue' = rqueue \o ms, UNCHANGED inventory
    PROVE  Cleared(u)'
<1>1. /\ Len(rqueue) \in Nat /\ Len(ms) \in Nat
      /\ Len(rqueue') = Len(rqueue) + Len(ms)
      /\ \A k \in 1 .. Len(rqueue) + Len(ms) :
            rqueue'[k] = IF k <= Len(rqueue) THEN rqueue[k] ELSE ms[k - Len(rqueue)]
  BY ConcatProperties, LenProperties
<1>2. \A k \in 1 .. Len(rqueue) : k \in 1 .. Len(rqueue') /\ rqueue'[k] = rqueue[k]
  BY <1>1
<1>3. Listed(u)' => \E m \in 1 .. Len(rqueue') : rqueue'[m] = Removal(u)
  BY <1>2 DEF Cleared, Listed
<1>4. ASSUME NEW k \in 1 .. Len(rqueue'), rqueue'[k] = Announcement(u)
      PROVE  \E m \in k + 1 .. Len(rqueue') : rqueue'[m] = Removal(u)
  <2>1. k <= Len(rqueue)
    <3> SUFFICES ASSUME ~ (k <= Len(rqueue)) PROVE FALSE
      OBVIOUS
    <3>1. k - Len(rqueue) \in 1 .. Len(ms)
      BY <1>1
    <3> QED BY <1>1, <1>4, <3>1
  <2>2. k \in 1 .. Len(rqueue) /\ rqueue[k] = Announcement(u)
    BY <1>1, <1>2, <1>4, <2>1
  <2>3. PICK m \in k + 1 .. Len(rqueue) : rqueue[m] = Removal(u)
    BY <2>2 DEF Cleared
  <2>4. m \in 1 .. Len(rqueue) /\ m \in k + 1 .. Len(rqueue')
    BY <1>1, <2>2
  <2> QED BY <1>2, <2>3, <2>4
<1> QED BY <1>3, <1>4 DEF Cleared

\* After the removal of u was sent all is well.
LEMMA ClearedByRemoval ==
    ASSUME NEW u, rqueue \in Seq(Message), Removal(u) \in Message,
           rqueue' = rqueue \o <<Removal(u)>>
    PROVE  Cleared(u)'
<1>1. /\ Len(rqueue) \in Nat
      /\ Len(rqueue') = Len(rqueue) + 1
      /\ rqueue'[Len(rqueue) + 1] = Removal(u)
  BY LenProperties
<1>2. ASSUME NEW k \in 1 .. Len(rqueue'), rqueue'[k] = Announcement(u)
      PROVE  Len(rqueue) + 1 \in k + 1 .. Len(rqueue')
  <2>1. k # Len(rqueue) + 1
    BY <1>1, <1>2, Kinds
  <2> QED BY <1>1, <2>1
<1>3. Len(rqueue) + 1 \in 1 .. Len(rqueue')
  BY <1>1
<1> QED BY <1>1, <1>2, <1>3 DEF Cleared

\* One message taken: only the announcement of u lists u, only its removal
\* counts against it.
LEMMA ClearedTaken ==
    ASSUME NEW u, rqueue \in Seq(Message), rqueue # << >>, Cleared(u),
           rqueue' = Tail(rqueue),
           Listed(u)' => Listed(u) \/ Head(rqueue) = Announcement(u),
           Head(rqueue) = Removal(u) => ~ Listed(u)'
    PROVE  Cleared(u)'
<1>1. /\ Len(rqueue) \in Nat \ {0} /\ Head(rqueue) = rqueue[1]
      /\ Len(rqueue') = Len(rqueue) - 1
      /\ \A k \in 1 .. Len(rqueue') : rqueue'[k] = rqueue[k + 1]
  BY HeadTailProperties, EmptySeq
<1>2. Listed(u)' => \E m \in 1 .. Len(rqueue') : rqueue'[m] = Removal(u)
  <2> SUFFICES ASSUME Listed(u)' PROVE \E m \in 1 .. Len(rqueue') : rqueue'[m] = Removal(u)
    OBVIOUS
  <2>1. PICK m \in 2 .. Len(rqueue) : rqueue[m] = Removal(u)
    <3>1. CASE rqueue[1] = Announcement(u)
      <4>1. 1 \in 1 .. Len(rqueue)
        BY <1>1
      <4> QED BY <3>1, <4>1 DEF Cleared
    <3>2. CASE rqueue[1] # Announcement(u)
      <4>1. PICK m \in 1 .. Len(rqueue) : rqueue[m] = Removal(u)
        BY <1>1, <3>2 DEF Cleared
      <4>2. m # 1
        BY <1>1, <4>1
      <4> QED BY <1>1, <4>1, <4>2
    <3> QED BY <3>1, <3>2
  <2>2. m - 1 \in 1 .. Len(rqueue') /\ m - 1 + 1 = m
    BY <1>1
  <2> QED BY <1>1, <2>1, <2>2
<1>3. ASSUME NEW k \in 1 .. Len(rqueue'), rqueue'[k] = Announcement(u)
      PROVE  \E m \in k + 1 .. Len(rqueue') : rqueue'[m] = Removal(u)
  <2>1. k + 1 \in 1 .. Len(rqueue) /\ rqueue[k + 1] = Announcement(u)
    BY <1>1, <1>3
  <2>2. PICK m \in k + 1 + 1 .. Len(rqueue) : rqueue[m] = Removal(u)
    BY <2>1 DEF Cleared
  <2>3. m - 1 \in k + 1 .. Len(rqueue') /\ m - 1 \in 1 .. Len(rqueue') /\ m - 1 + 1 = m
    BY <1>1
  <2> QED BY <1>1, <2>2, <2>3
<1> QED BY <1>2, <1>3 DEF Cleared

\* Another message taken, and one that is no announcement of u put at the end.
LEMMA ClearedTurned ==
    ASSUME NEW u, rqueue \in Seq(Message), rqueue # << >>, Cleared(u), NEW a,
           a # Announcement(u), rqueue' = Append(Tail(rqueue), a), UNCHANGED inventory,
           Head(rqueue) # Announcement(u), Head(rqueue) # Removal(u)
    PROVE  Cleared(u)'
<1>1. /\ Len(rqueue) \in Nat \ {0} /\ Head(rqueue) = rqueue[1]
      /\ Tail(rqueue) \in Seq(Message)
      /\ Len(Tail(rqueue)) = Len(rqueue) - 1
      /\ \A k \in 1 .. Len(rqueue) - 1 : Tail(rqueue)[k] = rqueue[k + 1]
  BY HeadTailProperties, EmptySeq
<1>2. /\ Len(rqueue') = Len(rqueue)
      /\ rqueue'[Len(rqueue)] = a
      /\ \A k \in 1 .. Len(rqueue) - 1 : rqueue'[k] = rqueue[k + 1]
  BY <1>1
<1>3. Listed(u)' => \E m \in 1 .. Len(rqueue') : rqueue'[m] = Removal(u)
  <2> SUFFICES ASSUME Listed(u)' PROVE \E m \in 1 .. Len(rqueue') : rqueue'[m] = Removal(u)
    OBVIOUS
  <2>1. PICK m \in 1 .. Len(rqueue) : rqueue[m] = Removal(u)
    BY DEF Cleared, Listed
  <2>2. m # 1
    BY <1>1, <2>1
  <2>3. m - 1 \in 1 .. Len(rqueue) - 1 /\ m - 1 + 1 = m /\ m - 1 \in 1 .. Len(rqueue')
    BY <1>1, <1>2, <2>2
  <2> QED BY <1>2, <2>1, <2>3
<1>4. ASSUME NEW k \in 1 .. Len(rqueue'), rqueue'[k] = Announcement(u)
      PROVE  \E m \in k + 1 .. Len(rqueue') : rqueue'[m] = Removal(u)
  <2>1. k # Len(rqueue)
    BY <1>2, <1>4
  <2>2. k \in 1 .. Len(rqueue) - 1 /\ k + 1 \in 1 .. Len(rqueue)
    <3>1. k \in 1 .. Len(rqueue) /\ k # Len(rqueue) /\ Len(rqueue) \in Nat
      BY <1>1, <1>2, <2>1
    <3> QED BY <3>1
  <2>3. rqueue[k + 1] = Announcement(u)
    BY <1>2, <1>4, <2>2
  <2>4. PICK m \in k + 1 + 1 .. Len(rqueue) : rqueue[m] = Removal(u)
    BY <2>2, <2>3 DEF Cleared
  <2>5. /\ m - 1 \in k + 1 .. Len(rqueue') /\ m - 1 \in 1 .. Len(rqueue) - 1
        /\ m - 1 + 1 = m
    BY <1>1, <1>2, <2>2
  <2> QED BY <1>2, <2>4, <2>5
<1> QED BY <1>3, <1>4 DEF Cleared

\* What every step owes: a device that stays removed keeps its names, stays out
\* of its driver's map and stays cleared.
LEMMA RemovedKept ==
    ASSUME RemovedInv, torn \subseteq torn', removed' \subseteq removed,
           rup' # "run" => rqueue' = << >> /\ inventory' = << >>,
           \A c \in Clients, i \in Ids :
               <<c, i>> \in removed' => /\ names'[<<c, i>>] = names[<<c, i>>]
                                        /\ i \notin deviceMap'[c],
           \A c \in Clients \ torn, i \in Ids \ Passed : <<c, i>> \in removed' =>
               \A u \in names[<<c, i>>] : Cleared(u) => Cleared(u)'
    PROVE  RemovedInv'
BY DEF RemovedInv

\* The uuid of a device with a generated one, as it was announced.
LEMMA NamedUuid ==
    ASSUME TypeOK, OwnerInv, NEW c \in Clients, NEW i \in Ids \ Passed,
           NEW u \in names[<<c, i>>]
    PROVE  /\ u \in Uuids /\ u \in AllUuids
           /\ \A d \in Clients : \A j \in DOMAIN uuidMap[d] :
                 uuidMap[d][j] = u => d = c /\ j = i
<1>1. u \in AllUuids /\ Owns(c, i, u)
  BY DEF TypeOK, Owns
<1>2. u \in Uuids /\ \A d \in Clients, j \in Ids : Owns(d, j, u) => d = c /\ j = i
  BY <1>1 DEF OwnerInv
<1>3. \A d \in Clients : DOMAIN uuidMap[d] \subseteq Ids
  BY MapEntry DEF TypeOK
<1> QED BY <1>1, <1>2, <1>3 DEF Owns

\* A send that announces no removed device.
LEMMA SendClears ==
    ASSUME TypeOK, RemovedInv, NEW ms \in Seq(Message), Send(ms), UNCHANGED inventory,
           NEW u, Cleared(u), \A k \in 1 .. Len(ms) : ms[k] # Announcement(u)
    PROVE  Cleared(u)'
<1>1. CASE rup = "run"
  <2>1. rqueue' = rqueue \o ms /\ rqueue \in Seq(Message)
    BY <1>1 DEF Send, TypeOK
  <2> QED BY <2>1, ClearedMore
<1>2. CASE rup # "run"
  <2>1. UNCHANGED rqueue
    BY <1>2 DEF Send
  <2> QED BY <2>1, ClearedSame DEF Listed
<1> QED BY <1>1, <1>2

LEMMA OneMessage ==
    ASSUME NEW m
    PROVE  Len(<<m>>) = 1 /\ <<m>>[1] = m /\ \A k \in 1 .. Len(<<m>>) : <<m>>[k] = m
OBVIOUS

LEMMA RemovedStep ==
    ASSUME TypeOK, AddingInv, NameInv, OwnerInv, RemovedInv, [Next]_vars
    PROVE  RemovedInv'
<1> USE DEF clientVars, resolverVars, histVars
<1>1. ASSUME UNCHANGED <<rup, rqueue, inventory, deviceMap, names, torn, removed>>
      PROVE RemovedInv'
  <2>1. \A u : Cleared(u) => Cleared(u)'
    BY <1>1 DEF Cleared, Listed
  <2> QED BY <1>1, <2>1 DEF RemovedInv
<1>2. ASSUME NEW c \in Clients,
             \/ ClientStart(c) \/ ClientRun(c) \/ StoreUuidMap(c)
             \/ \E i \in Ids : AddDevice(c, i)
      PROVE RemovedInv'
  BY <1>1, <1>2 DEF ClientStart, ClientRun, StoreUuidMap, AddDevice
<1>3. ASSUME NEW c \in Clients, AnnounceNew(c) PROVE RemovedInv'
  <2>1. PICK k : k = adding[c]
    OBVIOUS
  <2>2. PICK v : v = uuidMap[c][k]
    OBVIOUS
  <2>3. k \in Ids /\ k \in DOMAIN uuidMap[c] /\ v \in AllUuids
    BY <1>3, <2>1, <2>2, MapEntry DEF AnnounceNew, AddingInv, TypeOK
  <2>4. /\ Send(<<Announcement(v)>>)
        /\ deviceMap' = [deviceMap EXCEPT ![c] = @ \union {k}]
        /\ names' = [names EXCEPT ![<<c, k>>] = @ \union {v}]
        /\ removed' = removed \ {<<c, k>>}
        /\ UNCHANGED <<rup, inventory, torn>>
    BY <1>3, <2>1, <2>2 DEF AnnounceNew
  <2>5. <<Announcement(v)>> \in Seq(Message)
    BY <2>3 DEF Announcement, Message
  <2>6. \A d \in Clients, j \in Ids : <<d, j>> \in removed' =>
            names'[<<d, j>>] = names[<<d, j>>] /\ j \notin deviceMap'[d]
    BY <2>3, <2>4 DEF TypeOK, RemovedInv
  <2>7. ASSUME NEW d \in Clients \ torn, NEW j \in Ids \ Passed, <<d, j>> \in removed',
               NEW u \in names[<<d, j>>], Cleared(u)
        PROVE  Cleared(u)'
    <3>1. v # u
      BY <2>2, <2>3, <2>4, <2>7, NamedUuid
    <3>2. Announcement(v) # Announcement(u)
      BY <3>1, Kinds
    <3>3. \A n \in 1 .. Len(<<Announcement(v)>>) : <<Announcement(v)>>[n] # Announcement(u)
      BY <3>2, OneMessage
    <3> QED BY <2>4, <2>5, <2>7, <3>3, SendClears
  <2>8. rup' # "run" => rqueue' = << >> /\ inventory' = << >>
    BY <2>4 DEF Send, RemovedInv
  <2> QED BY <2>4, <2>6, <2>7, <2>8, RemovedKept
<1>4. ASSUME NEW c \in Clients, ReportDevices(c) PROVE RemovedInv'
  <2>1. PICK order \in SetToSeqs(deviceMap[c]) :
            Send([k \in DOMAIN order |-> Announcement(uuidMap[c][order[k]])])
    BY <1>4 DEF ReportDevices
  <2>2. PICK ms : ms = [k \in DOMAIN order |-> Announcement(uuidMap[c][order[k]])]
    OBVIOUS
  <2>3. Cardinality(deviceMap[c]) \in Nat
    BY ConstantsAssumption, FS_Subset, FS_CardinalityType DEF TypeOK
  <2>4. order \in [1..Cardinality(deviceMap[c]) -> deviceMap[c]]
    BY <2>1 DEF SetToSeqs
  <2>5. deviceMap[c] \subseteq DOMAIN uuidMap[c]
    BY DEF TypeOK
  <2>6. ms \in [1..Cardinality(deviceMap[c]) -> Message]
    BY <2>2, <2>4, <2>5, MapEntry DEF Announcement, Message, TypeOK
  <2>7. ms \in Seq(Message) /\ Len(ms) = Cardinality(deviceMap[c])
    BY <2>3, <2>6, FunctionIsSeq
  <2>8. \A k \in 1 .. Len(ms) : \E j \in deviceMap[c] : ms[k] = Announcement(uuidMap[c][j])
    BY <2>2, <2>4, <2>7
  <2>9. Send(ms) /\ UNCHANGED <<rup, inventory, deviceMap, names, torn, removed>>
    BY <1>4, <2>1, <2>2 DEF ReportDevices
  <2>10. ASSUME NEW d \in Clients \ torn, NEW j \in Ids \ Passed, <<d, j>> \in removed',
                NEW u \in names[<<d, j>>], Cleared(u)
         PROVE  Cleared(u)'
    <3>1. \A k \in deviceMap[c] : uuidMap[c][k] # u
      <4>1. j \notin deviceMap[d]
        BY <2>9, <2>10 DEF RemovedInv
      <4> QED BY <2>5, <4>1, NamedUuid
    <3>2. \A k \in 1 .. Len(ms) : ms[k] # Announcement(u)
      BY <2>8, <3>1, Kinds
    <3> QED BY <2>7, <2>9, <2>10, <3>2, SendClears
  <2>11. \A d \in Clients, j \in Ids : <<d, j>> \in removed' =>
             names'[<<d, j>>] = names[<<d, j>>] /\ j \notin deviceMap'[d]
    BY <2>9 DEF RemovedInv
  <2>12. rup' # "run" => rqueue' = << >> /\ inventory' = << >>
    BY <2>9 DEF Send, RemovedInv
  <2> QED BY <2>9, <2>10, <2>11, <2>12, RemovedKept
<1>5. ASSUME NEW c \in Clients, ClientCrash(c) PROVE RemovedInv'
  <2>1. \A u : Cleared(u) => Cleared(u)'
    BY <1>5 DEF ClientCrash, Cleared, Listed
  <2>2. /\ deviceMap' = [deviceMap EXCEPT ![c] = {}] /\ torn \subseteq torn'
        /\ UNCHANGED <<rup, rqueue, inventory, names, removed>>
    BY <1>5 DEF ClientCrash
  <2>3. \A d \in Clients : deviceMap'[d] \subseteq deviceMap[d]
    BY <2>2 DEF TypeOK
  <2> QED BY <2>1, <2>2, <2>3 DEF RemovedInv
<1>6. ASSUME NEW c \in Clients, NEW i \in Ids, RemoveDevice(c, i) PROVE RemovedInv'
  <2>1. PICK v : v = uuidMap[c][i]
    OBVIOUS
  <2>2. /\ Send(<<Removal(v)>>)
        /\ deviceMap' = [deviceMap EXCEPT ![c] = @ \ {i}]
        /\ removed' = removed \union {<<c, i>>}
        /\ UNCHANGED <<rup, inventory, names, torn>>
    BY <1>6, <2>1 DEF RemoveDevice
  <2>3. v \in AllUuids /\ Removal(v) \in Message /\ <<Removal(v)>> \in Seq(Message)
    BY <1>6, <2>1, MapEntry DEF RemoveDevice, TypeOK, Removal, Message
  <2>4. \A d \in Clients, j \in Ids : <<d, j>> \in removed' => j \notin deviceMap'[d]
    BY <2>2 DEF RemovedInv, TypeOK
  <2>5. rup' # "run" => rqueue' = << >> /\ inventory' = << >>
    BY <2>2 DEF Send, RemovedInv
  <2>6. ASSUME NEW u, Cleared(u) PROVE Cleared(u)'
    <3>1. \A n \in 1 .. Len(<<Removal(v)>>) : <<Removal(v)>>[n] # Announcement(u)
      BY Kinds, OneMessage
    <3> QED BY <2>2, <2>3, <2>6, <3>1, SendClears
  <2>7. Cleared(v)'
    <3>1. CASE rup = "run"
      <4>1. rqueue' = rqueue \o <<Removal(v)>> /\ rqueue \in Seq(Message)
        BY <2>2, <3>1 DEF Send, TypeOK
      <4> QED BY <2>3, <4>1, ClearedByRemoval
    <3>2. CASE rup # "run"
      <4>1. rqueue' = << >> /\ inventory' = << >>
        BY <2>2, <2>5, <3>2
      <4> QED BY <4>1 DEF Cleared, Listed
    <3> QED BY <3>1, <3>2
  <2>8. ASSUME NEW d \in Clients \ torn, NEW j \in Ids \ Passed, <<d, j>> \in removed',
               NEW u \in names[<<d, j>>]
        PROVE  Cleared(u)'
    <3>1. CASE d = c /\ j = i
      <4>1. u = v
        BY <1>6, <2>1, <3>1 DEF RemoveDevice, NameInv, Naming
      <4> QED BY <2>7, <4>1
    <3>2. CASE ~ (d = c /\ j = i)
      <4>1. Cleared(u)
        BY <2>2, <2>8, <3>2 DEF RemovedInv
      <4> QED BY <2>6, <4>1
    <3> QED BY <3>1, <3>2
  <2> QED BY <2>2, <2>4, <2>5, <2>8 DEF RemovedInv
<1>7. ASSUME NEW c \in Clients, NEW i \in Ids, NEW l \in Levels, EmitState(c, i, l)
      PROVE RemovedInv'
  <2>1. PICK m : m = StateChange(uuidMap[c][i], l)
    OBVIOUS
  <2>2. m \in Message /\ <<m>> \in Seq(Message) /\ m.kind = "state"
    BY <1>7, <2>1, MapEntry DEF EmitState, TypeOK, StateChange, Message
  <2>3. Send(<<m>>) /\ UNCHANGED <<rup, inventory, deviceMap, names, torn, removed>>
    BY <1>7, <2>1 DEF EmitState
  <2>4. ASSUME NEW u, Cleared(u) PROVE Cleared(u)'
    <3>1. m # Announcement(u)
      BY <2>2, Kinds
    <3>2. \A n \in 1 .. Len(<<m>>) : <<m>>[n] # Announcement(u)
      BY <3>1, OneMessage
    <3> QED BY <2>2, <2>3, <2>4, <3>2, SendClears
  <2>5. rup' # "run" => rqueue' = << >> /\ inventory' = << >>
    BY <2>3 DEF Send, RemovedInv
  <2> QED BY <2>3, <2>4, <2>5 DEF RemovedInv
<1>8. CASE ResolverStart \/ ResolverCrash
  <2>1. /\ rqueue' = << >> /\ inventory' = << >>
        /\ UNCHANGED <<deviceMap, names, torn, removed>>
    BY <1>8 DEF ResolverStart, ResolverCrash, RemovedInv
  <2>2. \A u : Cleared(u)'
    BY <2>1 DEF Cleared, Listed
  <2> QED BY <2>1, <2>2 DEF RemovedInv
<1>9. CASE ResolverRun
  <2>1. \A u : Cleared(u) => Cleared(u)'
    BY <1>9 DEF ResolverRun, Cleared, Listed
  <2> QED BY <1>9, <2>1 DEF ResolverRun, RemovedInv
<1>10. CASE Discover
  <2>1. PICK m : m = [kind |-> "discover"]
    OBVIOUS
  <2>2. <<m>> \in Seq(Message) /\ \A u : m # Announcement(u)
    BY <2>1, Kinds DEF Message
  <2>3. Send(<<m>>) /\ UNCHANGED <<rup, inventory, deviceMap, names, torn, removed>>
    BY <1>10, <2>1 DEF Discover
  <2>4. ASSUME NEW u, Cleared(u) PROVE Cleared(u)'
    <3>1. \A n \in 1 .. Len(<<m>>) : <<m>>[n] # Announcement(u)
      BY <2>2, OneMessage
    <3> QED BY <2>2, <2>3, <2>4, <3>1, SendClears
  <2>5. rup' # "run" => rqueue' = << >> /\ inventory' = << >>
    BY <2>3 DEF Send, RemovedInv
  <2> QED BY <2>3, <2>4, <2>5 DEF RemovedInv
<1>11. CASE HandleAnnounce \/ HandleRemove \/ HandleState
  <2>1. /\ rup = "run" /\ rqueue # << >> /\ rqueue \in Seq(Message)
        /\ rqueue' = Tail(rqueue)
        /\ UNCHANGED <<rup, deviceMap, names, torn, removed>>
    BY <1>11 DEF HandleAnnounce, HandleRemove, HandleState, Receive, TypeOK
  <2>2. PICK m : m = Head(rqueue)
    OBVIOUS
  <2>3. m \in Message
    BY <2>1, <2>2, HeadTail
  <2>4. ASSUME NEW u, Cleared(u) PROVE Cleared(u)'
    <3>1. Listed(u)' => Listed(u) \/ m = Announcement(u)
      <4>1. CASE HandleAnnounce
        <5>1. inventory' = With(inventory, m.uuid, Announced(m.uuid)) /\ m.kind = "announce"
          BY <2>2, <4>1 DEF HandleAnnounce, Receive
        <5>2. m = Announcement(m.uuid)
          BY <2>3, <5>1 DEF Message, Announcement
        <5> QED BY <5>1, <5>2 DEF With, Listed
      <4>2. CASE HandleRemove
        BY <4>2 DEF HandleRemove, Restrict, Listed
      <4>3. CASE HandleState
        <5> DEFINE w == Head(rqueue).uuid
        <5>1. \/ inventory' = inventory
              \/ Listed(w) /\ inventory' = [inventory EXCEPT ![w].state = Head(rqueue).level]
          BY <4>3 DEF HandleState
        <5> HIDE DEF w
        <5> QED BY <5>1 DEF Listed
      <4> QED BY <1>11, <4>1, <4>2, <4>3
    <3>2. m = Removal(u) => ~ Listed(u)'
      <4> SUFFICES ASSUME m = Removal(u) PROVE ~ Listed(u)'
        OBVIOUS
      <4>1. m.kind = "remove" /\ m.uuid = u
        BY Kinds
      <4>2. HandleRemove
        BY <1>11, <2>2, <4>1 DEF HandleAnnounce, HandleState, Receive
      <4> QED BY <2>2, <4>1, <4>2 DEF HandleRemove, Restrict, Listed
    <3> QED BY <2>1, <2>2, <2>4, <3>1, <3>2, ClearedTaken
  <2> QED BY <2>1, <2>4 DEF RemovedInv
<1>12. CASE HandleDiscover
  <2>1. /\ rup = "run" /\ rqueue # << >> /\ rqueue \in Seq(Message)
        /\ rqueue' = Append(Tail(rqueue), Announcement(Controller))
        /\ Head(rqueue).kind = "discover"
        /\ UNCHANGED <<rup, inventory, deviceMap, names, torn, removed>>
    BY <1>12 DEF HandleDiscover, Receive, TypeOK
  <2>2. ASSUME NEW u \in Uuids, Cleared(u) PROVE Cleared(u)'
    <3>1. Announcement(Controller) # Announcement(u)
      BY Kinds, ConstantsAssumption
    <3>2. Head(rqueue) # Announcement(u) /\ Head(rqueue) # Removal(u)
      BY <2>1, Kinds
    <3> QED BY <2>1, <2>2, <3>1, <3>2, ClearedTurned
  <2>3. \A c \in Clients \ torn, i \in Ids \ Passed : \A u \in names[<<c, i>>] : u \in Uuids
    BY NamedUuid
  <2> QED BY <2>1, <2>2, <2>3 DEF RemovedInv
<1>13. ASSUME NEW v \in AllUuids, Lookup(v) PROVE RemovedInv'
  <2>1. \A u : Cleared(u) => Cleared(u)'
    <3>1. \A u : Listed(u)' => Listed(u)
      BY <1>13 DEF Lookup, With, Listed
    <3> QED BY <1>13, <3>1 DEF Lookup, Cleared
  <2>2. rup = "run" /\ UNCHANGED <<rup, deviceMap, names, torn, removed>>
    BY <1>13 DEF Lookup
  <2> QED BY <2>1, <2>2 DEF RemovedInv
<1>14. CASE UNCHANGED vars
  BY <1>1, <1>14 DEF vars
<1> QED
  BY <1>2, <1>3, <1>4, <1>5, <1>6, <1>7, <1>8, <1>9, <1>10, <1>11, <1>12, <1>13, <1>14, Cases

\* A device that was removed is off the list for good once every message about
\* it was handled: no answer to a discover command, of this run of its driver
\* or of a later one, brings it back.
THEOREM RemovedStayOff == Spec => []RemovedNotListed
<1>1. Init => TypeOK /\ AddingInv /\ NameInv /\ OwnerInv /\ RemovedInv
  <2> SUFFICES ASSUME Init PROVE NameInv /\ OwnerInv /\ RemovedInv
    BY InitType
  <2>1. \A c \in Clients, i \in Ids : \A u : ~ Owns(c, i, u)
    BY NoMapType DEF Init, Owns
  <2>2. NameInv
    BY NoMapType DEF Init, NameInv, Naming, OwnName
  <2> QED BY <2>1, <2>2 DEF Init, OwnerInv, RemovedInv
<1>2. TypeOK /\ AddingInv /\ NameInv /\ OwnerInv /\ RemovedInv /\ [Next]_vars
        => (TypeOK /\ AddingInv /\ NameInv /\ OwnerInv /\ RemovedInv)'
  BY TypeStep, NameStep, OwnerStep, RemovedStep
<1>3. TypeOK /\ RemovedInv => RemovedNotListed
  <2> SUFFICES ASSUME TypeOK, RemovedInv, NEW c \in Clients, NEW i \in Ids \ Passed,
                      <<c, i>> \in removed, NEW u \in names[<<c, i>>],
                      ~ Pending(u), c \notin torn
               PROVE  ~ Listed(u)
    BY DEF RemovedNotListed
  <2>1. Cleared(u)
    BY DEF RemovedInv
  <2>2. \A m \in 1 .. Len(rqueue) : rqueue[m] # Removal(u)
    <3>1. DOMAIN rqueue = 1 .. Len(rqueue)
      BY LenProperties DEF TypeOK
    <3> QED BY <3>1, Kinds DEF Pending
  <2> QED BY <2>1, <2>2 DEF Cleared
<1> QED BY <1>1, <1>2, <1>3, PTL DEF Spec
=============================================================================

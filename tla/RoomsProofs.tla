------------------------------ MODULE RoomsProofs ------------------------------
(***************************************************************************)
(* Proofs about Rooms, for any number of devices, rooms, floorplans and    *)
(* commands: the types, the room shown from memory, and, when no other     *)
(* process uses the database, that the tables implement RoomBook.          *)
(***************************************************************************)
EXTENDS Rooms, TLAPS

-----------------------------------------------------------------------------
(* Rows and tables.                                                        *)

RoomNames == Names \union {Empty}

LEMMA AppendRow ==
    ASSUME NEW S, NEW s \in Seq(S), NEW e \in S
    PROVE  /\ Append(s, e) \in Seq(S)
           /\ Append(s, e) # << >>
           /\ Append(s, e)[Len(Append(s, e))] = e
           /\ Len(Append(s, e)) = Len(s) + 1
OBVIOUS

\* An update changes the rows of a table in place.
LEMMA UpdateRows ==
    ASSUME NEW S, NEW s \in Seq(S), NEW T, NEW t, t = [i \in DOMAIN s |-> t[i]],
           \A i \in DOMAIN s : t[i] \in T
    PROVE  /\ t \in Seq(T)
           /\ Len(t) = Len(s)
           /\ s # << >> => t # << >> /\ Len(t) \in DOMAIN s /\ 1 \in DOMAIN s
           /\ s = << >> => t = << >>
<1>1. Len(s) \in Nat /\ DOMAIN s = 1..Len(s)
  OBVIOUS
<1>2. t \in [1..Len(s) -> T]
  BY <1>1
<1>3. t \in Seq(T) /\ Len(t) = Len(s)
  BY <1>1, <1>2
<1>4. s # << >> => Len(s) > 0
  OBVIOUS
<1>5. s # << >> => t # << >> /\ Len(t) \in DOMAIN s /\ 1 \in DOMAIN s
  BY <1>1, <1>3, <1>4
<1>6. s = << >> => Len(t) = 0
  BY <1>3
<1>7. Len(t) = 0 => t = << >>
  BY <1>3
<1> QED BY <1>3, <1>5, <1>6, <1>7

LEMMA NamedRows ==
    ASSUME NEW rows \in Seq(RoomNames), NEW n \in RoomNames
    PROVE  Named(rows, n) \in Seq(RoomNames) /\ Named(rows, n) # << >> /\ Shown(Named(rows, n)) = n
<1>1. CASE First(rows) = Empty
  BY <1>1, AppendRow DEF Named, Shown
<1>2. CASE First(rows) # Empty
  <2> DEFINE t == Rename(rows, n)
  <2>1. rows # << >>
    BY <1>2 DEF First
  <2>2. t = [i \in DOMAIN rows |-> t[i]] /\ \A i \in DOMAIN rows : t[i] = n
    BY DEF Rename
  <2> HIDE DEF t
  <2>3. t \in Seq(RoomNames) /\ t # << >> /\ Len(t) \in DOMAIN rows
    BY <2>1, <2>2, UpdateRows
  <2> QED BY <1>2, <2>2, <2>3 DEF Named, Shown, t
<1> QED BY <1>1, <1>2

LEMMA RowNames ==
    ASSUME NEW rows \in Seq(DeviceRow), NEW n \in Names
    PROVE  /\ DeviceRows(rows, n) \in Seq(DeviceRow)
           /\ DeviceRows(rows, n) # << >>
           /\ DeviceRows(rows, n)[1].name = n
           /\ DeviceRows(rows, n)[1].room = (IF rows = << >> THEN Empty ELSE rows[1].room)
           /\ Len(rows) <= 1 => Len(DeviceRows(rows, n)) <= 1
<1>1. CASE rows = << >>
  <2> DEFINE row == [name |-> n, room |-> Empty]
  <2>1. row \in DeviceRow /\ row.name = n /\ row.room = Empty
    BY DEF DeviceRow, Places
  <2> HIDE DEF row
  <2>2. <<row>> \in Seq(DeviceRow) /\ <<row>> # << >> /\ <<row>>[1] = row /\ Len(<<row>>) = 1
    BY <2>1
  <2> QED BY <1>1, <2>1, <2>2 DEF DeviceRows, row
<1>2. CASE rows # << >>
  <2> DEFINE t == DeviceRows(rows, n)
  <2>1. t = [i \in DOMAIN rows |-> [rows[i] EXCEPT !.name = n]]
    BY <1>2 DEF DeviceRows
  <2>2. t = [i \in DOMAIN rows |-> t[i]]
    BY <2>1
  <2>3. \A i \in DOMAIN rows : rows[i] \in DeviceRow
    OBVIOUS
  <2>4. \A i \in DOMAIN rows : t[i] \in DeviceRow /\ t[i].name = n /\ t[i].room = rows[i].room
    BY <2>1, <2>3 DEF DeviceRow
  <2> HIDE DEF t
  <2>5. t \in Seq(DeviceRow) /\ t # << >> /\ Len(t) = Len(rows) /\ 1 \in DOMAIN rows
    BY <1>2, <2>2, <2>4, UpdateRows
  <2> QED BY <1>2, <2>4, <2>5 DEF t
<1> QED BY <1>1, <1>2

LEMMA VacatedRows ==
    ASSUME NEW rows \in Seq(DeviceRow), NEW r \in RoomIds
    PROVE  /\ Vacated(rows, r) \in Seq(DeviceRow)
           /\ Len(Vacated(rows, r)) = Len(rows)
           /\ rows = << >> <=> Vacated(rows, r) = << >>
           /\ rows # << >> =>
                /\ Vacated(rows, r)[1].name = rows[1].name
                /\ Vacated(rows, r)[1].room = (IF rows[1].room = r THEN Empty ELSE rows[1].room)
<1> DEFINE t == Vacated(rows, r)
<1>1. t = [i \in DOMAIN rows |->
             IF rows[i].room = r THEN [rows[i] EXCEPT !.room = Empty] ELSE rows[i]]
  BY DEF Vacated
<1>2. t = [i \in DOMAIN rows |-> t[i]]
  BY <1>1
<1>3. \A i \in DOMAIN rows : rows[i] \in DeviceRow
  OBVIOUS
<1>4. \A i \in DOMAIN rows :
        /\ t[i] \in DeviceRow /\ t[i].name = rows[i].name
        /\ t[i].room = (IF rows[i].room = r THEN Empty ELSE rows[i].room)
  BY <1>1, <1>3 DEF DeviceRow, Places
<1> HIDE DEF t
<1>5. /\ t \in Seq(DeviceRow) /\ Len(t) = Len(rows)
      /\ rows # << >> => t # << >> /\ 1 \in DOMAIN rows
      /\ rows = << >> => t = << >>
  BY <1>2, <1>4, UpdateRows
<1> QED BY <1>4, <1>5 DEF t

\* setdeviceroom on the rows of a device.
Moved(rows, r) == [i \in DOMAIN rows |-> [rows[i] EXCEPT !.room = r]]

LEMMA MovedRows ==
    ASSUME NEW rows \in Seq(DeviceRow), NEW r \in Places
    PROVE  /\ Moved(rows, r) \in Seq(DeviceRow)
           /\ Len(Moved(rows, r)) = Len(rows)
           /\ rows = << >> <=> Moved(rows, r) = << >>
           /\ rows # << >> => Moved(rows, r)[1].name = rows[1].name /\ Moved(rows, r)[1].room = r
<1> DEFINE t == Moved(rows, r)
<1>1. t = [i \in DOMAIN rows |-> [rows[i] EXCEPT !.room = r]]
  BY DEF Moved
<1>2. t = [i \in DOMAIN rows |-> t[i]]
  BY <1>1
<1>3. \A i \in DOMAIN rows : rows[i] \in DeviceRow
  OBVIOUS
<1>4. \A i \in DOMAIN rows : t[i] \in DeviceRow /\ t[i].name = rows[i].name /\ t[i].room = r
  BY <1>1, <1>3 DEF DeviceRow
<1> HIDE DEF t
<1>5. /\ t \in Seq(DeviceRow) /\ Len(t) = Len(rows)
      /\ rows # << >> => t # << >> /\ 1 \in DOMAIN rows
      /\ rows = << >> => t = << >>
  BY <1>2, <1>4, UpdateRows
<1> QED BY <1>4, <1>5 DEF t

-----------------------------------------------------------------------------
(* Statements keep the database a database.                                *)

DbType ==
    /\ disk \in Database
    /\ tx \in Database \union {Closed}
    /\ locked \in BOOLEAN
    /\ tx = Closed => ~locked

LEMMA ClosedIsNoDatabase == Closed \notin Database
BY RoomsAssumption

LEMMA ViewType == ASSUME DbType PROVE View \in Database
BY DEF DbType, View

LEMMA RoomsUpdate ==
    ASSUME NEW db \in Database, NEW r \in RoomIds, NEW rows \in Seq(RoomNames)
    PROVE  [db EXCEPT !.rooms[r] = rows] \in Database
BY DEF Database, RoomNames

LEMMA PlansUpdate ==
    ASSUME NEW db \in Database, NEW p \in Plans, NEW rows \in Seq(RoomNames)
    PROVE  [db EXCEPT !.plans[p] = rows] \in Database
BY DEF Database, RoomNames

LEMMA DevicesUpdate ==
    ASSUME NEW db \in Database, NEW d \in Devices, NEW rows \in Seq(DeviceRow)
    PROVE  [db EXCEPT !.devices[d] = rows] \in Database
BY DEF Database

LEMMA AllDevicesUpdate ==
    ASSUME NEW db \in Database, NEW devices \in [Devices -> Seq(DeviceRow)]
    PROVE  [db EXCEPT !.devices = devices] \in Database
BY DEF Database

LEMMA PlacedUpdate ==
    ASSUME NEW db \in Database, NEW placed \in SUBSET (Plans \X Devices)
    PROVE  [db EXCEPT !.placed = placed] \in Database
BY DEF Database

LEMMA WriteType ==
    ASSUME DbType, NEW db \in Database, Write(db) \/ Busy
    PROVE  DbType' /\ (tx' = Closed <=> tx = Closed)
<1>1. CASE Write(db)
  BY <1>1, ClosedIsNoDatabase DEF DbType, Write
<1>2. CASE Busy
  BY <1>2 DEF DbType, Busy, dbVars
<1> QED BY <1>1, <1>2

LEMMA BeginType == ASSUME DbType, Begin PROVE DbType' /\ tx' # Closed
BY ViewType, ClosedIsNoDatabase DEF DbType, Begin

LEMMA EndType ==
    ASSUME DbType, tx # Closed, Rollback \/ Commit
    PROVE  DbType'
<1>1. CASE Rollback
  BY <1>1 DEF DbType, Rollback
<1>2. CASE Commit
  BY <1>2 DEF DbType, Commit, dbVars
<1> QED BY <1>1, <1>2

LEMMA RowTypes ==
    ASSUME NEW db \in Database
    PROVE  /\ \A d \in Devices : /\ db.devices[d] \in Seq(DeviceRow)
                                 /\ NameOf(db, d) \in RoomNames
                                 /\ RoomOf(db, d) \in Places
                                 /\ CardOf(db, d) \in Card
           /\ \A r \in RoomIds : db.rooms[r] \in Seq(RoomNames)
           /\ \A p \in Plans : db.plans[p] \in Seq(RoomNames)
           /\ db.placed \subseteq Plans \X Devices
<1>1. ASSUME NEW d \in Devices
      PROVE  /\ db.devices[d] \in Seq(DeviceRow)
             /\ NameOf(db, d) \in RoomNames
             /\ RoomOf(db, d) \in Places
  <2>1. db.devices[d] \in Seq(DeviceRow)
    BY DEF Database
  <2>2. db.devices[d] # << >> => db.devices[d][1] \in DeviceRow
    BY <2>1
  <2> QED BY <2>1, <2>2 DEF NameOf, RoomOf, DeviceRow, Places, RoomNames
<1>2. \A d \in Devices : CardOf(db, d) \in Card
  BY <1>1 DEF CardOf, Card, RoomNames
<1> QED BY <1>1, <1>2 DEF Database, RoomNames

-----------------------------------------------------------------------------
(* Types.                                                                  *)

Deleting == {"unassign", "deleteRoom", "endRoom", "unplace", "deletePlan", "endPlan"}

RestType ==
    /\ up \in BOOLEAN
    /\ pc \in Steps
    /\ target \in Devices \union RoomIds \union Plans \union {Empty}
    /\ pc \in {"cacheName", "cacheRoom"} => target \in Devices
    /\ pc \in {"unassign", "deleteRoom", "endRoom"} => target \in RoomIds
    /\ pc \in {"unplace", "deletePlan", "endPlan"} => target \in Plans
    /\ cache \in Cards
    /\ file \in Cards
    /\ commands \in 0..MaxCommands
    /\ crashes \in 0..MaxCrashes

\* The transaction of a delete is open; what it commits is a database.
Inv == DbType /\ RestType /\ (pc \in Deleting => tx # Closed)

LEMMA TypeParts == Inv => TypeOK
BY DEF Inv, TypeOK, DbType, RestType

LEMMA InCards ==
    ASSUME NEW S \in SUBSET Devices, NEW f \in [S -> Card] PROVE f \in Cards
BY DEF Cards

LEMMA OfCards ==
    ASSUME NEW f \in Cards
    PROVE  DOMAIN f \subseteq Devices /\ f \in [DOMAIN f -> Card]
BY DEF Cards

LEMMA InitInv == Init => Inv
<1> SUFFICES ASSUME Init PROVE Inv
  OBVIOUS
<1> USE DEF Init
<1>1. DbType
  <2>1. \A S : << >> \in Seq(S)
    OBVIOUS
  <2>2. disk \in Database
    BY <2>1 DEF Database
  <2> QED BY <2>2 DEF DbType
<1>2. << >> \in Cards
  <2>1. << >> \in [{} -> Card]
    OBVIOUS
  <2> QED BY <2>1, InCards
<1>3. RestType
  BY <1>2, RoomsAssumption DEF RestType, Steps
<1> QED BY <1>1, <1>3 DEF Inv, Deleting

\* A command that waits leaves the process where it is; one that goes on
\* does so at a step that fits its uuid.
LEMMA ReceiveType ==
    ASSUME RestType, Receive, UNCHANGED <<up, crashes>>,
           \/ Stay
           \/ \E d \in Devices : Goto("cacheName", d) \/ Goto("cacheRoom", d)
           \/ \E r \in RoomIds : Goto("unassign", r)
           \/ \E p \in Plans : Goto("unplace", p)
    PROVE  RestType'
<1>1. commands' \in 0..MaxCommands
  BY RoomsAssumption DEF Receive, RestType
<1>2. CASE Stay
  BY <1>1, <1>2 DEF Stay, RestType
<1>3. CASE \E d \in Devices : Goto("cacheName", d) \/ Goto("cacheRoom", d)
  BY <1>1, <1>3 DEF Goto, RestType, Steps
<1>4. CASE \E r \in RoomIds : Goto("unassign", r)
  BY <1>1, <1>4 DEF Goto, RestType, Steps
<1>5. CASE \E p \in Plans : Goto("unplace", p)
  BY <1>1, <1>5 DEF Goto, RestType, Steps
<1> QED BY <1>2, <1>3, <1>4, <1>5

LEMMA Cases ==
    ASSUME [Next]_vars
    PROVE  \/ \E r \in RoomIds, n \in RoomNames : SetRoomName(r, n)
           \/ \E p \in Plans, n \in RoomNames : SetFloorplanName(p, n)
           \/ \E d \in Devices, p \in Plans : SetDeviceFloorplan(d, p)
           \/ \E d \in Devices, n \in Names : SetDeviceName(d, n)
           \/ \E d \in Devices : ForgetDevice(d)
           \/ \E d \in Devices, r \in Places : SetDeviceRoom(d, r)
           \/ \E r \in RoomIds : DeleteRoom(r)
           \/ \E p \in Plans : DeleteFloorplan(p)
           \/ CacheName \/ CacheRoom
           \/ Unassign \/ DeleteRoomRows \/ EndRoom
           \/ Unplace \/ DeletePlanRows \/ EndPlan
           \/ \E d \in Devices : Announce(d) \/ RemoveDevice(d)
           \/ Crash \/ Restart
           \/ UNCHANGED vars
BY DEF Next, Command, Continue, RoomNames

LEMMA TypeStep == ASSUME Inv, [Next]_vars PROVE Inv'
<1>0. DbType /\ RestType /\ View \in Database /\ (pc \in Deleting => tx # Closed)
  BY ViewType DEF Inv
<1>a. ASSUME Receive, UNCHANGED <<up, crashes>>, DbType',
             \/ Stay
             \/ \E d \in Devices : Goto("cacheName", d) \/ Goto("cacheRoom", d)
      PROVE  Inv'
  <2>1. RestType'
    BY <1>0, <1>a, ReceiveType
  <2>2. pc' \notin Deleting
    BY <1>0, <1>a DEF Receive, Stay, Goto, Deleting
  <2> QED BY <1>a, <2>1, <2>2 DEF Inv
<1>b. ASSUME NEW db \in Database, Write(db) \/ Busy PROVE DbType' /\ (tx' = Closed <=> tx = Closed)
  BY <1>0, <1>b, WriteType
<1>1. ASSUME NEW r \in RoomIds, NEW n \in RoomNames, SetRoomName(r, n) PROVE Inv'
  <2>1. [View EXCEPT !.rooms[r] = Named(View.rooms[r], n)] \in Database
    BY <1>0, RowTypes, NamedRows, RoomsUpdate
  <2> QED BY <1>1, <1>a, <1>b, <2>1 DEF SetRoomName
<1>2. ASSUME NEW p \in Plans, NEW n \in RoomNames, SetFloorplanName(p, n) PROVE Inv'
  <2>1. [View EXCEPT !.plans[p] = Named(View.plans[p], n)] \in Database
    BY <1>0, RowTypes, NamedRows, PlansUpdate
  <2> QED BY <1>2, <1>a, <1>b, <2>1 DEF SetFloorplanName
<1>3. ASSUME NEW d \in Devices, NEW p \in Plans, SetDeviceFloorplan(d, p) PROVE Inv'
  <2> DEFINE more == View.placed \union {<<p, d>>}
  <2>0. more \in SUBSET (Plans \X Devices)
    BY <1>0, RowTypes
  <2>1. [View EXCEPT !.placed = more] \in Database
    BY <1>0, <2>0, PlacedUpdate
  <2> QED BY <1>3, <1>a, <1>b, <2>1 DEF SetDeviceFloorplan
<1>4. ASSUME NEW d \in Devices, NEW n \in Names, SetDeviceName(d, n) PROVE Inv'
  <2>1. [View EXCEPT !.devices[d] = DeviceRows(View.devices[d], n)] \in Database
    BY <1>0, RowTypes, RowNames, DevicesUpdate
  <2> QED BY <1>4, <1>a, <1>b, <2>1 DEF SetDeviceName
<1>5. ASSUME NEW d \in Devices, ForgetDevice(d) PROVE Inv'
  <2>0. << >> \in Seq(DeviceRow)
    OBVIOUS
  <2>1. [View EXCEPT !.devices[d] = << >>] \in Database
    BY <1>0, <2>0, DevicesUpdate
  <2> QED BY <1>5, <1>a, <1>b, <2>1 DEF ForgetDevice
<1>6. ASSUME NEW d \in Devices, NEW r \in Places, SetDeviceRoom(d, r) PROVE Inv'
  <2>1. [View EXCEPT !.devices[d] = Moved(View.devices[d], r)] \in Database
    BY <1>0, RowTypes, MovedRows, DevicesUpdate
  <2> QED BY <1>6, <1>a, <1>b, <2>1 DEF SetDeviceRoom, Moved
<1>c. ASSUME Receive, UNCHANGED <<up, crashes>>, Begin,
             (\E r \in RoomIds : Goto("unassign", r)) \/ (\E p \in Plans : Goto("unplace", p))
      PROVE  Inv'
  <2>1. RestType'
    BY <1>0, <1>c, ReceiveType
  <2>2. DbType' /\ tx' # Closed
    BY <1>0, <1>c, BeginType
  <2> QED BY <2>1, <2>2 DEF Inv
<1>7. ASSUME NEW r \in RoomIds, DeleteRoom(r) PROVE Inv'
  BY <1>7, <1>c DEF DeleteRoom
<1>8. ASSUME NEW p \in Plans, DeleteFloorplan(p) PROVE Inv'
  BY <1>8, <1>c DEF DeleteFloorplan
<1>d. ASSUME DbType', tx' = Closed <=> tx = Closed, UNCHANGED <<up, commands, crashes>>,
             \/ pc = "unassign" /\ Goto("deleteRoom", target)
             \/ pc = "deleteRoom" /\ Goto("endRoom", target)
             \/ pc = "unplace" /\ Goto("deletePlan", target)
             \/ pc = "deletePlan" /\ Goto("endPlan", target)
      PROVE  Inv'
  <2>1. RestType'
    BY <1>0, <1>d DEF RestType, Goto, Steps
  <2>2. pc' \in Deleting /\ tx' # Closed
    BY <1>0, <1>d DEF Goto, Deleting
  <2> QED BY <1>d, <2>1, <2>2 DEF Inv
<1>e. ASSUME pc \in {"endRoom", "endPlan"}, Rollback \/ Commit, Goto("idle", target),
             UNCHANGED <<up, commands, crashes>>
      PROVE  Inv'
  <2>1. RestType'
    BY <1>0, <1>e DEF RestType, Goto, Steps
  <2>2. DbType'
    BY <1>0, <1>e, EndType DEF Deleting
  <2>3. pc' \notin Deleting
    BY <1>e DEF Goto, Deleting
  <2> QED BY <2>1, <2>2, <2>3 DEF Inv
<1>9. CASE Unassign
  <2>0. target \in RoomIds
    BY <1>0, <1>9 DEF Unassign, RestType
  <2> DEFINE devices == [d \in Devices |-> Vacated(View.devices[d], target)]
  <2>1. devices \in [Devices -> Seq(DeviceRow)]
    BY <1>0, <2>0, RowTypes, VacatedRows
  <2>2. [View EXCEPT !.devices = devices] \in Database
    BY <1>0, <2>1, AllDevicesUpdate
  <2> QED BY <1>9, <1>b, <1>d, <2>2 DEF Unassign
<1>10. CASE DeleteRoomRows
  <2>0. target \in RoomIds /\ << >> \in Seq(RoomNames)
    BY <1>0, <1>10 DEF DeleteRoomRows, RestType
  <2>1. [View EXCEPT !.rooms[target] = << >>] \in Database
    BY <1>0, <2>0, RoomsUpdate
  <2> QED BY <1>10, <1>b, <1>d, <2>1 DEF DeleteRoomRows
<1>11. CASE EndRoom
  BY <1>11, <1>e DEF EndRoom
<1>12. CASE Unplace
  <2> DEFINE rest == {x \in View.placed : x[1] # target}
  <2>1. rest \in SUBSET (Plans \X Devices)
    BY <1>0, RowTypes
  <2>2. [View EXCEPT !.placed = rest] \in Database
    BY <1>0, <2>1, PlacedUpdate
  <2> QED BY <1>12, <1>b, <1>d, <2>2 DEF Unplace
<1>13. CASE DeletePlanRows
  <2>0. target \in Plans /\ << >> \in Seq(RoomNames)
    BY <1>0, <1>13 DEF DeletePlanRows, RestType
  <2>1. [View EXCEPT !.plans[target] = << >>] \in Database
    BY <1>0, <2>0, PlansUpdate
  <2> QED BY <1>13, <1>b, <1>d, <2>1 DEF DeletePlanRows
<1>14. CASE EndPlan
  BY <1>14, <1>e DEF EndPlan
<1>f. ASSUME UNCHANGED <<dbVars, up, target, crashes>>, pc' = "idle", cache' \in Cards,
             file' \in Cards, commands' \in 0..MaxCommands
      PROVE  Inv'
  <2>1. DbType'
    BY <1>0, <1>f DEF DbType, dbVars
  <2>2. RestType'
    BY <1>0, <1>f DEF RestType, Steps
  <2> QED BY <1>f, <2>1, <2>2 DEF Inv, Deleting
<1>g. ASSUME NEW d \in Devices
      PROVE  NameOf(View, d) \in RoomNames /\ RoomOf(View, d) \in Places /\ CardOf(View, d) \in Card
  BY <1>0, RowTypes
<1>h. cache \in Cards /\ file \in Cards /\ commands \in 0..MaxCommands
      /\ DOMAIN cache \subseteq Devices /\ cache \in [DOMAIN cache -> Card]
  BY <1>0, OfCards DEF RestType
<1>15. CASE CacheName
  <2>1. target \in Devices
    BY <1>0, <1>15 DEF CacheName, RestType
  <2>2. cache' \in [DOMAIN cache -> Card]
    BY <1>15, <1>g, <1>h, <2>1 DEF CacheName, Card, RoomNames
  <2>3. cache' \in Cards
    BY <1>h, <2>2, InCards
  <2> QED BY <1>15, <1>f, <1>h, <2>3 DEF CacheName, Saved
<1>16. CASE CacheRoom
  <2>1. target \in Devices
    BY <1>0, <1>16 DEF CacheRoom, RestType
  <2>2. cache' \in [DOMAIN cache -> Card]
    BY <1>16, <1>g, <1>h, <2>1 DEF CacheRoom, Card
  <2>3. cache' \in Cards
    BY <1>h, <2>2, InCards
  <2> QED BY <1>16, <1>f, <1>h, <2>3 DEF CacheRoom
<1>17. ASSUME NEW d \in Devices, Announce(d) PROVE Inv'
  <2>1. cache' \in [DOMAIN cache \union {d} -> Card]
    BY <1>17, <1>g, <1>h DEF Announce, Cached
  <2>2. cache' \in Cards
    BY <1>h, <2>1, InCards
  <2> QED BY <1>17, <1>f, <1>h, <2>2 DEF Announce, Saved
<1>18. ASSUME NEW d \in Devices, RemoveDevice(d) PROVE Inv'
  <2>1. cache' \in [DOMAIN cache \ {d} -> Card]
    BY <1>18, <1>h DEF RemoveDevice
  <2>2. cache' \in Cards
    BY <1>h, <2>1, InCards
  <2>3. commands' \in 0..MaxCommands
    BY <1>18, <1>h, RoomsAssumption DEF RemoveDevice
  <2> QED BY <1>18, <1>f, <1>h, <2>2, <2>3 DEF RemoveDevice, Saved
<1>i. << >> \in Cards
  <2>1. << >> \in [{} -> Card]
    OBVIOUS
  <2> QED BY <2>1, InCards
<1>19. CASE Crash
  <2>1. DbType'
    BY <1>0, <1>19 DEF DbType, Crash, Rollback
  <2>2. RestType'
    <3>1. crashes' \in 0..MaxCrashes
      BY <1>0, <1>19, RoomsAssumption DEF RestType, Crash
    <3> QED BY <1>0, <1>19, <1>i, <3>1 DEF RestType, Crash, Steps
  <2>3. pc' \notin Deleting
    BY <1>19 DEF Crash, Deleting
  <2> QED BY <2>1, <2>2, <2>3 DEF Inv
<1>20. CASE Restart
  <2>1. DbType'
    BY <1>0, <1>20 DEF DbType, Restart, dbVars
  <2>2. RestType'
    BY <1>0, <1>20, <1>i DEF RestType, Restart
  <2> QED BY <1>0, <1>20, <2>1, <2>2 DEF Inv, Restart, dbVars
<1>21. CASE UNCHANGED vars
  BY <1>0, <1>21 DEF Inv, DbType, RestType, vars, dbVars
<1> QED BY <1>1, <1>2, <1>3, <1>4, <1>5, <1>6, <1>7, <1>8, <1>9, <1>10, <1>11, <1>12, <1>13,
           <1>14, <1>15, <1>16, <1>17, <1>18, <1>19, <1>20, <1>21, Cases

\* The tables, the open transaction, the copies in memory and the place in
\* the command have their types, contended or not.
THEOREM TypeCorrect == Spec => []TypeOK
<1>1. Inv /\ [Next]_vars => Inv'
  BY TypeStep
<1>2. Inv => TypeOK
  BY TypeParts
<1> QED BY <1>1, <1>2, InitInv, PTL DEF Spec

-----------------------------------------------------------------------------
(* What statements do to the database as the resolver reads it.            *)

LEMMA ViewWrite ==
    ASSUME DbType, NEW db \in Database, Write(db)
    PROVE  View' = db /\ (tx # Closed => tx' # Closed /\ locked' /\ disk' = disk)
                      /\ (tx = Closed => tx' = Closed)
BY ClosedIsNoDatabase DEF DbType, Write, View

LEMMA ViewBusy == ASSUME Busy PROVE View' = View /\ tx' = tx /\ disk' = disk /\ ~locked /\ ~locked'
BY DEF Busy, dbVars, View

LEMMA ViewBegin ==
    ASSUME DbType, Begin
    PROVE  View' = View /\ tx' # Closed /\ disk' = disk /\ locked' = locked /\ tx' = View
BY ViewType, ClosedIsNoDatabase DEF Begin, View

LEMMA ViewCommit ==
    ASSUME DbType, tx # Closed, Commit
    PROVE  View' = View /\ (tx' = Closed => disk' = tx) /\ (tx' # Closed => tx' = tx /\ locked' = locked /\ disk' = disk)
BY DEF Commit, View, dbVars

\* A transaction without the write lock has changed nothing; when a delete is
\* about to end, its room or floorplan has no row unless it has no lock.
LockInv ==
    /\ tx # Closed /\ ~locked => tx = disk
    /\ pc = "endRoom" /\ locked => tx.rooms[target] = << >>
    /\ pc = "endPlan" /\ locked => tx.plans[target] = << >>

LEMMA LockStep == ASSUME Inv, LockInv, [Next]_vars PROVE LockInv'
<1>0. DbType /\ RestType /\ View \in Database /\ (pc \in Deleting => tx # Closed)
  BY ViewType DEF Inv
<1>a. ASSUME NEW db \in Database, Write(db) PROVE tx' # Closed /\ ~locked' => tx' = disk'
  BY <1>0, <1>a, ViewWrite DEF Write
<1>b. ASSUME Busy \/ Begin \/ UNCHANGED dbVars PROVE tx' # Closed /\ ~locked' => tx' = disk'
  BY <1>b DEF Busy, Begin, dbVars, LockInv, View
<1>c. ASSUME Rollback \/ (pc \in Deleting /\ Commit) PROVE tx' # Closed /\ ~locked' => tx' = disk'
  BY <1>0, <1>c DEF Rollback, Commit, dbVars, LockInv
<1>d. ASSUME tx' # Closed /\ ~locked' => tx' = disk', pc' \notin {"endRoom", "endPlan"}
      PROVE  LockInv'
  BY <1>d DEF LockInv
<1>1. ASSUME NEW r \in RoomIds, NEW n \in RoomNames, SetRoomName(r, n) PROVE LockInv'
  <2>1. [View EXCEPT !.rooms[r] = Named(View.rooms[r], n)] \in Database
    BY <1>0, RowTypes, NamedRows, RoomsUpdate
  <2>2. pc' \notin {"endRoom", "endPlan"}
    BY <1>1 DEF SetRoomName, Receive, Stay
  <2> QED BY <1>1, <1>a, <1>b, <1>d, <2>1, <2>2 DEF SetRoomName
<1>2. ASSUME NEW p \in Plans, NEW n \in RoomNames, SetFloorplanName(p, n) PROVE LockInv'
  <2>1. [View EXCEPT !.plans[p] = Named(View.plans[p], n)] \in Database
    BY <1>0, RowTypes, NamedRows, PlansUpdate
  <2>2. pc' \notin {"endRoom", "endPlan"}
    BY <1>2 DEF SetFloorplanName, Receive, Stay
  <2> QED BY <1>2, <1>a, <1>b, <1>d, <2>1, <2>2 DEF SetFloorplanName
<1>3. ASSUME NEW d \in Devices, NEW p \in Plans, SetDeviceFloorplan(d, p) PROVE LockInv'
  <2> DEFINE more == View.placed \union {<<p, d>>}
  <2>0. more \in SUBSET (Plans \X Devices)
    BY <1>0, RowTypes
  <2>1. [View EXCEPT !.placed = more] \in Database
    BY <1>0, <2>0, PlacedUpdate
  <2>2. pc' \notin {"endRoom", "endPlan"}
    BY <1>3 DEF SetDeviceFloorplan, Receive, Stay
  <2> QED BY <1>3, <1>a, <1>b, <1>d, <2>1, <2>2 DEF SetDeviceFloorplan
<1>4. ASSUME NEW d \in Devices, NEW n \in Names, SetDeviceName(d, n) PROVE LockInv'
  <2>1. [View EXCEPT !.devices[d] = DeviceRows(View.devices[d], n)] \in Database
    BY <1>0, RowTypes, RowNames, DevicesUpdate
  <2>2. pc' \notin {"endRoom", "endPlan"}
    BY <1>4 DEF SetDeviceName, Receive, Stay, Goto
  <2> QED BY <1>4, <1>a, <1>b, <1>d, <2>1, <2>2 DEF SetDeviceName
<1>5. ASSUME NEW d \in Devices, ForgetDevice(d) PROVE LockInv'
  <2>0. << >> \in Seq(DeviceRow)
    OBVIOUS
  <2>1. [View EXCEPT !.devices[d] = << >>] \in Database
    BY <1>0, <2>0, DevicesUpdate
  <2>2. pc' \notin {"endRoom", "endPlan"}
    BY <1>5 DEF ForgetDevice, Goto
  <2> QED BY <1>5, <1>a, <1>b, <1>d, <2>1, <2>2 DEF ForgetDevice
<1>6. ASSUME NEW d \in Devices, NEW r \in Places, SetDeviceRoom(d, r) PROVE LockInv'
  <2>1. [View EXCEPT !.devices[d] = Moved(View.devices[d], r)] \in Database
    BY <1>0, RowTypes, MovedRows, DevicesUpdate
  <2>2. pc' \notin {"endRoom", "endPlan"}
    BY <1>6 DEF SetDeviceRoom, Receive, Stay, Goto
  <2> QED BY <1>6, <1>a, <1>b, <1>d, <2>1, <2>2 DEF SetDeviceRoom, Moved
<1>7. ASSUME NEW r \in RoomIds, DeleteRoom(r) PROVE LockInv'
  BY <1>7, <1>b, <1>d DEF DeleteRoom, Goto
<1>8. ASSUME NEW p \in Plans, DeleteFloorplan(p) PROVE LockInv'
  BY <1>8, <1>b, <1>d DEF DeleteFloorplan, Goto
<1>9. CASE Unassign
  <2>0. target \in RoomIds
    BY <1>0, <1>9 DEF Unassign, RestType
  <2> DEFINE devices == [d \in Devices |-> Vacated(View.devices[d], target)]
  <2>1. devices \in [Devices -> Seq(DeviceRow)]
    BY <1>0, <2>0, RowTypes, VacatedRows
  <2>2. [View EXCEPT !.devices = devices] \in Database
    BY <1>0, <2>1, AllDevicesUpdate
  <2> QED BY <1>9, <1>a, <1>b, <1>d, <2>2 DEF Unassign, Goto
<1>10. CASE DeleteRoomRows
  <2>0. target \in RoomIds /\ << >> \in Seq(RoomNames) /\ tx # Closed
    BY <1>0, <1>10 DEF DeleteRoomRows, RestType, Deleting
  <2> DEFINE db == [View EXCEPT !.rooms[target] = << >>]
  <2>1. db \in Database
    BY <1>0, <2>0, RoomsUpdate
  <2>2. db.rooms[target] = << >>
    BY <1>0, <2>0 DEF Database
  <2>3. Write(db) \/ Busy
    BY <1>10 DEF DeleteRoomRows
  <2>4. pc' = "endRoom" /\ target' = target
    BY <1>10 DEF DeleteRoomRows, Goto
  <2> HIDE DEF db
  <2>5. CASE Write(db)
    <3>1. tx' = db
      BY <2>0, <2>5 DEF Write
    <3> QED BY <1>a, <2>1, <2>2, <2>4, <2>5, <3>1 DEF LockInv
  <2>6. CASE Busy
    BY <1>b, <2>4, <2>6, ViewBusy DEF LockInv
  <2> QED BY <2>3, <2>5, <2>6
<1>11. CASE EndRoom
  <2>1. Rollback \/ (pc \in Deleting /\ Commit)
    BY <1>11 DEF EndRoom, Deleting
  <2> QED BY <1>11, <1>c, <1>d, <2>1 DEF EndRoom, Goto
<1>12. CASE Unplace
  <2> DEFINE rest == {x \in View.placed : x[1] # target}
  <2>1. rest \in SUBSET (Plans \X Devices)
    BY <1>0, RowTypes
  <2>2. [View EXCEPT !.placed = rest] \in Database
    BY <1>0, <2>1, PlacedUpdate
  <2> QED BY <1>12, <1>a, <1>b, <1>d, <2>2 DEF Unplace, Goto
<1>13. CASE DeletePlanRows
  <2>0. target \in Plans /\ << >> \in Seq(RoomNames) /\ tx # Closed
    BY <1>0, <1>13 DEF DeletePlanRows, RestType, Deleting
  <2> DEFINE db == [View EXCEPT !.plans[target] = << >>]
  <2>1. db \in Database
    BY <1>0, <2>0, PlansUpdate
  <2>2. db.plans[target] = << >>
    BY <1>0, <2>0 DEF Database
  <2>3. Write(db) \/ Busy
    BY <1>13 DEF DeletePlanRows
  <2>4. pc' = "endPlan" /\ target' = target
    BY <1>13 DEF DeletePlanRows, Goto
  <2> HIDE DEF db
  <2>5. CASE Write(db)
    <3>1. tx' = db
      BY <2>0, <2>5 DEF Write
    <3> QED BY <1>a, <2>1, <2>2, <2>4, <2>5, <3>1 DEF LockInv
  <2>6. CASE Busy
    BY <1>b, <2>4, <2>6, ViewBusy DEF LockInv
  <2> QED BY <2>3, <2>5, <2>6
<1>14. CASE EndPlan
  <2>1. Rollback \/ (pc \in Deleting /\ Commit)
    BY <1>14 DEF EndPlan, Deleting
  <2> QED BY <1>14, <1>c, <1>d, <2>1 DEF EndPlan, Goto
<1>15. CASE CacheName \/ CacheRoom
  BY <1>15, <1>b, <1>d DEF CacheName, CacheRoom
<1>16. ASSUME NEW d \in Devices, Announce(d) \/ RemoveDevice(d) PROVE LockInv'
  BY <1>16, <1>b, <1>d DEF Announce, RemoveDevice
<1>17. CASE Crash
  BY <1>17, <1>c, <1>d DEF Crash
<1>18. CASE Restart \/ UNCHANGED vars
  BY <1>18 DEF Restart, vars, dbVars, LockInv
<1> QED BY <1>1, <1>2, <1>3, <1>4, <1>5, <1>6, <1>7, <1>8, <1>9, <1>10, <1>11, <1>12, <1>13,
           <1>14, <1>15, <1>16, <1>17, <1>18, Cases

\* Only a delete that changed nothing is rolled back, so nothing that was
\* answered with success before it is undone by it.
THEOREM RollbackHarmless == Spec => NothingRolledBack
<1>1. Init => LockInv
  BY DEF Init, LockInv
<1>2. Inv /\ LockInv /\ [Next]_vars => (Inv /\ LockInv)'
  BY TypeStep, LockStep
<1>3. ASSUME Inv, LockInv, [Next]_vars
      PROVE  [(pc \in {"endRoom", "endPlan"} /\ up' /\ tx' = Closed) => disk' = tx]_vars
  <2> SUFFICES ASSUME pc \in {"endRoom", "endPlan"}, up', tx' = Closed PROVE disk' = tx
    OBVIOUS
  <2>0. tx # Closed
    BY <1>3 DEF Inv, Deleting
  <2>1. EndRoom \/ EndPlan
    <3>1. ~ UNCHANGED vars
      BY <2>0 DEF vars, dbVars
    <3>2. ~ Command /\ ~ (\E d \in Devices : Announce(d) \/ RemoveDevice(d))
      BY DEF Command, Receive, SetRoomName, SetFloorplanName, SetDeviceFloorplan, SetDeviceName,
             ForgetDevice, SetDeviceRoom, DeleteRoom, DeleteFloorplan, Announce, RemoveDevice
    <3>3. ~ Crash
      BY DEF Crash
    <3>4. ~ Restart
      BY <2>0 DEF Restart, dbVars
    <3>5. ~ CacheName /\ ~ CacheRoom /\ ~ Unassign /\ ~ DeleteRoomRows /\ ~ Unplace /\ ~ DeletePlanRows
      BY DEF CacheName, CacheRoom, Unassign, DeleteRoomRows, Unplace, DeletePlanRows
    <3> QED BY <1>3, <3>1, <3>2, <3>3, <3>4, <3>5 DEF Next, Continue
  <2>2. View = tx
    BY <2>0 DEF View
  <2>3. CASE EndRoom
    BY <1>3, <2>0, <2>2, <2>3 DEF EndRoom, Commit, Rollback, LockInv, First, Inv, dbVars
  <2>4. CASE EndPlan
    BY <1>3, <2>0, <2>2, <2>4 DEF EndPlan, Commit, Rollback, LockInv, First, Inv, dbVars
  <2> QED BY <2>1, <2>3, <2>4
<1> QED BY <1>1, <1>2, <1>3, InitInv, PTL DEF Spec, NothingRolledBack

-----------------------------------------------------------------------------
(* The room shown from memory.                                             *)

\* No row of d, or its room is the cached one, or it is in no room; a device
\* whose room has just been written is excused until the copy is.
CacheInv ==
    ~Persistent => \A d \in DOMAIN cache :
        \/ pc = "cacheRoom" /\ d = target
        \/ cache[d].room = RoomOf(View, d)
        \/ RoomOf(View, d) = Empty

\* No statement but setdeviceroom gives a device another room.
RoomsKept ==
    \A d \in Devices :
        RoomOf(View', d) = RoomOf(View, d) \/ RoomOf(View', d) = Empty

LEMMA DeviceWrite ==
    ASSUME NEW db \in Database, NEW d \in Devices, NEW rows \in Seq(DeviceRow), NEW c \in Devices
    PROVE  [db EXCEPT !.devices[d] = rows].devices[c] = (IF c = d THEN rows ELSE db.devices[c])
BY DEF Database

LEMMA KeptIfSame ==
    ASSUME Inv, NEW db \in Database, db.devices = View.devices, Write(db) \/ Busy
    PROVE  RoomsKept
<1>1. CASE Write(db)
  BY <1>1, ViewWrite DEF Inv, RoomsKept, RoomOf
<1>2. CASE Busy
  BY <1>2, ViewBusy DEF RoomsKept
<1> QED BY <1>1, <1>2

\* The steps that neither change the room in memory nor assign one.
LEMMA CacheKept ==
    ASSUME Inv, CacheInv, RoomsKept, UNCHANGED cache, pc # "cacheRoom"
    PROVE  CacheInv'
<1>1. DOMAIN cache \subseteq Devices
  BY OfCards DEF Inv, RestType
<1> QED BY <1>1 DEF CacheInv, RoomsKept

LEMMA CacheStep == ASSUME Inv, LockInv, CacheInv, [Next]_vars PROVE CacheInv'
<1>0. /\ DbType /\ RestType /\ View \in Database
      /\ pc \in Deleting => tx # Closed
      /\ DOMAIN cache \subseteq Devices
  BY ViewType, OfCards DEF Inv, RestType
<1>1. ASSUME NEW r \in RoomIds, NEW n \in RoomNames, SetRoomName(r, n) PROVE CacheInv'
  <2> DEFINE db == [View EXCEPT !.rooms[r] = Named(View.rooms[r], n)]
  <2>1. db \in Database
    BY <1>0, RowTypes, NamedRows, RoomsUpdate
  <2>2. db.devices = View.devices
    BY <1>0 DEF Database
  <2>3. Write(db) \/ Busy
    BY <1>1 DEF SetRoomName
  <2>4. UNCHANGED cache /\ pc # "cacheRoom"
    BY <1>1 DEF SetRoomName, Receive, Stay
  <2> HIDE DEF db
  <2> QED BY <2>1, <2>2, <2>3, <2>4, KeptIfSame, CacheKept
<1>2. ASSUME NEW p \in Plans, NEW n \in RoomNames, SetFloorplanName(p, n) PROVE CacheInv'
  <2> DEFINE db == [View EXCEPT !.plans[p] = Named(View.plans[p], n)]
  <2>1. db \in Database
    BY <1>0, RowTypes, NamedRows, PlansUpdate
  <2>2. db.devices = View.devices
    BY <1>0 DEF Database
  <2>3. Write(db) \/ Busy
    BY <1>2 DEF SetFloorplanName
  <2>4. UNCHANGED cache /\ pc # "cacheRoom"
    BY <1>2 DEF SetFloorplanName, Receive, Stay
  <2> HIDE DEF db
  <2> QED BY <2>1, <2>2, <2>3, <2>4, KeptIfSame, CacheKept
<1>3. ASSUME NEW d \in Devices, NEW p \in Plans, SetDeviceFloorplan(d, p) PROVE CacheInv'
  <2> DEFINE more == View.placed \union {<<p, d>>}
  <2> DEFINE db == [View EXCEPT !.placed = more]
  <2>0. more \in SUBSET (Plans \X Devices)
    BY <1>0, RowTypes
  <2>1. db \in Database
    BY <1>0, <2>0, PlacedUpdate
  <2>2. db.devices = View.devices
    BY <1>0 DEF Database
  <2>3. Write(db) \/ Busy
    BY <1>3 DEF SetDeviceFloorplan
  <2>4. UNCHANGED cache /\ pc # "cacheRoom"
    BY <1>3 DEF SetDeviceFloorplan, Receive, Stay
  <2> HIDE DEF db
  <2> QED BY <2>1, <2>2, <2>3, <2>4, KeptIfSame, CacheKept
<1>4. ASSUME NEW d \in Devices, NEW n \in Names, SetDeviceName(d, n) PROVE CacheInv'
  <2> DEFINE rows == DeviceRows(View.devices[d], n)
             db == [View EXCEPT !.devices[d] = rows]
  <2>1. View.devices[d] \in Seq(DeviceRow)
    BY <1>0, RowTypes
  <2>2. /\ rows \in Seq(DeviceRow) /\ rows # << >>
        /\ rows[1].room = (IF View.devices[d] = << >> THEN Empty ELSE View.devices[d][1].room)
    BY <2>1, RowNames
  <2>3. Write(db) \/ Busy
    BY <1>4 DEF SetDeviceName
  <2>4. UNCHANGED cache /\ pc # "cacheRoom"
    BY <1>4 DEF SetDeviceName, Receive, Stay, Goto
  <2> HIDE DEF rows
  <2>5. db \in Database /\ \A c \in Devices : db.devices[c] = IF c = d THEN rows ELSE View.devices[c]
    BY <1>0, <2>2, DevicesUpdate, DeviceWrite
  <2> HIDE DEF db
  <2>6. \A c \in Devices : RoomOf(db, c) = RoomOf(View, c)
    BY <2>2, <2>5 DEF RoomOf
  <2>7. RoomsKept
    BY <1>0, <2>3, <2>5, <2>6, ViewWrite, ViewBusy DEF RoomsKept
  <2> QED BY <2>4, <2>7, CacheKept
<1>5. ASSUME NEW d \in Devices, ForgetDevice(d) PROVE CacheInv'
  <2> DEFINE db == [View EXCEPT !.devices[d] = << >>]
  <2>0. << >> \in Seq(DeviceRow)
    OBVIOUS
  <2>3. Write(db) \/ Busy
    BY <1>5 DEF ForgetDevice
  <2>4. UNCHANGED cache /\ pc # "cacheRoom"
    BY <1>5 DEF ForgetDevice, Receive, Goto
  <2>5. db \in Database /\ \A c \in Devices : db.devices[c] = IF c = d THEN << >> ELSE View.devices[c]
    BY <1>0, <2>0, DevicesUpdate, DeviceWrite
  <2> HIDE DEF db
  <2>6. \A c \in Devices : RoomOf(db, c) = RoomOf(View, c) \/ RoomOf(db, c) = Empty
    BY <2>5 DEF RoomOf
  <2>7. RoomsKept
    BY <1>0, <2>3, <2>5, <2>6, ViewWrite, ViewBusy DEF RoomsKept
  <2> QED BY <2>4, <2>7, CacheKept
<1>6. ASSUME NEW d \in Devices, NEW r \in Places, SetDeviceRoom(d, r) PROVE CacheInv'
  <2> DEFINE rows == Moved(View.devices[d], r)
             db == [View EXCEPT !.devices[d] = rows]
  <2>1. View.devices[d] \in Seq(DeviceRow)
    BY <1>0, RowTypes
  <2>2. /\ rows \in Seq(DeviceRow)
        /\ View.devices[d] = << >> <=> rows = << >>
        /\ rows # << >> => rows[1].room = r
    BY <2>1, MovedRows
  <2>3. /\ \/ Write(db) /\ RoomOf(db, d) = r /\ Goto("cacheRoom", d)
           \/ Write(db) /\ RoomOf(db, d) # r /\ Stay
           \/ Busy /\ (Goto("cacheRoom", d) \/ Stay)
        /\ pc = "idle"
    BY <1>6 DEF SetDeviceRoom, Moved, Receive
  <2> HIDE DEF rows
  <2>5. db \in Database /\ \A c \in Devices : db.devices[c] = IF c = d THEN rows ELSE View.devices[c]
    BY <1>0, <2>2, DevicesUpdate, DeviceWrite
  <2> HIDE DEF db
  <2>6. /\ \A c \in Devices : c # d => RoomOf(db, c) = RoomOf(View, c)
        /\ RoomOf(db, d) # r => RoomOf(db, d) = Empty
    BY <2>2, <2>5 DEF RoomOf
  <2>7. CASE Write(db) /\ RoomOf(db, d) = r /\ Goto("cacheRoom", d)
    BY <1>0, <2>3, <2>5, <2>6, <2>7, ViewWrite DEF Goto, CacheInv
  <2>8. CASE Write(db) /\ RoomOf(db, d) # r /\ Stay
    <3>1. RoomsKept
      BY <1>0, <2>5, <2>6, <2>8, ViewWrite DEF RoomsKept
    <3> QED BY <2>3, <2>8, <3>1, CacheKept DEF Stay
  <2>9. CASE Busy /\ (Goto("cacheRoom", d) \/ Stay)
    BY <2>3, <2>9, ViewBusy, CacheKept DEF RoomsKept, Goto, Stay
  <2> QED BY <2>3, <2>7, <2>8, <2>9
<1>7. ASSUME NEW r \in RoomIds, DeleteRoom(r) PROVE CacheInv'
  BY <1>0, <1>7, ViewBegin, CacheKept DEF DeleteRoom, Receive, Goto, RoomsKept
<1>8. ASSUME NEW p \in Plans, DeleteFloorplan(p) PROVE CacheInv'
  BY <1>0, <1>8, ViewBegin, CacheKept DEF DeleteFloorplan, Receive, Goto, RoomsKept
<1>9. CASE Unassign
  <2>0. target \in RoomIds
    BY <1>0, <1>9 DEF Unassign, RestType
  <2> DEFINE devices == [d \in Devices |-> Vacated(View.devices[d], target)]
             db == [View EXCEPT !.devices = devices]
  <2>1. /\ devices \in [Devices -> Seq(DeviceRow)]
        /\ \A d \in Devices :
             /\ View.devices[d] = << >> <=> devices[d] = << >>
             /\ devices[d] # << >> => devices[d][1].room = View.devices[d][1].room
                                      \/ devices[d][1].room = Empty
    BY <1>0, <2>0, RowTypes, VacatedRows
  <2>2. Write(db) \/ Busy
    BY <1>9 DEF Unassign
  <2> HIDE DEF devices
  <2>3. db \in Database /\ db.devices = devices
    <3>1. db.devices = devices
      BY <1>0 DEF Database
    <3> QED BY <1>0, <2>1, <3>1, AllDevicesUpdate
  <2> HIDE DEF db
  <2>4. \A d \in Devices : RoomOf(db, d) = RoomOf(View, d) \/ RoomOf(db, d) = Empty
    BY <2>1, <2>3 DEF RoomOf
  <2>5. RoomsKept
    BY <1>0, <2>2, <2>3, <2>4, ViewWrite, ViewBusy DEF RoomsKept
  <2> QED BY <1>9, <2>5, CacheKept DEF Unassign, Goto
<1>10. CASE DeleteRoomRows
  <2> DEFINE db == [View EXCEPT !.rooms[target] = << >>]
  <2>0. target \in RoomIds /\ << >> \in Seq(RoomNames)
    BY <1>0, <1>10 DEF DeleteRoomRows, RestType
  <2>1. db \in Database
    BY <1>0, <2>0, RoomsUpdate
  <2>2. db.devices = View.devices
    BY <1>0 DEF Database
  <2>3. Write(db) \/ Busy
    BY <1>10 DEF DeleteRoomRows
  <2> HIDE DEF db
  <2> QED BY <1>10, <2>1, <2>2, <2>3, KeptIfSame, CacheKept DEF DeleteRoomRows, Goto
<1>a. ASSUME pc \in {"endRoom", "endPlan"}, Rollback \/ Commit, UNCHANGED cache,
             Rollback => ~locked
      PROVE  CacheInv'
  <2>0. tx # Closed
    BY <1>0, <1>a DEF Deleting
  <2>1. View' = View
    BY <1>0, <1>a, <2>0, ViewCommit DEF Rollback, View, LockInv
  <2> QED BY <1>a, <2>1, CacheKept DEF RoomsKept
<1>11. CASE EndRoom
  <2>1. View = tx
    BY <1>0, <1>11 DEF EndRoom, Deleting, View
  <2>2. Rollback /\ First(View.rooms[target]) # Empty => ~locked
    BY <1>0, <1>11, <2>1 DEF EndRoom, LockInv, First, DbType
  <2>4. CASE First(View.rooms[target]) # Empty /\ Rollback
    BY <1>11, <1>a, <2>2, <2>4 DEF EndRoom, Goto
  <2>5. CASE Commit
    <3>1. View' = View
      BY <1>0, <1>11, <2>5, ViewCommit DEF EndRoom, Deleting
    <3> QED BY <1>11, <3>1, CacheKept DEF RoomsKept, EndRoom, Goto
  <2> QED BY <1>11, <2>4, <2>5 DEF EndRoom
<1>12. CASE Unplace
  <2> DEFINE rest == {x \in View.placed : x[1] # target}
             db == [View EXCEPT !.placed = rest]
  <2>0. rest \in SUBSET (Plans \X Devices)
    BY <1>0, RowTypes
  <2>1. db \in Database
    BY <1>0, <2>0, PlacedUpdate
  <2>2. db.devices = View.devices
    BY <1>0 DEF Database
  <2>3. Write(db) \/ Busy
    BY <1>12 DEF Unplace
  <2> HIDE DEF db
  <2> QED BY <1>12, <2>1, <2>2, <2>3, KeptIfSame, CacheKept DEF Unplace, Goto
<1>13. CASE DeletePlanRows
  <2> DEFINE db == [View EXCEPT !.plans[target] = << >>]
  <2>0. target \in Plans /\ << >> \in Seq(RoomNames)
    BY <1>0, <1>13 DEF DeletePlanRows, RestType
  <2>1. db \in Database
    BY <1>0, <2>0, PlansUpdate
  <2>2. db.devices = View.devices
    BY <1>0 DEF Database
  <2>3. Write(db) \/ Busy
    BY <1>13 DEF DeletePlanRows
  <2> HIDE DEF db
  <2> QED BY <1>13, <2>1, <2>2, <2>3, KeptIfSame, CacheKept DEF DeletePlanRows, Goto
<1>14. CASE EndPlan
  <2>1. View = tx
    BY <1>0, <1>14 DEF EndPlan, Deleting, View
  <2>2. Rollback /\ First(View.plans[target]) # Empty => ~locked
    BY <1>0, <1>14, <2>1 DEF EndPlan, LockInv, First, DbType
  <2>4. CASE First(View.plans[target]) # Empty /\ Rollback
    BY <1>14, <1>a, <2>2, <2>4 DEF EndPlan, Goto
  <2>5. CASE Commit
    <3>1. View' = View
      BY <1>0, <1>14, <2>5, ViewCommit DEF EndPlan, Deleting
    <3> QED BY <1>14, <3>1, CacheKept DEF RoomsKept, EndPlan, Goto
  <2> QED BY <1>14, <2>4, <2>5 DEF EndPlan
<1>15. CASE CacheName
  <2>1. View' = View /\ RoomsKept
    BY <1>15 DEF CacheName, dbVars, View, RoomsKept
  <2>2. pc # "cacheRoom" /\ DOMAIN cache' = DOMAIN cache
    BY <1>15 DEF CacheName
  <2>3. \A d \in DOMAIN cache : cache'[d].room = cache[d].room
    <3>1. \A d \in DOMAIN cache : cache[d] \in Card
      BY <1>0, OfCards DEF RestType
    <3> QED BY <1>15, <3>1 DEF CacheName, Card
  <2> QED BY <2>1, <2>2, <2>3 DEF CacheInv
<1>16. CASE CacheRoom
  <2>1. View' = View /\ pc = "cacheRoom"
    BY <1>16 DEF CacheRoom, dbVars, View
  <2>2. DOMAIN cache' = DOMAIN cache /\ \A d \in DOMAIN cache : d # target => cache'[d] = cache[d]
    BY <1>16 DEF CacheRoom
  <2>3. target \in DOMAIN cache => cache'[target].room = RoomOf(View, target)
    <3>1. \A d \in DOMAIN cache : cache[d] \in Card
      BY <1>0, OfCards DEF RestType
    <3> QED BY <1>16, <3>1 DEF CacheRoom, Card
  <2> QED BY <2>1, <2>2, <2>3 DEF CacheInv
<1>17. ASSUME NEW d \in Devices, Announce(d) PROVE CacheInv'
  <2>1. View' = View /\ pc = "idle"
    BY <1>17 DEF Announce, dbVars, View
  <2>2. /\ DOMAIN cache' = DOMAIN cache \union {d}
        /\ \A c \in DOMAIN cache' : cache'[c] = IF c = d THEN CardOf(View, d) ELSE cache[c]
    BY <1>17 DEF Announce, Cached
  <2>3. CardOf(View, d).room = RoomOf(View, d)
    BY DEF CardOf
  <2> QED BY <2>1, <2>2, <2>3 DEF CacheInv
<1>18. ASSUME NEW d \in Devices, RemoveDevice(d) PROVE CacheInv'
  <2>1. View' = View /\ pc = "idle"
    BY <1>18 DEF RemoveDevice, dbVars, View
  <2>2. cache' = [c \in DOMAIN cache \ {d} |-> cache[c]]
    BY <1>18 DEF RemoveDevice
  <2> QED BY <2>1, <2>2 DEF CacheInv
<1>19. CASE Crash
  BY <1>19 DEF Crash, CacheInv
<1>20. CASE Restart
  BY <1>20 DEF Restart, CacheInv
<1>21. CASE UNCHANGED vars
  BY <1>21 DEF vars, dbVars, View, CacheInv
<1> QED BY <1>1, <1>2, <1>3, <1>4, <1>5, <1>6, <1>7, <1>8, <1>9, <1>10, <1>11, <1>12, <1>13,
           <1>14, <1>15, <1>16, <1>17, <1>18, <1>19, <1>20, <1>21, Cases

\* Whatever statements fail for want of a lock, the room shown from memory
\* is the assigned one or that of a device that has none any more.
THEOREM MemoryFollows == Spec => []NoOldAssignment
<1>1. Init => LockInv /\ CacheInv
  BY DEF Init, LockInv, CacheInv
<1>2. Inv /\ LockInv /\ CacheInv /\ [Next]_vars => (Inv /\ LockInv /\ CacheInv)'
  BY TypeStep, LockStep, CacheStep
<1>3. CacheInv => NoOldAssignment
  BY DEF CacheInv, NoOldAssignment
<1> QED BY <1>1, <1>2, <1>3, InitInv, PTL DEF Spec

-----------------------------------------------------------------------------
(* The tables implement the book, when no other process uses the database. *)

LEMMA DeviceWritten ==
    ASSUME NEW a \in Database, NEW d \in Devices, NEW rows \in Seq(DeviceRow)
    PROVE  /\ [a EXCEPT !.devices[d] = rows] \in Database
           /\ [a EXCEPT !.devices[d] = rows].rooms = a.rooms
           /\ \A e \in Devices :
                [a EXCEPT !.devices[d] = rows].devices[e] = IF e = d THEN rows ELSE a.devices[e]
<1>1. [a EXCEPT !.devices[d] = rows] \in Database
  BY DevicesUpdate
<1>2. [a EXCEPT !.devices[d] = rows].rooms = a.rooms
  BY DEF Database
<1> QED BY <1>1, <1>2, DeviceWrite

\* The variables of the book, in a database.
RoomsOf(db) == [r \in {s \in RoomIds : db.rooms[s] # << >>} |-> Shown(db.rooms[r])]
NamesOf(db) == [d \in {e \in Devices : db.devices[e] # << >>} |-> NameOf(db, d)]
PlacesOf(db) == [d \in {e \in Devices : db.devices[e] # << >>} |-> RoomOf(db, d)]

LEMMA BookOf ==
    ASSUME NEW a \in Database, NEW b \in Database
    PROVE  /\ a.rooms = b.rooms => RoomsOf(a) = RoomsOf(b)
           /\ a.devices = b.devices => NamesOf(a) = NamesOf(b) /\ PlacesOf(a) = PlacesOf(b)
BY DEF RoomsOf, NamesOf, PlacesOf, NameOf, RoomOf

\* One step of the book, from one database to the next.
Kept(a, b) == RoomsOf(b) = RoomsOf(a) /\ NamesOf(b) = NamesOf(a) /\ PlacesOf(b) = PlacesOf(a)
BookStep(a, b) ==
    \/ Kept(a, b)
    \/ \E r \in RoomIds, n \in RoomNames :
         /\ RoomsOf(b) = Book!Put(RoomsOf(a), r, n)
         /\ NamesOf(b) = NamesOf(a) /\ PlacesOf(b) = PlacesOf(a)
    \/ \E r \in RoomIds :
         /\ RoomsOf(b) = Book!Strike(RoomsOf(a), r)
         /\ PlacesOf(b) = [d \in DOMAIN PlacesOf(a) |->
                             IF PlacesOf(a)[d] = r THEN Empty ELSE PlacesOf(a)[d]]
         /\ NamesOf(b) = NamesOf(a)
    \/ \E d \in Devices, n \in Names :
         /\ NamesOf(b) = Book!Put(NamesOf(a), d, n)
         /\ PlacesOf(b) = (IF d \in DOMAIN PlacesOf(a) THEN PlacesOf(a)
                           ELSE Book!Put(PlacesOf(a), d, Empty))
         /\ RoomsOf(b) = RoomsOf(a)
    \/ \E d \in Devices :
         /\ NamesOf(b) = Book!Strike(NamesOf(a), d)
         /\ PlacesOf(b) = Book!Strike(PlacesOf(a), d)
         /\ RoomsOf(b) = RoomsOf(a)
    \/ \E d \in Devices, r \in RoomIds \union {Empty} :
         /\ d \in DOMAIN PlacesOf(a)
         /\ PlacesOf(b) = [PlacesOf(a) EXCEPT ![d] = r]
         /\ RoomsOf(b) = RoomsOf(a) /\ NamesOf(b) = NamesOf(a)

LEMMA BookStepOf == BookStep(disk, disk') => [Book!Next]_(Book!bookVars)
BY DEF BookStep, Kept, RoomsOf, NamesOf, PlacesOf, Book!Next, Book!bookVars, Book!NameRoom,
       Book!StrikeRoom, Book!NameDevice, Book!StrikeDevice, Book!MoveDevice, Listed, NamedDevices,
       RoomNames

LEMMA StepNameRoom ==
    ASSUME NEW a \in Database, NEW r \in RoomIds, NEW n \in RoomNames
    PROVE  BookStep(a, [a EXCEPT !.rooms[r] = Named(a.rooms[r], n)])
<1> DEFINE b == [a EXCEPT !.rooms[r] = Named(a.rooms[r], n)]
<1>1. a.rooms[r] \in Seq(RoomNames)
  BY RowTypes
<1>2. Named(a.rooms[r], n) \in Seq(RoomNames) /\ Named(a.rooms[r], n) # << >> /\ Shown(Named(a.rooms[r], n)) = n
  BY <1>1, NamedRows
<1>3. /\ b \in Database /\ b.devices = a.devices
      /\ \A s \in RoomIds : b.rooms[s] = IF s = r THEN Named(a.rooms[r], n) ELSE a.rooms[s]
  BY <1>2, RoomsUpdate DEF Database
<1> HIDE DEF b
<1>4. RoomsOf(b) = Book!Put(RoomsOf(a), r, n)
  BY <1>2, <1>3 DEF RoomsOf, Book!Put
<1>5. NamesOf(b) = NamesOf(a) /\ PlacesOf(b) = PlacesOf(a)
  BY <1>3, BookOf
<1>6. BookStep(a, b)
  BY <1>4, <1>5 DEF BookStep
<1> QED BY <1>6 DEF b

LEMMA StepNameDevice ==
    ASSUME NEW a \in Database, NEW d \in Devices, NEW n \in Names
    PROVE  BookStep(a, [a EXCEPT !.devices[d] = DeviceRows(a.devices[d], n)])
<1> DEFINE rows == DeviceRows(a.devices[d], n)
           b == [a EXCEPT !.devices[d] = rows]
<1>1. a.devices[d] \in Seq(DeviceRow)
  BY RowTypes
<1>2. /\ rows \in Seq(DeviceRow) /\ rows # << >> /\ rows[1].name = n
      /\ rows[1].room = RoomOf(a, d)
  BY <1>1, RowNames DEF RoomOf
<1>3. /\ b \in Database /\ b.rooms = a.rooms
      /\ \A e \in Devices : b.devices[e] = IF e = d THEN rows ELSE a.devices[e]
  BY <1>2, DeviceWritten
<1> HIDE DEF b, rows
<1>4. NamesOf(b) = Book!Put(NamesOf(a), d, n)
  BY <1>2, <1>3 DEF NamesOf, NameOf, Book!Put
<1>5. PlacesOf(b) = (IF d \in DOMAIN PlacesOf(a) THEN PlacesOf(a)
                     ELSE Book!Put(PlacesOf(a), d, Empty))
  <2>1. CASE a.devices[d] # << >>
    BY <1>2, <1>3, <2>1 DEF PlacesOf, RoomOf
  <2>2. CASE a.devices[d] = << >>
    <3>1. RoomOf(a, d) = Empty
      BY <2>2 DEF RoomOf
    <3> QED BY <1>2, <1>3, <2>2, <3>1 DEF PlacesOf, RoomOf, Book!Put
  <2> QED BY <2>1, <2>2
<1>6. RoomsOf(b) = RoomsOf(a)
  BY <1>3, BookOf
<1>7. BookStep(a, b)
  BY <1>4, <1>5, <1>6 DEF BookStep
<1> QED BY <1>7 DEF b, rows

LEMMA StepStrikeDevice ==
    ASSUME NEW a \in Database, NEW d \in Devices
    PROVE  BookStep(a, [a EXCEPT !.devices[d] = << >>])
<1> DEFINE b == [a EXCEPT !.devices[d] = << >>]
<1>1. << >> \in Seq(DeviceRow)
  OBVIOUS
<1>2. /\ b \in Database /\ b.rooms = a.rooms
      /\ \A e \in Devices : b.devices[e] = IF e = d THEN << >> ELSE a.devices[e]
  BY <1>1, DeviceWritten
<1> HIDE DEF b
<1>3. NamesOf(b) = Book!Strike(NamesOf(a), d) /\ PlacesOf(b) = Book!Strike(PlacesOf(a), d)
  BY <1>2 DEF NamesOf, PlacesOf, NameOf, RoomOf, Book!Strike
<1>4. RoomsOf(b) = RoomsOf(a)
  BY <1>2, BookOf
<1>5. BookStep(a, b)
  BY <1>3, <1>4 DEF BookStep
<1> QED BY <1>5 DEF b

LEMMA StepMoveDevice ==
    ASSUME NEW a \in Database, NEW d \in Devices, NEW r \in Places
    PROVE  BookStep(a, [a EXCEPT !.devices[d] = Moved(a.devices[d], r)])
<1> DEFINE rows == Moved(a.devices[d], r)
           b == [a EXCEPT !.devices[d] = rows]
<1>1. a.devices[d] \in Seq(DeviceRow)
  BY RowTypes
<1>2. /\ rows \in Seq(DeviceRow)
      /\ a.devices[d] = << >> <=> rows = << >>
      /\ rows # << >> => rows[1].name = NameOf(a, d) /\ rows[1].room = r
  BY <1>1, MovedRows DEF NameOf
<1>3. /\ b \in Database /\ b.rooms = a.rooms
      /\ \A e \in Devices : b.devices[e] = IF e = d THEN rows ELSE a.devices[e]
  BY <1>2, DeviceWritten
<1> HIDE DEF b, rows
<1>4. RoomsOf(b) = RoomsOf(a)
  BY <1>3, BookOf
<1>5. NamesOf(b) = NamesOf(a)
  BY <1>2, <1>3 DEF NamesOf, NameOf
<1>6. CASE rows = << >>
  <2>1. PlacesOf(b) = PlacesOf(a)
    BY <1>2, <1>3, <1>6 DEF PlacesOf, RoomOf
  <2> QED BY <1>4, <1>5, <2>1 DEF BookStep, Kept, b, rows
<1>7. CASE rows # << >>
  <2>1. d \in DOMAIN PlacesOf(a)
    BY <1>2, <1>7 DEF PlacesOf
  <2>2. PlacesOf(b) = [PlacesOf(a) EXCEPT ![d] = r]
    BY <1>2, <1>3, <1>7 DEF PlacesOf, RoomOf
  <2>3. BookStep(a, b)
    BY <1>4, <1>5, <2>1, <2>2 DEF BookStep, Places
  <2> QED BY <2>3 DEF b, rows
<1> QED BY <1>6, <1>7

\* What deleteroom commits.
Emptied(db, r) == [db EXCEPT !.devices = [d \in Devices |-> Vacated(db.devices[d], r)]]
Struck(db, r) == [Emptied(db, r) EXCEPT !.rooms[r] = << >>]

LEMMA EmptiedType ==
    ASSUME NEW a \in Database, NEW r \in RoomIds
    PROVE  /\ Emptied(a, r) \in Database /\ Struck(a, r) \in Database
           /\ \A d \in Devices : Struck(a, r).devices[d] = Vacated(a.devices[d], r)
           /\ Struck(a, r).devices = Emptied(a, r).devices
           /\ Struck(a, r).plans = a.plans /\ Struck(a, r).placed = a.placed
           /\ \A s \in RoomIds : Struck(a, r).rooms[s] = IF s = r THEN << >> ELSE a.rooms[s]
<1>1. [d \in Devices |-> Vacated(a.devices[d], r)] \in [Devices -> Seq(DeviceRow)]
  BY RowTypes, VacatedRows
<1>2. /\ Emptied(a, r) \in Database /\ Emptied(a, r).rooms = a.rooms
      /\ Emptied(a, r).devices = [d \in Devices |-> Vacated(a.devices[d], r)]
      /\ Emptied(a, r).plans = a.plans /\ Emptied(a, r).placed = a.placed
  BY <1>1, AllDevicesUpdate DEF Emptied, Database
<1>3. << >> \in Seq(RoomNames)
  OBVIOUS
<1>4. /\ Struck(a, r) \in Database /\ Struck(a, r).devices = Emptied(a, r).devices
      /\ Struck(a, r).plans = a.plans /\ Struck(a, r).placed = a.placed
      /\ \A s \in RoomIds : Struck(a, r).rooms[s] = IF s = r THEN << >> ELSE a.rooms[s]
  BY <1>2, <1>3, RoomsUpdate DEF Struck, Database
<1>5. \A d \in Devices : Struck(a, r).devices[d] = Vacated(a.devices[d], r)
  BY <1>2, <1>4
<1> QED BY <1>2, <1>4, <1>5

LEMMA StepStrikeRoom ==
    ASSUME NEW a \in Database, NEW r \in RoomIds
    PROVE  BookStep(a, Struck(a, r))
<1> DEFINE b == Struck(a, r)
<1>1. /\ b \in Database
      /\ \A d \in Devices : b.devices[d] = Vacated(a.devices[d], r)
      /\ \A s \in RoomIds : b.rooms[s] = IF s = r THEN << >> ELSE a.rooms[s]
  BY EmptiedType
<1>2. ASSUME NEW d \in Devices
      PROVE  /\ a.devices[d] = << >> <=> b.devices[d] = << >>
             /\ a.devices[d] # << >> =>
                  /\ NameOf(b, d) = NameOf(a, d)
                  /\ RoomOf(b, d) = IF RoomOf(a, d) = r THEN Empty ELSE RoomOf(a, d)
  <2>1. a.devices[d] \in Seq(DeviceRow)
    BY RowTypes
  <2> HIDE DEF b
  <2> QED BY <1>1, <2>1, VacatedRows DEF NameOf, RoomOf
<1> HIDE DEF b
<1>3. RoomsOf(b) = Book!Strike(RoomsOf(a), r)
  BY <1>1 DEF RoomsOf, Book!Strike
<1>4. NamesOf(b) = NamesOf(a)
  BY <1>2 DEF NamesOf
<1>5. PlacesOf(b) = [d \in DOMAIN PlacesOf(a) |->
                       IF PlacesOf(a)[d] = r THEN Empty ELSE PlacesOf(a)[d]]
  BY <1>2 DEF PlacesOf
<1>6. BookStep(a, b)
  BY <1>3, <1>4, <1>5 DEF BookStep
<1> QED BY <1>6 DEF b

\* Where no statement fails, an open transaction is that of the delete being
\* done, and differs from the disk by the statements done so far.
Alone ==
    /\ pc \notin Deleting => tx = Closed
    /\ pc = "unassign" => tx = disk
    /\ pc = "deleteRoom" => tx = Emptied(disk, target)
    /\ pc = "endRoom" => tx = Struck(disk, target)
    /\ pc \in {"unplace", "deletePlan", "endPlan"} =>
         tx.rooms = disk.rooms /\ tx.devices = disk.devices

LEMMA AloneStep ==
    ASSUME Contended = FALSE, Inv, Alone, [Next]_vars
    PROVE  Alone' /\ BookStep(disk, disk')
<1>0. /\ DbType /\ RestType /\ disk \in Database
      /\ pc \in Deleting => tx # Closed
      /\ pc \notin Deleting => tx = Closed /\ View = disk
      /\ ~Busy
  BY DEF Inv, DbType, Alone, View, Busy
<1>a. ASSUME NEW db \in Database, Write(db), pc \notin Deleting, pc' \notin Deleting, BookStep(disk, db)
      PROVE  Alone' /\ BookStep(disk, disk')
  <2>1. tx' = Closed /\ disk' = db
    BY <1>0, <1>a DEF Write
  <2> QED BY <1>a, <2>1 DEF Alone, Deleting
<1>b. disk' = disk => BookStep(disk, disk')
  BY DEF BookStep, Kept
<1>1. ASSUME NEW r \in RoomIds, NEW n \in RoomNames, SetRoomName(r, n)
      PROVE  Alone' /\ BookStep(disk, disk')
  <2> DEFINE db == [disk EXCEPT !.rooms[r] = Named(disk.rooms[r], n)]
  <2>1. db \in Database /\ BookStep(disk, db)
    BY <1>0, RowTypes, NamedRows, RoomsUpdate, StepNameRoom
  <2>2. pc \notin Deleting /\ pc' \notin Deleting
    BY <1>1 DEF SetRoomName, Receive, Stay, Deleting
  <2>3. Write(db)
    BY <1>0, <1>1, <2>2 DEF SetRoomName
  <2> QED BY <1>a, <2>1, <2>2, <2>3
<1>2. ASSUME NEW p \in Plans, NEW n \in RoomNames, SetFloorplanName(p, n)
      PROVE  Alone' /\ BookStep(disk, disk')
  <2> DEFINE db == [disk EXCEPT !.plans[p] = Named(disk.plans[p], n)]
  <2>1. db \in Database /\ db.rooms = disk.rooms /\ db.devices = disk.devices
    BY <1>0, RowTypes, NamedRows, PlansUpdate DEF Database
  <2>2. pc \notin Deleting /\ pc' \notin Deleting
    BY <1>2 DEF SetFloorplanName, Receive, Stay, Deleting
  <2>3. Write(db)
    BY <1>0, <1>2, <2>2 DEF SetFloorplanName
  <2> HIDE DEF db
  <2>4. BookStep(disk, db)
    BY <1>0, <2>1, BookOf DEF BookStep, Kept
  <2> QED BY <1>a, <2>1, <2>2, <2>3, <2>4
<1>3. ASSUME NEW d \in Devices, NEW p \in Plans, SetDeviceFloorplan(d, p)
      PROVE  Alone' /\ BookStep(disk, disk')
  <2> DEFINE more == disk.placed \union {<<p, d>>}
             db == [disk EXCEPT !.placed = more]
  <2>0. more \in SUBSET (Plans \X Devices)
    BY <1>0, RowTypes
  <2>1. db \in Database /\ db.rooms = disk.rooms /\ db.devices = disk.devices
    BY <1>0, <2>0, PlacedUpdate DEF Database
  <2>2. pc \notin Deleting /\ pc' \notin Deleting
    BY <1>3 DEF SetDeviceFloorplan, Receive, Stay, Deleting
  <2>3. Write(db)
    BY <1>0, <1>3, <2>2 DEF SetDeviceFloorplan
  <2> HIDE DEF db
  <2>4. BookStep(disk, db)
    BY <1>0, <2>1, BookOf DEF BookStep, Kept
  <2> QED BY <1>a, <2>1, <2>2, <2>3, <2>4
<1>4. ASSUME NEW d \in Devices, NEW n \in Names, SetDeviceName(d, n)
      PROVE  Alone' /\ BookStep(disk, disk')
  <2> DEFINE db == [disk EXCEPT !.devices[d] = DeviceRows(disk.devices[d], n)]
  <2>1. db \in Database /\ BookStep(disk, db)
    BY <1>0, RowTypes, RowNames, DevicesUpdate, StepNameDevice
  <2>2. pc \notin Deleting /\ pc' \notin Deleting
    BY <1>4 DEF SetDeviceName, Receive, Stay, Goto, Deleting
  <2>3. Write(db)
    BY <1>0, <1>4, <2>2 DEF SetDeviceName
  <2> QED BY <1>a, <2>1, <2>2, <2>3
<1>5. ASSUME NEW d \in Devices, ForgetDevice(d)
      PROVE  Alone' /\ BookStep(disk, disk')
  <2> DEFINE db == [disk EXCEPT !.devices[d] = << >>]
  <2>0. << >> \in Seq(DeviceRow)
    OBVIOUS
  <2>1. db \in Database /\ BookStep(disk, db)
    BY <1>0, <2>0, DevicesUpdate, StepStrikeDevice
  <2>2. pc \notin Deleting /\ pc' \notin Deleting
    BY <1>5 DEF ForgetDevice, Receive, Goto, Deleting
  <2>3. Write(db)
    BY <1>0, <1>5, <2>2 DEF ForgetDevice
  <2> QED BY <1>a, <2>1, <2>2, <2>3
<1>6. ASSUME NEW d \in Devices, NEW r \in Places, SetDeviceRoom(d, r)
      PROVE  Alone' /\ BookStep(disk, disk')
  <2> DEFINE db == [disk EXCEPT !.devices[d] = Moved(disk.devices[d], r)]
  <2>1. db \in Database /\ BookStep(disk, db)
    BY <1>0, RowTypes, MovedRows, DevicesUpdate, StepMoveDevice
  <2>2. pc \notin Deleting /\ pc' \notin Deleting
    BY <1>6 DEF SetDeviceRoom, Receive, Stay, Goto, Deleting
  <2>3. Write(db)
    BY <1>0, <1>6, <2>2 DEF SetDeviceRoom, Moved
  <2> QED BY <1>a, <2>1, <2>2, <2>3
<1>7. ASSUME NEW r \in RoomIds, DeleteRoom(r) PROVE Alone' /\ BookStep(disk, disk')
  <2>1. pc \notin Deleting /\ pc' = "unassign"
    BY <1>7 DEF DeleteRoom, Receive, Goto, Deleting
  <2>2. tx' = disk /\ disk' = disk
    BY <1>0, <1>7, <2>1 DEF DeleteRoom, Begin
  <2> QED BY <1>b, <2>1, <2>2 DEF Alone, Deleting
<1>8. ASSUME NEW p \in Plans, DeleteFloorplan(p) PROVE Alone' /\ BookStep(disk, disk')
  <2>1. pc \notin Deleting /\ pc' = "unplace"
    BY <1>8 DEF DeleteFloorplan, Receive, Goto, Deleting
  <2>2. tx' = disk /\ disk' = disk
    BY <1>0, <1>8, <2>1 DEF DeleteFloorplan, Begin
  <2> QED BY <1>b, <2>1, <2>2 DEF Alone, Deleting
<1>c. pc \in Deleting => tx # Closed /\ View = tx /\ tx \in Database
  BY <1>0 DEF View, DbType
<1>9. CASE Unassign
  <2>1. pc = "unassign" /\ pc' = "deleteRoom" /\ target' = target
    BY <1>9 DEF Unassign, Goto
  <2>2. View = disk /\ tx # Closed
    BY <1>c, <2>1 DEF Alone, Deleting
  <2>3. Write(Emptied(disk, target))
    BY <1>0, <1>9, <2>2 DEF Unassign, Emptied
  <2>4. tx' = Emptied(disk, target) /\ disk' = disk
    BY <2>2, <2>3 DEF Write
  <2> QED BY <1>b, <2>1, <2>4 DEF Alone, Deleting
<1>10. CASE DeleteRoomRows
  <2>1. pc = "deleteRoom" /\ pc' = "endRoom" /\ target' = target
    BY <1>10 DEF DeleteRoomRows, Goto
  <2>2. View = Emptied(disk, target) /\ tx # Closed
    BY <1>c, <2>1 DEF Alone, Deleting
  <2>3. Write(Struck(disk, target))
    BY <1>0, <1>10, <2>2 DEF DeleteRoomRows, Struck
  <2>4. tx' = Struck(disk, target) /\ disk' = disk
    BY <2>2, <2>3 DEF Write
  <2> QED BY <1>b, <2>1, <2>4 DEF Alone, Deleting
<1>11. CASE EndRoom
  <2>1. pc = "endRoom" /\ pc' = "idle" /\ target \in RoomIds
    BY <1>0, <1>11 DEF EndRoom, Goto, RestType
  <2>2. View = Struck(disk, target) /\ tx = Struck(disk, target)
    BY <1>c, <2>1 DEF Alone, Deleting
  <2>3. View.rooms[target] = << >>
    BY <1>0, <2>1, <2>2, EmptiedType
  <2>4. Commit
    BY <1>11, <2>3 DEF EndRoom, First
  <2>5. disk' = Struck(disk, target) /\ tx' = Closed
    BY <2>2, <2>4 DEF Commit
  <2> QED BY <1>0, <2>1, <2>5, StepStrikeRoom DEF Alone, Deleting
<1>d. ASSUME pc \in {"unplace", "deletePlan"}, pc' \in {"deletePlan", "endPlan"},
             NEW db, Write(db), db.rooms = tx.rooms, db.devices = tx.devices
      PROVE  Alone' /\ BookStep(disk, disk')
  <2>1. tx' = db /\ disk' = disk
    BY <1>0, <1>d DEF Write, Deleting
  <2> QED BY <1>b, <1>d, <2>1 DEF Alone, Deleting
<1>12. CASE Unplace
  <2> DEFINE rest == {x \in tx.placed : x[1] # target}
             db == [tx EXCEPT !.placed = rest]
  <2>1. pc = "unplace" /\ pc' = "deletePlan"
    BY <1>12 DEF Unplace, Goto
  <2>2. View = tx /\ tx \in Database
    BY <1>c, <2>1 DEF Deleting
  <2>3. db.rooms = tx.rooms /\ db.devices = tx.devices
    BY <2>2 DEF Database
  <2>4. Write(db)
    BY <1>0, <1>12, <2>2 DEF Unplace
  <2> HIDE DEF db
  <2> QED BY <1>d, <2>1, <2>3, <2>4
<1>13. CASE DeletePlanRows
  <2> DEFINE db == [tx EXCEPT !.plans[target] = << >>]
  <2>1. pc = "deletePlan" /\ pc' = "endPlan"
    BY <1>13 DEF DeletePlanRows, Goto
  <2>2. View = tx /\ tx \in Database
    BY <1>c, <2>1 DEF Deleting
  <2>3. db.rooms = tx.rooms /\ db.devices = tx.devices
    BY <2>2 DEF Database
  <2>4. Write(db)
    BY <1>0, <1>13, <2>2 DEF DeletePlanRows
  <2> HIDE DEF db
  <2> QED BY <1>d, <2>1, <2>3, <2>4
<1>14. CASE EndPlan
  <2>1. pc = "endPlan" /\ pc' = "idle" /\ tx \in Database
    BY <1>c, <1>14 DEF EndPlan, Goto, Deleting
  <2>2. tx.rooms = disk.rooms /\ tx.devices = disk.devices
    BY <2>1 DEF Alone
  <2>3. tx' = Closed /\ (disk' = disk \/ disk' = tx)
    BY <1>14 DEF EndPlan, Rollback, Commit
  <2>4. BookStep(disk, disk')
    BY <1>0, <1>b, <2>1, <2>2, <2>3, BookOf DEF BookStep, Kept
  <2> QED BY <2>1, <2>3, <2>4 DEF Alone, Deleting
<1>e. ASSUME pc \notin Deleting, pc' \notin Deleting, UNCHANGED dbVars
      PROVE  Alone' /\ BookStep(disk, disk')
  BY <1>0, <1>b, <1>e DEF Alone, Deleting, dbVars
<1>15. CASE CacheName \/ CacheRoom
  BY <1>15, <1>e DEF CacheName, CacheRoom, Deleting
<1>16. ASSUME NEW d \in Devices, Announce(d) \/ RemoveDevice(d)
       PROVE  Alone' /\ BookStep(disk, disk')
  BY <1>16, <1>e DEF Announce, RemoveDevice, Deleting
<1>17. CASE Crash
  BY <1>17, <1>b DEF Crash, Rollback, Alone, Deleting
<1>18. CASE Restart \/ UNCHANGED vars
  BY <1>18, <1>b DEF Restart, vars, dbVars, Alone
<1> QED BY <1>1, <1>2, <1>3, <1>4, <1>5, <1>6, <1>7, <1>8, <1>9, <1>10, <1>11, <1>12, <1>13,
           <1>14, <1>15, <1>16, <1>17, <1>18, Cases

\* Naming, moving and deleting, with their statements, their transactions
\* and a crash between any two of them, change the committed tables as the
\* book says: each in one step, deleteroom with all its assignments.
THEOREM TablesImplementBook ==
    ASSUME Contended = FALSE PROVE Spec => Implements
<1>1. Init => Alone /\ Book!Init
  BY DEF Init, Alone, Deleting, Book!Init, Listed, NamedDevices
<1>2. Inv /\ Alone /\ [Next]_vars => (Inv /\ Alone)' /\ [Book!Next]_(Book!bookVars)
  BY TypeStep, AloneStep, BookStepOf
<1> QED BY <1>1, <1>2, InitInv, PTL DEF Spec, Implements, Book!Spec

-----------------------------------------------------------------------------
(* A floorplan goes whole.                                                 *)

On(db, p) == {x \in db.placed : x[1] = p}
Bare(db, p) == {x \in db.placed : x[1] # p}

\* How the floorplans may change from one committed database to the next.
PlanStep(a, b) ==
    \A p \in Plans :
        /\ a.plans[p] # << >> /\ b.plans[p] = << >> => On(b, p) = {}
        /\ a.plans[p] # << >> /\ b.plans[p] # << >> => On(a, p) \subseteq On(b, p)

\* The transaction of deletefloorplan, by its statements so far; the one of
\* deleteroom leaves the floorplans alone, as Alone says.
PlansInv ==
    /\ pc = "unplace" => tx = disk
    /\ pc = "deletePlan" => tx.plans = disk.plans /\ tx.placed = Bare(disk, target)
    /\ pc = "endPlan" => /\ tx.plans = [disk.plans EXCEPT ![target] = << >>]
                         /\ tx.placed = Bare(disk, target)

LEMMA PlanSame ==
    ASSUME NEW a, NEW b, b.plans = a.plans, a.placed \subseteq b.placed
    PROVE  PlanStep(a, b)
BY DEF PlanStep, On

\* The updates that are about other tables.
LEMMA OtherTables ==
    ASSUME NEW db \in Database
    PROVE  /\ \A r, rows : /\ [db EXCEPT !.rooms[r] = rows].plans = db.plans
                           /\ [db EXCEPT !.rooms[r] = rows].placed = db.placed
           /\ \A d, rows : /\ [db EXCEPT !.devices[d] = rows].plans = db.plans
                           /\ [db EXCEPT !.devices[d] = rows].placed = db.placed
           /\ \A all : /\ [db EXCEPT !.devices = all].plans = db.plans
                       /\ [db EXCEPT !.devices = all].placed = db.placed
BY DEF Database

\* A plan that has a row keeps one when it is named.
LEMMA StepNamePlan ==
    ASSUME NEW db \in Database, NEW p \in Plans, NEW n \in RoomNames
    PROVE  PlanStep(db, [db EXCEPT !.plans[p] = Named(db.plans[p], n)])
<1> DEFINE b == [db EXCEPT !.plans[p] = Named(db.plans[p], n)]
<1>1. db.plans[p] \in Seq(RoomNames)
  BY RowTypes
<1>2. db.plans[p] # << >> => Named(db.plans[p], n) # << >>
  BY <1>1, NamedRows
<1>3. /\ b.placed = db.placed
      /\ \A q \in Plans : b.plans[q] = IF q = p THEN Named(db.plans[p], n) ELSE db.plans[q]
  BY DEF Database
<1> HIDE DEF b
<1>4. PlanStep(db, b)
  BY <1>2, <1>3 DEF PlanStep, On
<1> QED BY <1>4 DEF b

\* deletefloorplan takes the floorplan with its places, and no other place.
LEMMA StepStrikePlan ==
    ASSUME NEW a, NEW b, NEW p \in Plans, a.plans \in [Plans -> Seq(RoomNames)],
           b.plans = [a.plans EXCEPT ![p] = << >>], b.placed = Bare(a, p)
    PROVE  PlanStep(a, b)
<1>1. On(b, p) = {} /\ \A q \in Plans : q # p => On(b, q) = On(a, q)
  BY DEF On, Bare
<1>2. b.plans[p] = << >>
  OBVIOUS
<1> QED BY <1>1, <1>2 DEF PlanStep

LEMMA PlansStep ==
    ASSUME Contended = FALSE, Inv, Alone, PlansInv, [Next]_vars
    PROVE  PlansInv' /\ PlanStep(disk, disk')
<1>0. /\ DbType /\ RestType /\ disk \in Database
      /\ pc \in Deleting => tx # Closed /\ View = tx /\ tx \in Database
      /\ pc \notin Deleting => tx = Closed /\ View = disk
      /\ ~Busy
  BY DEF Inv, DbType, Alone, View, Busy
<1>a. ASSUME NEW db, Write(db), pc \notin Deleting, pc' \notin Deleting, PlanStep(disk, db)
      PROVE  PlansInv' /\ PlanStep(disk, disk')
  <2>1. disk' = db
    BY <1>0, <1>a DEF Write
  <2> QED BY <1>a, <2>1 DEF PlansInv, Deleting
<1>b. disk' = disk => PlanStep(disk, disk')
  BY PlanSame
<1>1. ASSUME NEW r \in RoomIds, NEW n \in RoomNames, SetRoomName(r, n)
      PROVE  PlansInv' /\ PlanStep(disk, disk')
  <2> DEFINE db == [disk EXCEPT !.rooms[r] = Named(disk.rooms[r], n)]
  <2>1. PlanStep(disk, db)
    <3>1. db.plans = disk.plans /\ db.placed = disk.placed
      BY <1>0, OtherTables
    <3> HIDE DEF db
    <3> QED BY <3>1, PlanSame
  <2>2. pc \notin Deleting /\ pc' \notin Deleting
    BY <1>1 DEF SetRoomName, Receive, Stay, Deleting
  <2>3. Write(db)
    BY <1>0, <1>1, <2>2 DEF SetRoomName
  <2> QED BY <1>a, <2>1, <2>2, <2>3
<1>2. ASSUME NEW p \in Plans, NEW n \in RoomNames, SetFloorplanName(p, n)
      PROVE  PlansInv' /\ PlanStep(disk, disk')
  <2> DEFINE db == [disk EXCEPT !.plans[p] = Named(disk.plans[p], n)]
  <2>1. PlanStep(disk, db)
    BY <1>0, StepNamePlan
  <2>2. pc \notin Deleting /\ pc' \notin Deleting
    BY <1>2 DEF SetFloorplanName, Receive, Stay, Deleting
  <2>3. Write(db)
    BY <1>0, <1>2, <2>2 DEF SetFloorplanName
  <2> QED BY <1>a, <2>1, <2>2, <2>3
<1>3. ASSUME NEW d \in Devices, NEW p \in Plans, SetDeviceFloorplan(d, p)
      PROVE  PlansInv' /\ PlanStep(disk, disk')
  <2> DEFINE more == disk.placed \union {<<p, d>>}
             db == [disk EXCEPT !.placed = more]
  <2>1. PlanStep(disk, db)
    <3>1. db.plans = disk.plans /\ db.placed = more
      BY <1>0 DEF Database
    <3> HIDE DEF db
    <3> QED BY <3>1, PlanSame
  <2>2. pc \notin Deleting /\ pc' \notin Deleting
    BY <1>3 DEF SetDeviceFloorplan, Receive, Stay, Deleting
  <2>3. Write(db)
    BY <1>0, <1>3, <2>2 DEF SetDeviceFloorplan
  <2> QED BY <1>a, <2>1, <2>2, <2>3
<1>c. ASSUME NEW d \in Devices, NEW rows
      PROVE  PlanStep(disk, [disk EXCEPT !.devices[d] = rows])
  <2> DEFINE db == [disk EXCEPT !.devices[d] = rows]
  <2>1. db.plans = disk.plans /\ db.placed = disk.placed
    BY <1>0, OtherTables
  <2> HIDE DEF db
  <2>2. PlanStep(disk, db)
    BY <2>1, PlanSame
  <2> QED BY <2>2 DEF db
<1>4. ASSUME NEW d \in Devices, NEW n \in Names, SetDeviceName(d, n)
      PROVE  PlansInv' /\ PlanStep(disk, disk')
  <2> DEFINE db == [disk EXCEPT !.devices[d] = DeviceRows(disk.devices[d], n)]
  <2>2. pc \notin Deleting /\ pc' \notin Deleting
    BY <1>4 DEF SetDeviceName, Receive, Stay, Goto, Deleting
  <2>3. Write(db)
    BY <1>0, <1>4, <2>2 DEF SetDeviceName
  <2> QED BY <1>a, <1>c, <2>2, <2>3
<1>5. ASSUME NEW d \in Devices, ForgetDevice(d)
      PROVE  PlansInv' /\ PlanStep(disk, disk')
  <2> DEFINE db == [disk EXCEPT !.devices[d] = << >>]
  <2>2. pc \notin Deleting /\ pc' \notin Deleting
    BY <1>5 DEF ForgetDevice, Receive, Goto, Deleting
  <2>3. Write(db)
    BY <1>0, <1>5, <2>2 DEF ForgetDevice
  <2> QED BY <1>a, <1>c, <2>2, <2>3
<1>6. ASSUME NEW d \in Devices, NEW r \in Places, SetDeviceRoom(d, r)
      PROVE  PlansInv' /\ PlanStep(disk, disk')
  <2> DEFINE db == [disk EXCEPT !.devices[d] = Moved(disk.devices[d], r)]
  <2>2. pc \notin Deleting /\ pc' \notin Deleting
    BY <1>6 DEF SetDeviceRoom, Receive, Stay, Goto, Deleting
  <2>3. Write(db)
    BY <1>0, <1>6, <2>2 DEF SetDeviceRoom, Moved
  <2> QED BY <1>a, <1>c, <2>2, <2>3
<1>7. ASSUME NEW r \in RoomIds, DeleteRoom(r) PROVE PlansInv' /\ PlanStep(disk, disk')
  <2>1. pc' = "unassign" /\ disk' = disk
    BY <1>7 DEF DeleteRoom, Goto, Begin
  <2> QED BY <1>b, <2>1 DEF PlansInv
<1>8. ASSUME NEW p \in Plans, DeleteFloorplan(p) PROVE PlansInv' /\ PlanStep(disk, disk')
  <2>1. pc \notin Deleting /\ pc' = "unplace"
    BY <1>8 DEF DeleteFloorplan, Receive, Goto, Deleting
  <2>2. tx' = disk /\ disk' = disk
    BY <1>0, <1>8, <2>1 DEF DeleteFloorplan, Begin
  <2> QED BY <1>b, <2>1, <2>2 DEF PlansInv
<1>9. CASE Unassign \/ DeleteRoomRows
  <2>1. pc \in Deleting /\ pc' \in {"deleteRoom", "endRoom"}
    BY <1>9 DEF Unassign, DeleteRoomRows, Goto, Deleting
  <2>2. disk' = disk
    BY <1>0, <1>9, <2>1 DEF Unassign, DeleteRoomRows, Write
  <2> QED BY <1>b, <2>1, <2>2 DEF PlansInv
<1>10. CASE EndRoom
  <2>1. pc = "endRoom" /\ pc' = "idle" /\ target \in RoomIds
    BY <1>0, <1>10 DEF EndRoom, Goto, RestType
  <2>2. tx = Struck(disk, target)
    BY <2>1 DEF Alone
  <2>3. disk' = disk \/ disk' = Struck(disk, target)
    BY <1>10, <2>2 DEF EndRoom, Rollback, Commit, dbVars
  <2>4. PlanStep(disk, Struck(disk, target))
    BY <1>0, <2>1, EmptiedType, PlanSame
  <2> QED BY <1>b, <2>1, <2>3, <2>4 DEF PlansInv
<1>11. CASE Unplace
  <2> DEFINE rest == {x \in tx.placed : x[1] # target}
             db == [tx EXCEPT !.placed = rest]
  <2>1. pc = "unplace" /\ pc' = "deletePlan" /\ target' = target
    BY <1>11 DEF Unplace, Goto
  <2>2. View = tx /\ tx \in Database /\ tx # Closed /\ tx = disk
    BY <1>0, <2>1 DEF Deleting, PlansInv
  <2>3. db.plans = tx.plans /\ db.placed = rest
    BY <2>2 DEF Database
  <2>4. Write(db)
    BY <1>0, <1>11, <2>2 DEF Unplace
  <2>5. rest = Bare(disk, target)
    BY <2>2 DEF Bare
  <2> HIDE DEF db, rest
  <2>6. tx' = db /\ disk' = disk
    BY <2>2, <2>4 DEF Write
  <2>7. tx'.plans = disk'.plans /\ tx'.placed = Bare(disk', target')
    BY <2>1, <2>2, <2>3, <2>5, <2>6
  <2>8. Bare(disk', target') = Bare(disk, target)'
    BY DEF Bare
  <2> QED BY <1>b, <2>1, <2>6, <2>7, <2>8 DEF PlansInv
<1>12. CASE DeletePlanRows
  <2> DEFINE db == [tx EXCEPT !.plans[target] = << >>]
  <2>1. pc = "deletePlan" /\ pc' = "endPlan" /\ target' = target
    BY <1>12 DEF DeletePlanRows, Goto
  <2>2. /\ View = tx /\ tx \in Database /\ tx # Closed
        /\ tx.plans = disk.plans /\ tx.placed = Bare(disk, target)
    BY <1>0, <2>1 DEF Deleting, PlansInv
  <2>3. db.plans = [tx.plans EXCEPT ![target] = << >>] /\ db.placed = tx.placed
    BY <2>2 DEF Database
  <2>4. Write(db)
    BY <1>0, <1>12, <2>2 DEF DeletePlanRows
  <2> HIDE DEF db
  <2>5. tx' = db /\ disk' = disk
    BY <2>2, <2>4 DEF Write
  <2>6. /\ tx'.plans = [disk'.plans EXCEPT ![target'] = << >>]
        /\ tx'.placed = Bare(disk', target')
    BY <2>1, <2>2, <2>3, <2>5
  <2>7. Bare(disk', target') = Bare(disk, target)'
    BY DEF Bare
  <2> QED BY <1>b, <2>1, <2>5, <2>6, <2>7 DEF PlansInv
<1>13. CASE EndPlan
  <2>1. pc = "endPlan" /\ pc' = "idle" /\ target \in Plans
    BY <1>0, <1>13 DEF EndPlan, Goto, RestType
  <2>2. tx.plans = [disk.plans EXCEPT ![target] = << >>] /\ tx.placed = Bare(disk, target)
    BY <2>1 DEF PlansInv
  <2>3. disk' = disk \/ disk' = tx
    BY <1>13 DEF EndPlan, Rollback, Commit, dbVars
  <2>4. disk.plans \in [Plans -> Seq(RoomNames)]
    BY <1>0 DEF Database, RoomNames
  <2>5. PlanStep(disk, tx)
    BY <2>1, <2>2, <2>4, StepStrikePlan
  <2> QED BY <1>b, <2>1, <2>3, <2>5 DEF PlansInv
<1>e. ASSUME pc \notin Deleting, pc' \notin Deleting, UNCHANGED dbVars
      PROVE  PlansInv' /\ PlanStep(disk, disk')
  BY <1>b, <1>e DEF PlansInv, Deleting, dbVars
<1>14. CASE CacheName \/ CacheRoom
  BY <1>14, <1>e DEF CacheName, CacheRoom, Deleting
<1>15. ASSUME NEW d \in Devices, Announce(d) \/ RemoveDevice(d)
       PROVE  PlansInv' /\ PlanStep(disk, disk')
  BY <1>15, <1>e DEF Announce, RemoveDevice, Deleting
<1>16. CASE Crash
  BY <1>16, <1>b DEF Crash, Rollback, PlansInv
<1>17. CASE Restart \/ UNCHANGED vars
  <2>1. UNCHANGED <<pc, disk, tx, target>>
    BY <1>17 DEF Restart, vars, dbVars
  <2> QED BY <1>b, <2>1 DEF PlansInv, Bare
<1> QED BY <1>1, <1>2, <1>3, <1>4, <1>5, <1>6, <1>7, <1>8, <1>9, <1>10, <1>11, <1>12, <1>13,
           <1>14, <1>15, <1>16, <1>17, Cases

\* Wherever the resolver dies, a floorplan is on disk with every device that was
\* placed on it, or is gone with all of them.
THEOREM PlansGoWhole ==
    ASSUME Contended = FALSE PROVE Spec => PlanWhole
<1>1. Init => Inv /\ Alone /\ PlansInv
  BY InitInv DEF Init, Alone, PlansInv, Deleting
<1>2. Inv /\ Alone /\ PlansInv /\ [Next]_vars
        => (Inv /\ Alone /\ PlansInv)' /\ PlanStep(disk, disk')
  BY TypeStep, AloneStep, PlansStep
<1>3. PlanStep(disk, disk') =>
        [\A p \in Plans :
           LET on(db) == {x \in db.placed : x[1] = p}
           IN  /\ disk.plans[p] # << >> /\ disk'.plans[p] = << >> => on(disk') = {}
               /\ disk.plans[p] # << >> /\ disk'.plans[p] # << >> => on(disk) \subseteq on(disk')
        ]_vars
  BY DEF PlanStep, On
<1> QED BY <1>1, <1>2, <1>3, PTL DEF Spec, PlanWhole

-----------------------------------------------------------------------------
(* A device has one row.                                                   *)

AtMostOne(db) == \A d \in Devices : Len(db.devices[d]) <= 1
RowsInv == AtMostOne(disk) /\ (tx # Closed => AtMostOne(tx))

LEMMA RowsWrite ==
    ASSUME Inv, RowsInv, NEW db \in Database, AtMostOne(db), Write(db) \/ Busy
    PROVE  RowsInv'
BY ClosedIsNoDatabase DEF RowsInv, AtMostOne, Write, Busy, dbVars

LEMMA RowsStep == ASSUME Inv, RowsInv, [Next]_vars PROVE RowsInv'
<1>0. DbType /\ RestType /\ View \in Database /\ AtMostOne(View)
  BY ViewType DEF Inv, RowsInv, View
<1>1. ASSUME NEW r \in RoomIds, NEW n \in RoomNames, SetRoomName(r, n) PROVE RowsInv'
  <2> DEFINE db == [View EXCEPT !.rooms[r] = Named(View.rooms[r], n)]
  <2>1. db \in Database
    BY <1>0, RowTypes, NamedRows, RoomsUpdate
  <2>2. db.devices = View.devices /\ (Write(db) \/ Busy)
    BY <1>0, <1>1 DEF Database, SetRoomName
  <2> HIDE DEF db
  <2> QED BY <1>0, <2>1, <2>2, RowsWrite DEF AtMostOne
<1>2. ASSUME NEW p \in Plans, NEW n \in RoomNames, SetFloorplanName(p, n) PROVE RowsInv'
  <2> DEFINE db == [View EXCEPT !.plans[p] = Named(View.plans[p], n)]
  <2>1. db \in Database
    BY <1>0, RowTypes, NamedRows, PlansUpdate
  <2>2. db.devices = View.devices /\ (Write(db) \/ Busy)
    BY <1>0, <1>2 DEF Database, SetFloorplanName
  <2> HIDE DEF db
  <2> QED BY <1>0, <2>1, <2>2, RowsWrite DEF AtMostOne
<1>3. ASSUME NEW d \in Devices, NEW p \in Plans, SetDeviceFloorplan(d, p) PROVE RowsInv'
  <2> DEFINE more == View.placed \union {<<p, d>>}
             db == [View EXCEPT !.placed = more]
  <2>0. more \in SUBSET (Plans \X Devices)
    BY <1>0, RowTypes
  <2>1. db \in Database
    BY <1>0, <2>0, PlacedUpdate
  <2>2. db.devices = View.devices /\ (Write(db) \/ Busy)
    BY <1>0, <1>3 DEF Database, SetDeviceFloorplan
  <2> HIDE DEF db
  <2> QED BY <1>0, <2>1, <2>2, RowsWrite DEF AtMostOne
<1>a. ASSUME NEW d \in Devices, NEW rows \in Seq(DeviceRow), Len(rows) <= 1,
             Write([View EXCEPT !.devices[d] = rows]) \/ Busy
      PROVE  RowsInv'
  <2> DEFINE db == [View EXCEPT !.devices[d] = rows]
  <2>1. db \in Database /\ AtMostOne(db)
    BY <1>0, <1>a, DeviceWritten DEF AtMostOne
  <2> QED BY <1>a, <2>1, RowsWrite
<1>b. \A d \in Devices : View.devices[d] \in Seq(DeviceRow) /\ Len(View.devices[d]) <= 1
  BY <1>0, RowTypes DEF AtMostOne
<1>4. ASSUME NEW d \in Devices, NEW n \in Names, SetDeviceName(d, n) PROVE RowsInv'
  <2>1. /\ DeviceRows(View.devices[d], n) \in Seq(DeviceRow)
        /\ Len(DeviceRows(View.devices[d], n)) <= 1
    BY <1>b, RowNames
  <2> QED BY <1>4, <1>a, <2>1 DEF SetDeviceName
<1>5. ASSUME NEW d \in Devices, ForgetDevice(d) PROVE RowsInv'
  <2>1. << >> \in Seq(DeviceRow) /\ Len(<< >>) <= 1
    OBVIOUS
  <2> QED BY <1>5, <1>a, <2>1 DEF ForgetDevice
<1>6. ASSUME NEW d \in Devices, NEW r \in Places, SetDeviceRoom(d, r) PROVE RowsInv'
  <2>1. /\ Moved(View.devices[d], r) \in Seq(DeviceRow)
        /\ Len(Moved(View.devices[d], r)) <= 1
    BY <1>b, MovedRows
  <2> QED BY <1>6, <1>a, <2>1 DEF SetDeviceRoom, Moved
<1>7. CASE Begin
  BY <1>0, <1>7 DEF Begin, RowsInv
<1>8. CASE Unassign
  <2>0. target \in RoomIds
    BY <1>0, <1>8 DEF Unassign, RestType
  <2> DEFINE devices == [d \in Devices |-> Vacated(View.devices[d], target)]
             db == [View EXCEPT !.devices = devices]
  <2>1. devices \in [Devices -> Seq(DeviceRow)] /\ \A d \in Devices : Len(devices[d]) <= 1
    BY <1>b, <2>0, VacatedRows
  <2>2. db \in Database /\ db.devices = devices
    BY <1>0, <2>1, AllDevicesUpdate DEF Database
  <2>3. Write(db) \/ Busy
    BY <1>8 DEF Unassign
  <2> HIDE DEF db, devices
  <2> QED BY <2>1, <2>2, <2>3, RowsWrite DEF AtMostOne
<1>9. CASE DeleteRoomRows
  <2> DEFINE db == [View EXCEPT !.rooms[target] = << >>]
  <2>0. target \in RoomIds /\ << >> \in Seq(RoomNames)
    BY <1>0, <1>9 DEF DeleteRoomRows, RestType
  <2>1. db \in Database
    BY <1>0, <2>0, RoomsUpdate
  <2>2. db.devices = View.devices /\ (Write(db) \/ Busy)
    BY <1>0, <1>9 DEF Database, DeleteRoomRows
  <2> HIDE DEF db
  <2> QED BY <1>0, <2>1, <2>2, RowsWrite DEF AtMostOne
<1>10. CASE Unplace
  <2> DEFINE rest == {x \in View.placed : x[1] # target}
             db == [View EXCEPT !.placed = rest]
  <2>0. rest \in SUBSET (Plans \X Devices)
    BY <1>0, RowTypes
  <2>1. db \in Database
    BY <1>0, <2>0, PlacedUpdate
  <2>2. db.devices = View.devices /\ (Write(db) \/ Busy)
    BY <1>0, <1>10 DEF Database, Unplace
  <2> HIDE DEF db
  <2> QED BY <1>0, <2>1, <2>2, RowsWrite DEF AtMostOne
<1>11. CASE DeletePlanRows
  <2> DEFINE db == [View EXCEPT !.plans[target] = << >>]
  <2>0. target \in Plans /\ << >> \in Seq(RoomNames)
    BY <1>0, <1>11 DEF DeletePlanRows, RestType
  <2>1. db \in Database
    BY <1>0, <2>0, PlansUpdate
  <2>2. db.devices = View.devices /\ (Write(db) \/ Busy)
    BY <1>0, <1>11 DEF Database, DeletePlanRows
  <2> HIDE DEF db
  <2> QED BY <1>0, <2>1, <2>2, RowsWrite DEF AtMostOne
<1>12. CASE pc \in Deleting /\ (Commit \/ Rollback)
  BY <1>12 DEF Commit, Rollback, dbVars, RowsInv, Inv
<1>13. CASE Crash
  BY <1>13 DEF Crash, Rollback, RowsInv
<1>14. CASE UNCHANGED dbVars
  BY <1>14 DEF dbVars, RowsInv
<1>15. ASSUME \/ \E r \in RoomIds : DeleteRoom(r)
              \/ \E p \in Plans : DeleteFloorplan(p)
      PROVE  RowsInv'
  BY <1>7, <1>15 DEF DeleteRoom, DeleteFloorplan
<1>16. CASE EndRoom \/ EndPlan
  BY <1>12, <1>16 DEF EndRoom, EndPlan, Deleting
<1>17. ASSUME \/ CacheName \/ CacheRoom \/ Restart \/ UNCHANGED vars
              \/ \E d \in Devices : Announce(d) \/ RemoveDevice(d)
      PROVE  RowsInv'
  BY <1>14, <1>17 DEF CacheName, CacheRoom, Restart, vars, Announce, RemoveDevice
<1> QED BY <1>1, <1>2, <1>3, <1>4, <1>5, <1>6, <1>8, <1>9, <1>10, <1>11, <1>13, <1>15, <1>16,
           <1>17, Cases

\* The select of getfirst meets one row of a device, whatever was named,
\* moved, forgotten, rolled back or refused for want of a lock before.
THEOREM RowsUnique == Spec => []OneRowPerDevice
<1>1. Init => RowsInv
  BY DEF Init, RowsInv, AtMostOne
<1>2. Inv /\ RowsInv /\ [Next]_vars => (Inv /\ RowsInv)'
  BY TypeStep, RowsStep
<1>3. RowsInv => OneRowPerDevice
  BY DEF RowsInv, AtMostOne, OneRowPerDevice, View
<1> QED BY <1>1, <1>2, <1>3, InitInv, PTL DEF Spec
=============================================================================

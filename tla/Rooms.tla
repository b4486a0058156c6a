--------------------------------- MODULE Rooms ---------------------------------
(***************************************************************************)
(* The names and places of things: the tables of inventory.cpp, the        *)
(* commands of agoresolver.cpp that change them, and the copy of a         *)
(* device's name and room in the resolver's memory.                        *)
(*                                                                         *)
(* No table has a key, and every statement selects by uuid, so a table is  *)
(* a function from uuids to the rows with that uuid, oldest first.  A      *)
(* read returns the first row, getrooms() shows the last one.  The empty   *)
(* name is what a read returns when there is no row.  SQLite makes a       *)
(* statement outside a transaction, and a transaction, atomic and durable. *)
(*                                                                         *)
(* If Contended, another process (ago_import_lmce_knx.sh) may use the      *)
(* file at the same time: a statement that cannot get the write lock, or   *)
(* a COMMIT that meets a reader, fails with SQLITE_BUSY, which getfirst    *)
(* drops.  Reads that fail so, and the rows the other process inserts, are *)
(* left out, as are coordinates, locations and replies.                    *)
(***************************************************************************)
EXTENDS Naturals, Sequences

CONSTANTS
    Devices, RoomIds, Plans,    \* uuids
    Names, Empty,               \* non-empty names; "", also "in no room"
    Closed,                     \* no transaction
    Persistent,                 \* devicepersistence in the configuration
    Contended,                  \* another process uses the database
    MaxCommands, MaxCrashes     \* bounds of the model

Places == RoomIds \union {Empty}
DeviceRow == [name : Names, room : Places]
Database == [rooms : [RoomIds -> Seq(Names \union {Empty})],
             devices : [Devices -> Seq(DeviceRow)],
             plans : [Plans -> Seq(Names \union {Empty})],
             placed : SUBSET (Plans \X Devices)]
Card == [name : Names \union {Empty}, room : Places]

ASSUME RoomsAssumption ==
    /\ Empty \notin Names \union RoomIds
    /\ Closed \notin Database
    /\ Persistent \in BOOLEAN
    /\ Contended \in BOOLEAN
    /\ MaxCommands \in Nat
    /\ MaxCrashes \in Nat

VARIABLES
    disk,           \* the database as committed
    tx,             \* the database as the open transaction sees it, or Closed
    locked,         \* the open transaction holds the write lock
    up, pc, target, \* the resolver: running, place in a command, its uuid
    cache,          \* name and room of the listed devices
    file,           \* the same in devices.json
    commands, crashes

dbVars == <<disk, tx, locked>>
vars == <<dbVars, up, pc, target, cache, file, commands, crashes>>

Steps == {"idle", "cacheName", "cacheRoom", "unassign", "deleteRoom", "endRoom",
            "unplace", "deletePlan", "endPlan"}
Cards == UNION {[S -> Card] : S \in SUBSET Devices}

TypeOK ==
    /\ disk \in Database
    /\ tx \in Database \union {Closed}
    /\ locked \in BOOLEAN
    /\ tx = Closed => ~locked
    /\ up \in BOOLEAN
    /\ pc \in Steps
    /\ target \in Devices \union RoomIds \union Plans \union {Empty}
    /\ pc \in {"cacheName", "cacheRoom"} => target \in Devices
    /\ pc \in {"unassign", "deleteRoom", "endRoom"} => target \in RoomIds
    /\ pc \in {"unplace", "deletePlan", "endPlan"} => target \in Plans
    /\ cache \in Cards
    /\ file \in Cards
    /\ commands \in 0..MaxCommands
    /\ crashes \in 0..MaxCrashes

Init ==
    /\ disk = [rooms |-> [r \in RoomIds |-> << >>], devices |-> [d \in Devices |-> << >>],
               plans |-> [p \in Plans |-> << >>], placed |-> {}]
    /\ tx = Closed /\ locked = FALSE
    /\ up = TRUE /\ pc = "idle" /\ target = Empty
    /\ cache = << >> /\ file = << >>
    /\ commands = 0 /\ crashes = 0

-----------------------------------------------------------------------------
(* Statements.                                                             *)

View == IF tx = Closed THEN disk ELSE tx

\* getfirst of a select: the first row, or "".
First(rows) == IF rows = << >> THEN Empty ELSE rows[1]
\* getrooms: the last row of a uuid overwrites the ones before it.
Shown(rows) == rows[Len(rows)]
RoomOf(db, d) == IF db.devices[d] = << >> THEN Empty ELSE db.devices[d][1].room
NameOf(db, d) == IF db.devices[d] = << >> THEN Empty ELSE db.devices[d][1].name
CardOf(db, d) == [name |-> NameOf(db, d), room |-> RoomOf(db, d)]

\* "update ... set name = ?": every row.
Rename(rows, n) == [i \in DOMAIN rows |-> n]

\* A write statement, of its own or in the open transaction.
Write(db) ==
    IF tx = Closed THEN disk' = db /\ UNCHANGED <<tx, locked>>
    ELSE tx' = db /\ locked' = TRUE /\ UNCHANGED disk

\* SQLITE_BUSY: nothing happens, and getfirst says nothing.
Busy == Contended /\ ~locked /\ UNCHANGED dbVars

\* getfirst("BEGIN"): inside a transaction it fails, and the old one goes on.
Begin == tx' = View /\ UNCHANGED <<disk, locked>>

Rollback == tx' = Closed /\ locked' = FALSE /\ UNCHANGED disk
Commit ==
    \/ disk' = tx /\ tx' = Closed /\ locked' = FALSE
    \/ Contended /\ locked /\ UNCHANGED dbVars

-----------------------------------------------------------------------------
(* The commands that name things.                                          *)

Receive == up /\ pc = "idle" /\ commands < MaxCommands /\ commands' = commands + 1
Stay == UNCHANGED <<pc, target, cache, file>>
Goto(place, id) == pc' = place /\ target' = id /\ UNCHANGED <<cache, file>>

\* "does not exist, create" or else update, by the name that is there.
Named(rows, n) == IF First(rows) = Empty THEN Append(rows, n) ELSE Rename(rows, n)

\* setroomname, for a given or a generated uuid.
SetRoomName(r, n) ==
    /\ Receive
    /\ Write([View EXCEPT !.rooms[r] = Named(@, n)]) \/ Busy
    /\ Stay
    /\ UNCHANGED <<up, crashes>>

\* setfloorplanname.
SetFloorplanName(p, n) ==
    /\ Receive
    /\ Write([View EXCEPT !.plans[p] = Named(@, n)]) \/ Busy
    /\ Stay
    /\ UNCHANGED <<up, crashes>>

\* setdevicefloorplan: a new place or new coordinates.
SetDeviceFloorplan(d, p) ==
    /\ Receive
    /\ Write([View EXCEPT !.placed = @ \union {<<p, d>>}]) \/ Busy
    /\ Stay
    /\ UNCHANGED <<up, crashes>>

\* Wrong: does not look for the row.
AppendDeviceRow(rows, n) == Append(rows, [name |-> n, room |-> Empty])

DeviceRows(rows, n) ==
    IF rows = << >> THEN <<[name |-> n, room |-> Empty]>>
    ELSE [i \in DOMAIN rows |-> [rows[i] EXCEPT !.name = n]]

\* setdevicename: the empty name deletes the row; otherwise the new name is
\* read back, and only then is the copy in memory changed.
SetDeviceName(d, n) ==
    /\ Receive
    /\ \/ Write([View EXCEPT !.devices[d] = DeviceRows(@, n)]) /\ Goto("cacheName", d)
       \/ Busy /\ NameOf(View, d) = n /\ Goto("cacheName", d)
       \/ Busy /\ NameOf(View, d) # n /\ Stay
    /\ UNCHANGED <<up, crashes>>
ForgetDevice(d) ==
    /\ Receive
    /\ Write([View EXCEPT !.devices[d] = << >>]) \/ Busy
    /\ Goto("cacheName", d)
    /\ UNCHANGED <<up, crashes>>

\* setdeviceroom: only a named device has a row; nobody asks for the room.
SetDeviceRoom(d, r) ==
    LET moved == [View EXCEPT !.devices[d] =
                    [i \in DOMAIN @ |-> [@[i] EXCEPT !.room = r]]]
    IN  /\ Receive
        /\ \/ Write(moved) /\ RoomOf(moved, d) = r /\ Goto("cacheRoom", d)
           \/ Write(moved) /\ RoomOf(moved, d) # r /\ Stay
           \/ Busy /\ RoomOf(View, d) = r /\ Goto("cacheRoom", d)
           \/ Busy /\ RoomOf(View, d) # r /\ Stay
        /\ UNCHANGED <<up, crashes>>

Cached(d, card) == [c \in DOMAIN cache \union {d} |-> IF c = d THEN card ELSE cache[c]]
Saved(cards) == IF Persistent THEN cards ELSE file

\* "update name in local device map", and saveDevicemap.
CacheName ==
    /\ pc = "cacheName"
    /\ pc' = "idle"
    /\ IF target \in DOMAIN cache
       THEN cache' = [cache EXCEPT ![target].name = NameOf(View, target)]
       ELSE UNCHANGED cache
    /\ file' = Saved(cache')
    /\ UNCHANGED <<dbVars, up, target, commands, crashes>>

\* Wrong: the copy in memory is left alone.
CacheRoomSkipped ==
    /\ pc = "cacheRoom"
    /\ pc' = "idle"
    /\ UNCHANGED <<dbVars, up, target, cache, file, commands, crashes>>

\* "update room in local device map"; not saved.
CacheRoom ==
    /\ pc = "cacheRoom"
    /\ pc' = "idle"
    /\ IF target \in DOMAIN cache
       THEN cache' = [cache EXCEPT ![target].room = RoomOf(View, target)]
       ELSE UNCHANGED cache
    /\ UNCHANGED <<dbVars, up, target, file, commands, crashes>>

-----------------------------------------------------------------------------
(* deleteroom and deletefloorplan.                                         *)

DeleteRoom(r) ==
    /\ Receive
    /\ Begin
    /\ Goto("unassign", r)
    /\ UNCHANGED <<up, crashes>>

Vacated(rows, r) ==
    [i \in DOMAIN rows |-> IF rows[i].room = r THEN [rows[i] EXCEPT !.room = Empty] ELSE rows[i]]

\* Wrong: the devices are forgotten.
UnassignForgotten ==
    /\ pc = "unassign"
    /\ UNCHANGED dbVars
    /\ Goto("deleteRoom", target)
    /\ UNCHANGED <<up, commands, crashes>>

\* "update devices set room = '' where room = ?".
Unassign ==
    /\ pc = "unassign"
    /\ \/ Write([View EXCEPT !.devices = [d \in Devices |-> Vacated(@[d], target)]])
       \/ Busy
    /\ Goto("deleteRoom", target)
    /\ UNCHANGED <<up, commands, crashes>>

DeleteRoomRows ==
    /\ pc = "deleteRoom"
    /\ Write([View EXCEPT !.rooms[target] = << >>]) \/ Busy
    /\ Goto("endRoom", target)
    /\ UNCHANGED <<up, commands, crashes>>

\* Wrong: the other way round.
EndRoomInverted ==
    /\ pc = "endRoom"
    /\ \/ First(View.rooms[target]) = Empty /\ Rollback
       \/ First(View.rooms[target]) # Empty /\ Commit
    /\ Goto("idle", target)
    /\ UNCHANGED <<up, commands, crashes>>

\* The room still has a name: ROLLBACK, otherwise COMMIT.
EndRoom ==
    /\ pc = "endRoom"
    /\ \/ First(View.rooms[target]) # Empty /\ Rollback
       \/ First(View.rooms[target]) = Empty /\ Commit
    /\ Goto("idle", target)
    /\ UNCHANGED <<up, commands, crashes>>

\* Wrong: no transaction.
DeleteFloorplanBare(p) ==
    /\ Receive
    /\ UNCHANGED dbVars
    /\ Goto("unplace", p)
    /\ UNCHANGED <<up, crashes>>

DeleteFloorplan(p) ==
    /\ Receive
    /\ Begin
    /\ Goto("unplace", p)
    /\ UNCHANGED <<up, crashes>>
Unplace ==
    /\ pc = "unplace"
    /\ Write([View EXCEPT !.placed = {x \in @ : x[1] # target}]) \/ Busy
    /\ Goto("deletePlan", target)
    /\ UNCHANGED <<up, commands, crashes>>
DeletePlanRows ==
    /\ pc = "deletePlan"
    /\ Write([View EXCEPT !.plans[target] = << >>]) \/ Busy
    /\ Goto("endPlan", target)
    /\ UNCHANGED <<up, commands, crashes>>
EndPlan ==
    /\ pc = "endPlan"
    /\ \/ First(View.plans[target]) # Empty /\ Rollback
       \/ First(View.plans[target]) = Empty /\ Commit
    /\ Goto("idle", target)
    /\ UNCHANGED <<up, commands, crashes>>

-----------------------------------------------------------------------------
(* The copy in memory, and the life of the process.                        *)

\* Wrong: a device that is listed keeps name and room.
AnnounceKeepsCard(d) ==
    /\ up /\ pc = "idle"
    /\ cache' = Cached(d, IF d \in DOMAIN cache THEN cache[d] ELSE CardOf(View, d))
    /\ file' = Saved(cache')
    /\ UNCHANGED <<dbVars, up, pc, target, commands, crashes>>

\* event.device.announce: name and room are looked up again.
Announce(d) ==
    /\ up /\ pc = "idle"
    /\ cache' = Cached(d, CardOf(View, d))
    /\ file' = Saved(cache')
    /\ UNCHANGED <<dbVars, up, pc, target, commands, crashes>>

\* event.device.remove.
RemoveDevice(d) ==
    /\ up /\ pc = "idle"
    /\ d \in DOMAIN cache
    /\ commands < MaxCommands /\ commands' = commands + 1
    /\ cache' = [c \in DOMAIN cache \ {d} |-> cache[c]]
    /\ file' = Saved(cache')
    /\ UNCHANGED <<dbVars, up, pc, target, crashes>>

\* The next process finds the journal of the open transaction and undoes it.
Crash ==
    /\ up
    /\ crashes < MaxCrashes /\ crashes' = crashes + 1
    /\ up' = FALSE
    /\ Rollback
    /\ pc' = "idle"
    /\ cache' = << >>
    /\ UNCHANGED <<target, file, commands>>

\* loadDevicemap, if configured.
Restart ==
    /\ ~up
    /\ up' = TRUE
    /\ cache' = IF Persistent THEN file ELSE << >>
    /\ UNCHANGED <<dbVars, pc, target, file, commands, crashes>>

Command ==
    \/ \E r \in RoomIds, n \in Names \union {Empty} : SetRoomName(r, n)
    \/ \E p \in Plans, n \in Names \union {Empty} : SetFloorplanName(p, n)
    \/ \E d \in Devices, p \in Plans : SetDeviceFloorplan(d, p)
    \/ \E d \in Devices, n \in Names : SetDeviceName(d, n)
    \/ \E d \in Devices : ForgetDevice(d)
    \/ \E d \in Devices, r \in Places : SetDeviceRoom(d, r)
    \/ \E r \in RoomIds : DeleteRoom(r)
    \/ \E p \in Plans : DeleteFloorplan(p)
Continue ==
    \/ CacheName \/ CacheRoom
    \/ Unassign \/ DeleteRoomRows \/ EndRoom
    \/ Unplace \/ DeletePlanRows \/ EndPlan
Next ==
    \/ Command
    \/ Continue
    \/ \E d \in Devices : Announce(d) \/ RemoveDevice(d)
    \/ Crash
    \/ Restart

Spec == Init /\ [][Next]_vars

\* A command that was begun is finished, and the drivers answer the discover
\* command of every period with an announcement.
Fairness == WF_vars(Continue) /\ \A d \in Devices : WF_vars(Announce(d))
FairSpec == Spec /\ Fairness

-----------------------------------------------------------------------------
(* Properties.                                                             *)

Listed == {r \in RoomIds : disk.rooms[r] # << >>}
NamedDevices == {d \in Devices : disk.devices[d] # << >>}

Book == INSTANCE RoomBook WITH
    Rooms <- RoomIds,
    roomName <- [r \in Listed |-> Shown(disk.rooms[r])],
    deviceName <- [d \in NamedDevices |-> NameOf(disk, d)],
    deviceRoom <- [d \in NamedDevices |-> RoomOf(disk, d)]

\* Whatever the number of statements and wherever the resolver dies, the
\* committed tables change like the book: deleteroom strikes the room and its
\* assignments together, and what getrooms() shows is the name given last.
Implements == Book!Spec

\* deletefloorplan: a floorplan goes together with the places on it, and
\* nothing is taken off a floorplan that stays.
PlanWhole ==
    [][\A p \in Plans :
         LET on(db) == {x \in db.placed : x[1] = p}
         IN  /\ disk.plans[p] # << >> /\ disk'.plans[p] = << >> => on(disk') = {}
             /\ disk.plans[p] # << >> /\ disk'.plans[p] # << >> => on(disk) \subseteq on(disk')
      ]_vars

\* setdevicename creates a row only for a device that has none, so every
\* read of a device sees the one row there is.
OneRowPerDevice == \A d \in Devices : Len(View.devices[d]) <= 1

\* The room shown from memory (getdevice, inventory) is the assigned one, or
\* one the device was in before it lost its room; never that of an older
\* assignment.  devices.json breaks this after a restart, for setdeviceroom
\* does not save.
NoOldAssignment ==
    ~Persistent /\ pc # "cacheRoom" =>
        \A d \in DOMAIN cache : cache[d].room # RoomOf(View, d) => RoomOf(View, d) = Empty

\* A delete that ends its transaction leaves on disk what it and the commands
\* before it wrote there: ROLLBACK is only taken when nothing was written.
NothingRolledBack ==
    [][(pc \in {"endRoom", "endPlan"} /\ up' /\ tx' = Closed) => disk' = tx]_vars

\* Announcements bring the copy in memory back to the tables, also after a
\* restart from an old devices.json.
CacheConverges == <>[](\A d \in DOMAIN cache : cache[d] = CardOf(View, d))
=============================================================================

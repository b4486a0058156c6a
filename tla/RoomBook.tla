------------------------------- MODULE RoomBook -------------------------------
(***************************************************************************)
(* What the resolver's inventory promises to those who configure a home:   *)
(* a book of rooms with one name each, and at most one room per named      *)
(* device.  Every change is one step, whatever statements it takes, and    *)
(* a room is struck out together with all assignments to it.               *)
(***************************************************************************)
CONSTANTS Devices, Rooms, Names, Empty

VARIABLES
    roomName,       \* the listed rooms, with their names
    deviceName,     \* the named devices, with their names
    deviceRoom      \* the named devices, with their rooms or Empty

bookVars == <<roomName, deviceName, deviceRoom>>

Init == roomName = << >> /\ deviceName = << >> /\ deviceRoom = << >>

Put(f, key, value) == [k \in DOMAIN f \union {key} |-> IF k = key THEN value ELSE f[k]]
Strike(f, key) == [k \in DOMAIN f \ {key} |-> f[k]]

NameRoom(r, n) == roomName' = Put(roomName, r, n) /\ UNCHANGED <<deviceName, deviceRoom>>

StrikeRoom(r) ==
    /\ roomName' = Strike(roomName, r)
    /\ deviceRoom' = [d \in DOMAIN deviceRoom |->
                        IF deviceRoom[d] = r THEN Empty ELSE deviceRoom[d]]
    /\ UNCHANGED deviceName

NameDevice(d, n) ==
    /\ deviceName' = Put(deviceName, d, n)
    /\ deviceRoom' = IF d \in DOMAIN deviceRoom THEN deviceRoom
                     ELSE Put(deviceRoom, d, Empty)
    /\ UNCHANGED roomName

StrikeDevice(d) ==
    /\ deviceName' = Strike(deviceName, d)
    /\ deviceRoom' = Strike(deviceRoom, d)
    /\ UNCHANGED roomName

MoveDevice(d, r) ==
    /\ d \in DOMAIN deviceRoom
    /\ deviceRoom' = [deviceRoom EXCEPT ![d] = r]
    /\ UNCHANGED <<roomName, deviceName>>

Next ==
    \/ \E r \in Rooms, n \in Names \union {Empty} : NameRoom(r, n)
    \/ \E r \in Rooms : StrikeRoom(r)
    \/ \E d \in Devices, n \in Names : NameDevice(d, n)
    \/ \E d \in Devices : StrikeDevice(d)
    \/ \E d \in Devices, r \in Rooms \union {Empty} : MoveDevice(d, r)

Spec == Init /\ [][Next]_bookVars
=============================================================================

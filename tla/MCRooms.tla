-------------------------------- MODULE MCRooms --------------------------------
(* Small instances of Rooms; one floorplan is enough for deletefloorplan.      *)
EXTENDS Rooms, TLC

Symmetry == Permutations(Devices) \union Permutations(RoomIds)
=============================================================================

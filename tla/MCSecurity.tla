----------------------------- MODULE MCSecurity -----------------------------
(***************************************************************************)
(* Security for TLC: the example map in the comment of agosecurity.cpp     *)
(* with one zone with a delay and one without.                             *)
(***************************************************************************)
EXTENDS Security, TLC

CONSTANTS hull, garden, armed, away

ExampleMap == armed :> (hull :> 2 @@ garden :> 0) @@ away :> (hull :> 1)

OneMap == {ExampleMap}
=============================================================================

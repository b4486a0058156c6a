------------------------------ MODULE MCScenario ------------------------------
(***************************************************************************)
(* Scenarios for TLC: one with a pause, whose numbers sort differently as  *)
(* text; a short one; one with a key "07" and one with an element that is  *)
(* no map, which both end the process.                                     *)
(***************************************************************************)
EXTENDS Scenario, TLC

CONSTANTS on, off

Key(n) == <<n, TRUE>>

MCScenarios == {
    (Key(2) :> on @@ Key(7) :> Pause @@ Key(10) :> off),
    (Key(1) :> off),
    (Key(1) :> on @@ <<7, FALSE>> :> off),
    (Key(1) :> Scalar) }
=============================================================================

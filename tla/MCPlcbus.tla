------------------------------- MODULE MCPlcbus -------------------------------
(***************************************************************************)
(* Plcbus for TLC.                                                         *)
(***************************************************************************)
EXTENDS Plcbus

CONSTANTS a1, b1

MCStartup == <<a1>>
=============================================================================

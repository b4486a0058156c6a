----------------------------- MODULE MCSensorPipe -----------------------------
(* A small instance of SensorPipe for TLC: readings of five characters, two  *)
(* of which fit into a handler's buffer, and reads that may cut one.         *)
EXTENDS SensorPipe, TLC

CONSTANTS h1, h2
=============================================================================

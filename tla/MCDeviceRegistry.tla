-------------------------- MODULE MCDeviceRegistry --------------------------
(***************************************************************************)
(* DeviceRegistry for TLC.                                                 *)
(***************************************************************************)
EXTENDS DeviceRegistry, TLC

\* Generated uuids are only compared.
Symmetry == Permutations(Uuids)
=============================================================================

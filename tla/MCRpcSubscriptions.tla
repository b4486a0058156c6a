------------------------ MODULE MCRpcSubscriptions ------------------------
(***************************************************************************)
(* RpcSubscriptions for TLC.                                               *)
(***************************************************************************)
EXTENDS RpcSubscriptions, TLC

\* Workers run the same code; ids are only compared.  (Safety runs only.)
Symmetry == Permutations(Workers) \union Permutations(Uuids)
=============================================================================

-------------------------------- MODULE MCRpcDb --------------------------------
(***************************************************************************)
(* One account of two slots.                                                *)
(***************************************************************************)
EXTENDS RpcDb, TLC

SlotSymmetry == Permutations(Slots)
=============================================================================

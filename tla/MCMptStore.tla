----------------------------- MODULE MCMptStore -----------------------------
(* MptStore on keys that share prefixes of every length. *)
EXTENDS MptStore

CONSTANTS v1, v2

MCKeys == {<<0, 0, 0>>, <<0, 0, 1>>, <<0, 1, 0>>, <<2, 0, 0>>}
=============================================================================

---------------------------- MODULE MCHostBinary ----------------------------
(***************************************************************************)
(* Three accounts in chunks of two, two ancestors below the block, and     *)
(* forks that part at any of the three heights.  The diff depends on the   *)
(* first two accounts; the third is only read.                             *)
(***************************************************************************)
EXTENDS HostBinary

CONSTANTS a1, a2, a3

MCAccounts == {a1, a2, a3}
MCShared == {{a1}, MCAccounts}
MCDiff(b, reads) == <<b, reads[a1], reads[a2]>>
=============================================================================

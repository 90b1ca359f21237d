--------------------------- MODULE BlockExecution ---------------------------
(***************************************************************************)
(* What executing a block means: it happens in one or several runs, each   *)
(* of which takes up where the one before ended, and every step of the     *)
(* block is taken once and in order.                                       *)
(***************************************************************************)
EXTENDS ExecutionSteps

VARIABLES body, applied

ExecInit == applied = << >>

ExecRun ==
  /\ \E m \in (Len(applied) + 1)..Len(BlockSteps(body)) :
       applied' = SubSeq(BlockSteps(body), 1, m)
  /\ body' = body

ExecSpec == ExecInit /\ [][ExecRun]_<<body, applied>>
=============================================================================

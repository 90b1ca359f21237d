--------------------------- MODULE ExecutionSteps ---------------------------
(***************************************************************************)
(* The vocabulary of execution.  A block is executed by a fixed sequence   *)
(* of steps: the pre-execution system calls, its transactions in order,    *)
(* and the post-execution calls (withdrawals, request queues).  A          *)
(* transaction is [id, gas].  A state is the sequence of steps that led to *)
(* it, so two executions end in the same state exactly if they took the    *)
(* same steps, and a state root is the state it commits to.                *)
(***************************************************************************)
EXTENDS Integers, Sequences

Step == [id : Int, gas : Nat]

Pre  == [id |-> 0, gas |-> 0]
Post == [id |-> -1, gas |-> 0]

BlockSteps(txs) == <<Pre>> \o txs \o <<Post>>
=============================================================================

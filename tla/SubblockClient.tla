--------------------------- MODULE SubblockClient ---------------------------
(***************************************************************************)
(* The client program of one subblock: ClientExecutor::execute_subblock    *)
(* as a function of its input and its input state, and the predicate that  *)
(* characterises the public values it commits (what a verified subblock    *)
(* proof tells the aggregation).                                           *)
(*                                                                         *)
(* SubblockInput:  header, rest (ommers and withdrawals), txs,             *)
(*                 block_hashes, is_first_subblock, is_last_subblock,      *)
(*                 starting_gas_used.                                      *)
(* SubblockOutput: input_state_root, output_state_root, logs_bloom (the    *)
(*                 set of transactions that accrued to it), receipts,      *)
(*                 requests.                                               *)
(***************************************************************************)
EXTENDS ExecutionSteps

Receipt == [gas : Nat, cumulative_gas_used : Nat]

\* subblock_gas_limit of a run that is not given one.
NoLimit == -1

(***************************************************************************)
(* The block executor (external), which executed these of the transactions *)
(* it was given.  The pre-execution calls belong to a run flagged first.   *)
(* The post-execution calls belong to a run flagged last, and to one that  *)
(* a gas limit might have ended but that came to its last transaction:     *)
(* host and client run the same executor, the host with a limit and never  *)
(* with the flag, the client with the flag and no limit.                   *)
(***************************************************************************)
ExecutorSteps(run, executed) ==
  (IF run.is_first_subblock THEN <<Pre>> ELSE << >>)
    \o executed
    \o (IF \/ run.is_last_subblock
           \/ run.subblock_gas_limit # NoLimit /\ Len(executed) = Len(run.txs)
         THEN <<Post>> ELSE << >>)

\* What the client gives the executor, and the steps it takes: all transactions
\* of its input.
ClientRun(input) ==
  [txs                |-> input.txs,
   is_first_subblock  |-> input.is_first_subblock,
   is_last_subblock   |-> input.is_last_subblock,
   subblock_gas_limit |-> NoLimit]

Steps(input) == ExecutorSteps(ClientRun(input), input.txs)

\* Cumulative gas counts on from starting_gas_used.
Receipts(input) ==
  LET used[j \in 0..Len(input.txs)] ==
        IF j = 0 THEN input.starting_gas_used ELSE used[j - 1] + input.txs[j].gas
  IN  [j \in 1..Len(input.txs) |->
         [gas |-> input.txs[j].gas, cumulative_gas_used |-> used[j]]]

Bloom(txs) == {txs[j].id : j \in DOMAIN txs}

ExecuteSubblock(input, input_state, requests) ==
  [input_state_root  |-> input_state,
   output_state_root |-> input_state \o Steps(input),
   logs_bloom        |-> Bloom(input.txs),
   receipts          |-> Receipts(input),
   requests          |-> requests]

\* The gas before receipt j of a subblock, or of a block with start 0.
GasBefore(receipts, start, j) ==
  IF j = 1 THEN start ELSE receipts[j - 1].cumulative_gas_used

\* Receipts of these transactions, their cumulative gas counted from start.
ReceiptsOf(receipts, txs, start) ==
  /\ Len(receipts) = Len(txs)
  /\ \A j \in 1..Len(txs) :
       /\ receipts[j].gas = txs[j].gas
       /\ receipts[j].cumulative_gas_used = GasBefore(receipts, start, j) + txs[j].gas

\* The public values of a subblock program that ran.
IsProven(pv) ==
  /\ pv.input.txs \in Seq(Step)
  /\ pv.input.starting_gas_used \in Nat
  /\ pv.output.input_state_root \in Seq(Step)
  /\ pv.output.receipts \in Seq(Receipt)
  /\ pv.output.output_state_root = pv.output.input_state_root \o Steps(pv.input)
  /\ pv.output.logs_bloom = Bloom(pv.input.txs)
  /\ ReceiptsOf(pv.output.receipts, pv.input.txs, pv.input.starting_gas_used)
=============================================================================

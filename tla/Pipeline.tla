------------------------------ MODULE Pipeline ------------------------------
(***************************************************************************)
(* A block all the way: the host splits and executes it (SubblockHost),    *)
(* derives its header, fetches the ancestors and puts the outputs of the   *)
(* subblocks together; subblock.rs makes the public values of them and     *)
(* runs execute_aggregation (Aggregation) on these, as the proof of the    *)
(* block will.                                                             *)
(***************************************************************************)
EXTENDS SubblockHost, Aggregation

CONSTANTS
  Depositors,      \* the transactions, by position, whose logs hold a deposit
  Queue,           \* the withdrawal requests the block's last calls drain
  Rest,            \* ommers and withdrawals of the block
  AncestorHeaders  \* its ancestors down to oldest_ancestor, the parent first

\* Headers of one chain, from the parent of the block downwards.
ASSUME AncestorsAssumption ==
  /\ Len(AncestorHeaders) \in Nat \ {0}
  /\ DOMAIN AncestorHeaders = 1..Len(AncestorHeaders)
  /\ \A j \in DOMAIN AncestorHeaders :
       /\ AncestorHeaders[j].number \in Nat
       /\ AncestorHeaders[j].number = AncestorHeaders[1].number + 1 - j
       /\ j > 1 => AncestorHeaders[j].hash = AncestorHeaders[j - 1].parent_hash

ASSUME QueueAssumption == Queue \in Seq({Queue[j] : j \in DOMAIN Queue})

VARIABLE stage     \* host, header, aggregate, mismatch

pipeVars == <<stage, splitVars, hostVars, aggVars>>

\* The deposits found in the receipts of transactions, in order.
DepositsOf(txs) ==
  LET found[n \in 0..Len(txs)] ==
        IF n = 0
          THEN << >>
          ELSE IF txs[n].id \in Depositors THEN Append(found[n - 1], txs[n].id)
               ELSE found[n - 1]
  IN  found[Len(txs)]

\* The requests of transactions (deposits) and of the post-execution calls.
RequestsOf(txs, last) ==
  Report(DEPOSIT_REQUEST_TYPE, DepositsOf(txs))
    \o (IF last THEN Report(WITHDRAWAL_REQUEST_TYPE, Queue) ELSE << >>)

BlockReceipts ==
  [j \in 1..block.txs |-> [gas |-> Body[j].gas, cumulative_gas_used |-> block.gas[j]]]

\* The header the provider returns: that of a valid block.
CurrentHeader ==
  [number            |-> AncestorHeaders[1].number + 1,
   parent_hash       |-> AncestorHeaders[1].hash,
   state_root        |-> BlockSteps(Body),
   transactions_root |-> Body,
   rest_root         |-> Rest,
   receipts_root     |-> BlockReceipts,
   gas_used          |-> total_gas,
   logs_bloom        |-> Bloom(Body),
   requests_hash     |-> RequestsOf(Body, TRUE)]

\* Faulty: oldest_ancestor..(block_number - 1), without the parent.
HostBlockHashes_Exclusive ==
  [n \in {AncestorHeaders[j].number : j \in 2..Len(AncestorHeaders)} |->
     AncestorHeaders[AncestorHeaders[1].number + 1 - n].hash]

\* block_hashes of the loop over oldest_ancestor..=(block_number - 1).
HostBlockHashes ==
  [n \in {AncestorHeaders[j].number : j \in DOMAIN AncestorHeaders} |->
     AncestorHeaders[AncestorHeaders[1].number + 1 - n].hash]

\* The SubblockInput of subblock i, with what all of them have in common.
HostInput(i) ==
  [txs               |-> subblock_inputs[i].txs,
   is_first_subblock |-> subblock_inputs[i].is_first_subblock,
   is_last_subblock  |-> subblock_inputs[i].is_last_subblock,
   starting_gas_used |-> subblock_inputs[i].starting_gas_used,
   header            |-> CurrentHeader,
   rest              |-> Rest,
   block_hashes      |-> HostBlockHashes]

\* Did the host's run of subblock i come to the post-execution calls?
EndsBlock(i) == state_diffs[i][Len(state_diffs[i])] = Post

\* The transactions the host executed in subblock i: the steps of the diff
\* without the system calls.
HostTxs(i) ==
  LET steps == state_diffs[i]
  IN  SubSeq(steps, IF steps[1] = Pre THEN 2 ELSE 1,
                    IF EndsBlock(i) THEN Len(steps) - 1 ELSE Len(steps))

\* The receipts of the host's executor, which counts the gas on from `from`.
HostReceipts(i, from) ==
  LET txs == HostTxs(i)
  IN  [j \in 1..Len(txs) |->
         [gas |-> txs[j].gas,
          cumulative_gas_used |-> from + (block.gas[txs[j].id] - block.gas[txs[1].id - 1])]]

HostOutputFrom(i, from) ==
  [input_state_root  |-> subblock_roots[i][1],
   output_state_root |-> subblock_roots[i][2],
   logs_bloom        |-> Bloom(HostTxs(i)),
   receipts          |-> HostReceipts(i, from),
   requests          |-> RequestsOf(HostTxs(i), EndsBlock(i))]

\* Faulty: starting_gas_used of the executor's input is not set.
HostOutput_RestartedGas(i) == HostOutputFrom(i, 0)

\* The SubblockOutput the host made of subblock i.
HostOutput(i) == HostOutputFrom(i, subblock_inputs[i].starting_gas_used)

-----------------------------------------------------------------------------
PipeInit ==
  /\ HostInit
  /\ stage = "host"
  /\ agg_pc = "loop"
  /\ agg_input = << >>
  /\ agg_len = 0
  /\ cumulative = [output_state_root |-> << >>, logs_bloom |-> {}, receipts |-> << >>]
  /\ agg_requests = << >>
  /\ transaction_body = << >>
  /\ block_hashes = << >>
  /\ linked = 0
  /\ reconstructed = << >>
  /\ seen = << >>
  /\ header = << >>

ExecuteHost ==
  /\ stage = "host"
  /\ HostNext
  /\ stage' = IF host_pc' = "done" THEN "header" ELSE stage
  /\ UNCHANGED aggVars

\* The header derived from the bodies and global_logs_bloom.
HostHeader ==
  [CurrentHeader EXCEPT
     !.parent_hash       = AncestorHeaders[1].hash,
     !.transactions_root = Body,
     !.rest_root         = Rest,
     !.logs_bloom        = UNION {Bloom(HostTxs(i)) : i \in DOMAIN state_diffs}]

\* HeaderMismatch, or the output is returned and aggregated.  (The code derives
\* the header before it computes the roots, which cannot fail.)
DeriveHeader ==
  /\ stage = "header"
  /\ IF HostHeader = CurrentHeader
       THEN /\ stage' = "aggregate"
            /\ agg_input' = [header |-> CurrentHeader, txs |-> Body, rest |-> Rest,
                             ancestors |-> AncestorHeaders]
            /\ agg_len' = Len(subblock_inputs)
       ELSE /\ stage' = "mismatch"
            /\ UNCHANGED <<agg_input, agg_len>>
  /\ UNCHANGED <<agg_pc, cumulative, agg_requests, transaction_body, block_hashes, linked,
                 reconstructed, seen, header, splitVars, hostVars>>

\* public_values[i - 1]: the input and the output the host prepared.
HostPublicValue(i) == [input |-> HostInput(i), output |-> HostOutput(i)]

ValidateAggregation ==
  /\ stage = "aggregate"
  /\ \/ Len(seen) < agg_len /\ AggregateSubblock(HostPublicValue(Len(seen) + 1))
     \/ MergeAll
     \/ LinkAncestor
     \/ FinishAggregation
  /\ UNCHANGED <<stage, splitVars, hostVars>>

PipeNext == ExecuteHost \/ DeriveHeader \/ ValidateAggregation

PipeSpec == PipeInit /\ [][PipeNext]_pipeVars

FairPipeSpec == PipeSpec /\ WF_pipeVars(PipeNext)

-----------------------------------------------------------------------------
\* What the client returns for the input of subblock i, from its parent state.
ClientOutput(i) ==
  ExecuteSubblock(HostInput(i), subblock_roots[i][1],
                  RequestsOf(HostInput(i).txs, HostInput(i).is_last_subblock))

(***************************************************************************)
(* SubblockHostOutput::validate, whose call is commented out, would pass:  *)
(* each client program commits exactly the output the host prepared for it *)
(* (roots, receipts with their cumulative gas, bloom, requests), although  *)
(* the host's executor ran with other flags and on other gas limits.       *)
(***************************************************************************)
HostOutputsValid ==
  stage # "host" => \A i \in DOMAIN subblock_inputs : HostOutput(i) = ClientOutput(i)

(***************************************************************************)
(* A valid block, however it is split and whatever requests its subblocks  *)
(* make, is never refused: no header mismatch stops the host, no assertion *)
(* of execute_aggregation fails on the public values the host prepared,    *)
(* and the header it returns is the header of the block.                   *)
(***************************************************************************)
ValidBlockAccepted ==
  /\ stage # "mismatch"
  /\ agg_pc # "panic"
  /\ agg_pc = "accepted" => header = <<CurrentHeader>>

(***************************************************************************)
(* A valid block, however it is split, comes out as its own header: the    *)
(* host does not stop on the way, and execute_aggregation accepts the      *)
(* public values it prepared.                                              *)
(***************************************************************************)
HeaderReturned == <>(agg_pc = "accepted" /\ header = <<CurrentHeader>>)
=============================================================================

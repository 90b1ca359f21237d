---------------------------- MODULE SubblockHost ----------------------------
(***************************************************************************)
(* HostExecutor::execute_subblock: the host executes a block as subblocks, *)
(* one gas limit of the split after the other, checks the state root, and  *)
(* computes the roots between the subblocks.  execute_subblock_by_basic_   *)
(* rpc and execute_subblock_by_execution_witness_rpc share this loop.      *)
(* A state, and a state root, is the sequence of steps that led to it      *)
(* (ExecutionSteps), counted from the parent block.                        *)
(***************************************************************************)
EXTENDS GasSplit, SubblockClient

VARIABLES
  host_pc,               \* split, execute, verify, roots, done, mismatch, panic
  subblock_index,
  complete_num_txs,
  cumulative_gas_used,
  applied,               \* cumulative_executor_outcomes, also what rpc_db shows
  state_diffs,           \* the steps of each subblock
  subblock_inputs,
  subblock_roots,        \* <<input_state_root, output_state_root>> of each subblock
  big_state              \* the parent state with the diffs of the roots loop

hostVars == <<host_pc, subblock_index, complete_num_txs, cumulative_gas_used, applied,
              state_diffs, subblock_inputs, subblock_roots, big_state>>

\* The transactions of the block.
Body == [i \in 1..block.txs |-> [id |-> i, gas |-> block.gas[i] - block.gas[i - 1]]]

HostInit ==
  /\ SplitInit
  /\ host_pc = "split"
  /\ subblock_index = 0
  /\ complete_num_txs = 0
  /\ cumulative_gas_used = 0
  /\ applied = << >>
  /\ state_diffs = << >>
  /\ subblock_inputs = << >>
  /\ subblock_roots = << >>
  /\ big_state = << >>

\* compute_subblock_gas_limits runs, then the loop begins.
ComputeGasLimits ==
  /\ host_pc = "split"
  /\ SplitNext
  /\ host_pc' = CASE pc' = "done"  -> "execute"
                  [] pc' = "panic" -> "panic"
                  [] OTHER         -> host_pc
  /\ UNCHANGED <<subblock_index, complete_num_txs, cumulative_gas_used, applied, state_diffs,
                 subblock_inputs, subblock_roots, big_state>>

(***************************************************************************)
(* The block executor (external) on the transactions behind `from`: it     *)
(* stops with the block, or when the cumulative gas has come to            *)
(* subblock_gas_limit.  Whether a subblock that meets the limit exactly    *)
(* ends there or takes one more transaction is left open.                  *)
(***************************************************************************)
Executed(from, limit) ==
  {upper \in from..block.txs :
     /\ from < block.txs => from < upper
     /\ upper = block.txs \/ block.gas[upper] >= limit
     /\ \A v \in (from + 1)..(upper - 1) : block.gas[v] <= limit}

\* The limit of the round, which counts from the beginning of the block.
SubblockGasLimit == limits[subblock_index + 1] + cumulative_gas_used

\* Faulty: every run is flagged first.
HostRun_AlwaysFirst(from) ==
  [txs                |-> SubSeq(Body, from + 1, block.txs),
   is_first_subblock  |-> TRUE,
   is_last_subblock   |-> FALSE,
   subblock_gas_limit |-> SubblockGasLimit]

\* What the host gives its own executor: all transactions that are left, the
\* limit, and never is_last_subblock.
HostRun(from) ==
  [txs                |-> SubSeq(Body, from + 1, block.txs),
   is_first_subblock  |-> from = 0,
   is_last_subblock   |-> FALSE,
   subblock_gas_limit |-> SubblockGasLimit]

\* What that run does when it gets as far as `upper`.
ExecutedSteps(from, upper) == ExecutorSteps(HostRun(from), SubSeq(Body, from + 1, upper))

\* Faulty: the flag the host's own executor is given.
InputFor_NeverLast(from, upper) ==
  [txs               |-> SubSeq(Body, from + 1, upper),
   is_first_subblock |-> from = 0,
   is_last_subblock  |-> FALSE,
   starting_gas_used |-> cumulative_gas_used]

\* The SubblockInput of the run, for the client; its header and hashes are those
\* of the block.  is_last_subblock is known only now.
InputFor(from, upper) ==
  [txs               |-> SubSeq(Body, from + 1, upper),
   is_first_subblock |-> from = 0,
   is_last_subblock  |-> upper = block.txs,
   starting_gas_used |-> cumulative_gas_used]

\* The loop body, with the gas it adds and the limit it goes on to.
RunUpToWith(upper, gas, next_index) ==
  /\ applied' = applied \o ExecutedSteps(complete_num_txs, upper)
  /\ state_diffs' = Append(state_diffs, ExecutedSteps(complete_num_txs, upper))
  /\ subblock_inputs' = Append(subblock_inputs, InputFor(complete_num_txs, upper))
  /\ cumulative_gas_used' = cumulative_gas_used + gas
  /\ complete_num_txs' = upper
  /\ subblock_index' = next_index
  /\ host_pc' = IF upper >= block.txs THEN "verify" ELSE host_pc

\* Faulty: the receipts' gas subtracted the wrong way round.
RunUpTo_Backwards(upper) ==
  RunUpToWith(upper, block.gas[complete_num_txs] - block.gas[upper], subblock_index + 1)

\* Faulty: subblock_index is not advanced.
RunUpTo_SameLimit(upper) ==
  RunUpToWith(upper, block.gas[upper] - block.gas[complete_num_txs], subblock_index)

\* The loop body once the limit is known.
RunUpTo(upper) ==
  /\ applied' = applied \o ExecutedSteps(complete_num_txs, upper)
  /\ state_diffs' = Append(state_diffs, ExecutedSteps(complete_num_txs, upper))
  /\ subblock_inputs' = Append(subblock_inputs, InputFor(complete_num_txs, upper))
  /\ cumulative_gas_used' =
       cumulative_gas_used + (block.gas[upper] - block.gas[complete_num_txs])
  /\ complete_num_txs' = upper
  /\ subblock_index' = subblock_index + 1
  /\ host_pc' = IF upper >= block.txs THEN "verify" ELSE host_pc

\* Faulty: the limit without the gas of the earlier subblocks.
RunSubblock_OwnLimit ==
  /\ host_pc = "execute"
  /\ IF subblock_index < Len(limits)
       THEN \E upper \in Executed(complete_num_txs, limits[subblock_index + 1]) : RunUpTo(upper)
       ELSE /\ host_pc' = "panic"
            /\ UNCHANGED <<subblock_index, complete_num_txs, cumulative_gas_used, applied,
                           state_diffs, subblock_inputs>>
  /\ UNCHANGED <<subblock_roots, big_state>>
  /\ UNCHANGED splitVars

\* One round of the loop; subblock_gas_limits[subblock_index] panics when it is
\* out of bounds.
RunSubblock ==
  /\ host_pc = "execute"
  /\ IF subblock_index < Len(limits)
       THEN \E upper \in Executed(complete_num_txs, SubblockGasLimit) : RunUpTo(upper)
       ELSE /\ host_pc' = "panic"
            /\ UNCHANGED <<subblock_index, complete_num_txs, cumulative_gas_used, applied,
                           state_diffs, subblock_inputs>>
  /\ UNCHANGED <<subblock_roots, big_state>>
  /\ UNCHANGED splitVars

\* The parent state with all diffs must have the state root of the header.
VerifyStateRoot ==
  /\ host_pc = "verify"
  /\ host_pc' = IF applied = BlockSteps(Body) THEN "roots" ELSE "mismatch"
  /\ UNCHANGED <<subblock_index, complete_num_txs, cumulative_gas_used, applied, state_diffs,
                 subblock_inputs, subblock_roots, big_state>>
  /\ UNCHANGED splitVars

\* Faulty: big_state is not updated.
ComputeRoots_NoUpdate ==
  /\ host_pc = "roots"
  /\ Len(subblock_roots) < Len(subblock_inputs)
  /\ subblock_roots' = Append(subblock_roots,
                              <<big_state, big_state \o state_diffs[Len(subblock_roots) + 1]>>)
  /\ big_state' = big_state
  /\ host_pc' = IF Len(subblock_roots) + 1 = Len(subblock_inputs) THEN "done" ELSE host_pc
  /\ UNCHANGED <<subblock_index, complete_num_txs, cumulative_gas_used, applied, state_diffs,
                 subblock_inputs>>
  /\ UNCHANGED splitVars

\* One round of the loop that sets the roots of a subblock.
ComputeRoots ==
  /\ host_pc = "roots"
  /\ Len(subblock_roots) < Len(subblock_inputs)
  /\ LET updated == big_state \o state_diffs[Len(subblock_roots) + 1]
     IN  /\ subblock_roots' = Append(subblock_roots, <<big_state, updated>>)
         /\ big_state' = updated
         /\ host_pc' = IF Len(subblock_roots) + 1 = Len(subblock_inputs) THEN "done" ELSE host_pc
  /\ UNCHANGED <<subblock_index, complete_num_txs, cumulative_gas_used, applied, state_diffs,
                 subblock_inputs>>
  /\ UNCHANGED splitVars

HostNext ==
  \/ ComputeGasLimits
  \/ RunSubblock
  \/ VerifyStateRoot
  \/ ComputeRoots

HostSpec == HostInit /\ [][HostNext]_<<splitVars, hostVars>>

-----------------------------------------------------------------------------
\* The types of the state; the loop stays within the transactions of the block.
HostTypeOK ==
  /\ host_pc \in {"split", "execute", "verify", "roots", "done", "mismatch", "panic"}
  /\ subblock_index \in Nat
  /\ complete_num_txs \in 0..block.txs
  /\ cumulative_gas_used \in Nat
  /\ applied \in Seq(Step)
  /\ subblock_roots \in Seq(Seq(Step) \X Seq(Step))
  /\ big_state \in Seq(Step)

(***************************************************************************)
(* The loop never runs out of gas limits: the split and the loop count     *)
(* subblocks independently, and the loop ends with the transactions, not   *)
(* with the limits.  And no assertion of the split fires.                  *)
(***************************************************************************)
NoHostPanic == host_pc # "panic"

(***************************************************************************)
(* A client that gets the input the host prepared takes the very steps the *)
(* host's own run of that subblock took, though the two give the executor  *)
(* different things: the host all transactions that are left, a gas limit  *)
(* and is_last_subblock = false, and it learns from the number of receipts *)
(* where the run ended; the client the transactions up to there, no limit  *)
(* and the flag.                                                           *)
(***************************************************************************)
ClientReplaysHost ==
  \A k \in 1..Len(subblock_inputs) : Steps(subblock_inputs[k]) = state_diffs[k]

(***************************************************************************)
(* The subblocks' roots lead from the parent state to the state of the     *)
(* whole block: the host never reports StateRootMismatch for a valid block *)
(* and the last output root is the one it verified.                        *)
(***************************************************************************)
RootsReachHeader ==
  /\ host_pc # "mismatch"
  /\ host_pc = "done" =>
       /\ subblock_roots[1][1] = << >>
       /\ subblock_roots[Len(subblock_roots)][2] = BlockSteps(Body)
       /\ \A k \in 2..Len(subblock_roots) : subblock_roots[k][1] = subblock_roots[k - 1][2]

(***************************************************************************)
(* The host produces no more subblocks than MAX_SUBBLOCK_COUNT (one for an *)
(* empty block).                                                           *)
(***************************************************************************)
SubblockCountBounded == Len(subblock_inputs) <= MaxSubblockCount

(***************************************************************************)
(* The host's loop is an execution of the block: subblock after subblock   *)
(* it takes the steps of the block, each once and in order.                *)
(***************************************************************************)
Execution == INSTANCE BlockExecution WITH body <- Body, applied <- applied
ImplementsExecution == Execution!ExecSpec
=============================================================================

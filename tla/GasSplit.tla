------------------------------ MODULE GasSplit ------------------------------
(***************************************************************************)
(* HostExecutor::compute_subblock_gas_limits: how the host splits a block  *)
(* into at most MAX_SUBBLOCK_COUNT subblocks by the gas of its receipts.   *)
(*                                                                         *)
(* A block is [txs |-> n, gas |-> [0..n -> Nat]], where gas[i] is the      *)
(* cumulative gas after its i-th transaction: receipt i has gas_used       *)
(* gas[i] - gas[i-1] and the header has gas_used gas[n].  Each transaction *)
(* uses some gas (21000 at least), so gas increases strictly.              *)
(***************************************************************************)
EXTENDS Integers, Sequences

CONSTANTS
  Blocks,              \* the blocks the host may be asked to split
  MaxSubblockCount,    \* *MAX_SUBBLOCK_COUNT, 7 unless the environment sets it
  DefaultGasLimit      \* DEFAULT_SUBBLOCK_GAS_LIMIT

IsBlock(b) ==
  /\ b = [txs |-> b.txs, gas |-> b.gas]
  /\ b.txs \in Nat
  /\ b.gas \in [0..b.txs -> Nat]
  /\ b.gas[0] = 0
  /\ \A i, j \in 0..b.txs : i < j => b.gas[i] < b.gas[j]

ASSUME BlocksAssumption == \A b \in Blocks : IsBlock(b)
ASSUME CountAssumption == MaxSubblockCount \in Nat \ {0}
ASSUME DefaultAssumption == DefaultGasLimit \in Nat

VARIABLES
  block,        \* the block being split
  pc,           \* where the function is: start, loop, count, sum, done, panic
  index,        \* the receipt the loop looks at
  prev,         \* gas of the subblocks already cut
  curr,         \* gas accumulated so far
  next,         \* the gas at which the current subblock should end
  limits,       \* subblock_gas_limits
  ends,         \* history: the transaction each cut subblock ends with
  summed,       \* how many limits the closing check has added up
  all_gas       \* all_subblock_gas, the running sum of that check

splitVars == <<block, pc, index, prev, curr, next, limits, ends, summed, all_gas>>

total_gas == block.gas[block.txs]

\* Faulty: total_gas - MAX_SUBBLOCK_COUNT.
subblock_gas_Underflow == (total_gas - MaxSubblockCount) \div MaxSubblockCount

\* Faulty: rounded down.
subblock_gas_Floor == total_gas \div MaxSubblockCount

subblock_gas == (total_gas + MaxSubblockCount) \div MaxSubblockCount

tx_gas == block.gas[index] - block.gas[index - 1]

SplitInit ==
  /\ block \in Blocks
  /\ pc = "start"
  /\ index = 1
  /\ prev = 0
  /\ curr = 0
  /\ next = 0
  /\ limits = << >>
  /\ ends = << >>
  /\ summed = 0
  /\ all_gas = 0

\* receipts.is_empty(): one subblock with the default limit, no further check.
NoTransactions ==
  /\ pc = "start"
  /\ block.txs = 0
  /\ pc' = "done"
  /\ limits' = <<DefaultGasLimit>>
  /\ ends' = <<0>>
  /\ UNCHANGED <<block, index, prev, curr, next, summed, all_gas>>

StartLoop ==
  /\ pc = "start"
  /\ block.txs > 0
  /\ pc' = "loop"
  /\ next' = subblock_gas
  /\ UNCHANGED <<block, index, prev, curr, limits, ends, summed, all_gas>>

\* Faulty: no transaction opens a new subblock.
IsBigTransaction_Never == FALSE

\* The subblock is not empty and this transaction would overshoot its target
\* by more than half a subblock: it opens the next one.
IsBigTransaction ==
  /\ curr # prev
  /\ curr + tx_gas > next + (subblock_gas \div 2)

CutBefore ==
  /\ pc = "loop"
  /\ index <= block.txs
  /\ IsBigTransaction
  /\ IF curr > prev
       THEN /\ limits' = Append(limits, curr - prev)
            /\ ends' = Append(ends, index - 1)
            /\ prev' = curr
            /\ curr' = curr + tx_gas
            /\ next' = next + subblock_gas
            /\ index' = index + 1
            /\ pc' = pc
       ELSE /\ pc' = "panic"
            /\ UNCHANGED <<limits, ends, prev, curr, next, index>>
  /\ UNCHANGED <<block, summed, all_gas>>

\* Any other transaction joins the subblock, which is cut behind it when the
\* target is passed.
Accumulate ==
  /\ pc = "loop"
  /\ index <= block.txs
  /\ ~IsBigTransaction
  /\ curr' = curr + tx_gas
  /\ IF curr + tx_gas > next
       THEN /\ limits' = Append(limits, curr + tx_gas - prev)
            /\ ends' = Append(ends, index)
            /\ prev' = curr + tx_gas
            /\ next' = next + subblock_gas
       ELSE UNCHANGED <<limits, ends, prev, next>>
  /\ index' = index + 1
  /\ UNCHANGED <<block, pc, summed, all_gas>>

\* Faulty: a last limit although nothing is left.
AddLast_Always ==
  /\ pc = "loop"
  /\ index > block.txs
  /\ limits' = Append(limits, curr - prev)
  /\ ends' = Append(ends, block.txs)
  /\ pc' = "count"
  /\ UNCHANGED <<block, index, prev, curr, next, summed, all_gas>>

\* Behind the loop: what is left over becomes the last subblock.
AddLast ==
  /\ pc = "loop"
  /\ index > block.txs
  /\ IF curr # prev
       THEN /\ limits' = Append(limits, curr - prev)
            /\ ends' = Append(ends, block.txs)
       ELSE UNCHANGED <<limits, ends>>
  /\ pc' = "count"
  /\ UNCHANGED <<block, index, prev, curr, next, summed, all_gas>>

CheckCount ==
  /\ pc = "count"
  /\ pc' = IF Len(limits) <= MaxSubblockCount THEN "sum" ELSE "panic"
  /\ UNCHANGED <<block, index, prev, curr, next, limits, ends, summed, all_gas>>

SumLimit ==
  /\ pc = "sum"
  /\ summed < Len(limits)
  /\ summed' = summed + 1
  /\ all_gas' = all_gas + limits[summed + 1]
  /\ UNCHANGED <<block, pc, index, prev, curr, next, limits, ends>>

CheckTotal ==
  /\ pc = "sum"
  /\ summed = Len(limits)
  /\ pc' = IF total_gas = all_gas THEN "done" ELSE "panic"
  /\ UNCHANGED <<block, index, prev, curr, next, limits, ends, summed, all_gas>>

SplitNext ==
  \/ NoTransactions
  \/ StartLoop
  \/ CutBefore
  \/ Accumulate
  \/ AddLast
  \/ CheckCount
  \/ SumLimit
  \/ CheckTotal

SplitSpec == SplitInit /\ [][SplitNext]_splitVars

-----------------------------------------------------------------------------
\* The transaction behind which subblock k begins.
StartOf(k) == IF k = 1 THEN 0 ELSE ends[k - 1]

\* The types of the state; the loop stays within the receipts of the block.
SplitTypeOK ==
  /\ IsBlock(block)
  /\ pc \in {"start", "loop", "count", "sum", "done", "panic"}
  /\ index \in 1..(block.txs + 1)
  /\ prev \in Nat
  /\ curr \in Nat
  /\ next \in Nat
  /\ limits \in Seq(Nat)
  /\ ends \in Seq(0..block.txs)
  /\ summed \in Nat
  /\ all_gas \in Nat

(***************************************************************************)
(* No assertion of compute_subblock_gas_limits fires: a cut subblock is    *)
(* never empty, there are never more than MAX_SUBBLOCK_COUNT of them       *)
(* although the loop never counts them, and the limits add up to the       *)
(* block's gas.                                                            *)
(***************************************************************************)
NoSplitPanic == pc # "panic"

(***************************************************************************)
(* The limits describe a partition of the block: subblock k consists of    *)
(* the transactions behind StartOf(k) up to ends[k], at least one of them, *)
(* its limit is exactly their gas, and the last subblock ends with the     *)
(* last transaction.                                                       *)
(***************************************************************************)
PartitionsBlock ==
  (pc = "done" /\ block.txs > 0) =>
    /\ Len(limits) = Len(ends)
    /\ Len(ends) > 0
    /\ ends[Len(ends)] = block.txs
    /\ \A k \in 1..Len(ends) :
         /\ StartOf(k) < ends[k]
         /\ limits[k] = block.gas[ends[k]] - block.gas[StartOf(k)]

(***************************************************************************)
(* The split is balanced.  The targets are multiples of subblock_gas and   *)
(* are not moved when a cut overshoots or falls short, so the error of one *)
(* cut is carried into the next; still a subblock of several transactions  *)
(* stays below two and a half times the intended gas, and only a single    *)
(* transaction can be larger.                                              *)
(***************************************************************************)
Balanced ==
  \A k \in 1..Len(ends) :
    ends[k] > StartOf(k) + 1 =>
      block.gas[ends[k]] - block.gas[StartOf(k)] < 2 * subblock_gas + subblock_gas \div 2
=============================================================================

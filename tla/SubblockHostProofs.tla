------------------------- MODULE SubblockHostProofs -------------------------
(***************************************************************************)
(* Proofs about GasSplit and SubblockHost, for every block and every       *)
(* MAX_SUBBLOCK_COUNT.  The split never panics, its limits partition the   *)
(* block, and it is balanced.  The loop never indexes past the limits,     *)
(* produces inputs from which a client repeats the host's own steps, and   *)
(* implements the execution of the block.                                  *)
(***************************************************************************)
EXTENDS SubblockHost, StepLemmas

(***************************************************************************)
(* The intended gas of a subblock is positive, and MAX_SUBBLOCK_COUNT      *)
(* subblocks of it hold strictly more than the block: the rounding of      *)
(* subblock_gas is what keeps the loop from cutting once too often.        *)
(***************************************************************************)
LEMMA CeilDiv ==
  ASSUME NEW t \in Nat, NEW m \in Nat \ {0}
  PROVE  /\ (t + m) \div m \in Nat \ {0}
         /\ t < m * ((t + m) \div m)
  BY Z3

(* The k-th target of the loop is the one before plus subblock_gas. *)
LEMMA NextTarget ==
  ASSUME NEW k \in Nat, NEW s \in Nat
  PROVE  (k + 1) * s = k * s + s /\ k * s \in Nat
  BY Z3

(* Fewer targets hold less gas. *)
LEMMA TargetMonotone ==
  ASSUME NEW j \in Nat, NEW k \in Nat, NEW s \in Nat, k * s < j * s
  PROVE  k < j
  BY Z3

(* Half of the subblock gas, as subblock_gas >> 1 computes it. *)
LEMMA Half ==
  ASSUME NEW s \in Nat
  PROVE  s \div 2 \in Nat /\ s \div 2 <= s
  BY Z3
-----------------------------------------------------------------------------
(* The transaction the last cut subblock ends with, 0 before the first cut. *)
LastEnd == IF ends = << >> THEN 0 ELSE ends[Len(ends)]

(* What every cut subblock satisfies.  The two bounds at the end are what  *)
(* makes Balanced inductive: the k-th cut lies behind target k-1, and a    *)
(* subblock of several transactions does not overshoot its target by more  *)
(* than half a subblock.                                                   *)
CutOK(k) ==
  /\ StartOf(k) < ends[k]
  /\ limits[k] = block.gas[ends[k]] - block.gas[StartOf(k)]
  /\ block.gas[ends[k]] > (k - 1) * subblock_gas
  /\ ends[k] > StartOf(k) + 1 =>
       block.gas[ends[k]] <= k * subblock_gas + subblock_gas \div 2

LoopInv ==
  /\ curr = block.gas[index - 1]
  /\ prev = block.gas[LastEnd]
  /\ LastEnd <= index - 1
  /\ next = (Len(ends) + 1) * subblock_gas
  /\ Len(ends) > 0 => curr > Len(ends) * subblock_gas
  /\ index - 1 > LastEnd + 1 => curr <= next + subblock_gas \div 2
  /\ summed = 0
  /\ all_gas = 0

SplitInv ==
  /\ SplitTypeOK
  /\ pc # "panic"
  /\ Len(limits) = Len(ends)
  /\ pc = "start" => /\ index = 1 /\ prev = 0 /\ curr = 0
                     /\ ends = << >> /\ summed = 0 /\ all_gas = 0
  /\ block.txs = 0 => /\ pc \in {"start", "done"}
                      /\ pc = "done" => ends = <<0>> /\ limits = <<DefaultGasLimit>>
  /\ block.txs > 0 =>
       /\ \A k \in 1..Len(ends) : CutOK(k)
       /\ pc = "loop" => LoopInv
       /\ pc \in {"count", "sum", "done"} =>
            /\ LastEnd = block.txs
            /\ Len(ends) \in 1..MaxSubblockCount
            /\ summed <= Len(ends)
            /\ all_gas = IF summed = 0 THEN 0 ELSE block.gas[ends[summed]]
       /\ pc = "count" => summed = 0

-----------------------------------------------------------------------------
(* Cumulative gas grows with the transactions. *)
LEMMA GasIncreases ==
  ASSUME IsBlock(block), NEW i \in 0..block.txs, NEW j \in 0..block.txs
  PROVE  /\ block.gas[i] \in Nat
         /\ i < j => block.gas[i] < block.gas[j]
         /\ i <= j => block.gas[i] <= block.gas[j]
  <1>1. block.txs \in Nat /\ i \in Int /\ j \in Int
    BY DEF IsBlock
  <1>2. block.gas[i] \in Nat /\ block.gas[j] \in Nat
    BY DEF IsBlock
  <1>3. i < j => block.gas[i] < block.gas[j]
    BY DEF IsBlock
  <1> QED
    BY <1>1, <1>2, <1>3

(* The numbers the split computes with, for every block. *)
LEMMA GasFacts ==
  ASSUME IsBlock(block)
  PROVE  /\ total_gas \in Nat
         /\ subblock_gas \in Nat \ {0}
         /\ subblock_gas \div 2 \in Nat
         /\ total_gas < MaxSubblockCount * subblock_gas
  <1>1. total_gas \in Nat
    BY DEF IsBlock, total_gas
  <1>2. /\ subblock_gas \in Nat \ {0}
        /\ total_gas < MaxSubblockCount * subblock_gas
    BY <1>1, CountAssumption, CeilDiv DEF subblock_gas
  <1> QED
    BY <1>1, <1>2, Half

(* One receipt of the loop: its gas is positive and takes curr to the next *)
(* cumulative value.                                                       *)
LEMMA ReceiptFacts ==
  ASSUME SplitTypeOK, index <= block.txs, curr = block.gas[index - 1]
  PROVE  /\ tx_gas \in Nat \ {0}
         /\ curr + tx_gas = block.gas[index]
         /\ curr + tx_gas <= total_gas
  <1>1. index \in 1..block.txs /\ index - 1 \in 0..block.txs /\ index \in 0..block.txs
        /\ block.txs \in 0..block.txs
    BY SMTT(30) DEF SplitTypeOK, IsBlock
  <1>2. block.gas[index] \in Nat /\ block.gas[index - 1] \in Nat /\ block.gas[block.txs] \in Nat
    BY <1>1 DEF SplitTypeOK, IsBlock
  <1>3. IsBlock(block) /\ index - 1 < index
    BY <1>1, SMTT(30) DEF SplitTypeOK, IsBlock
  <1>4. block.gas[index - 1] < block.gas[index]
    BY <1>1, <1>3, GasIncreases
  <1>5. block.gas[index] <= block.gas[block.txs]
    BY <1>1, <1>3, GasIncreases
  <1> QED
    BY <1>2, <1>4, <1>5 DEF tx_gas, total_gas

\* The last cut is at a transaction of the block.
LEMMA LastEndInBlock ==
  ASSUME SplitTypeOK
  PROVE  LastEnd \in 0..block.txs
  <1>1. CASE ends = << >>
    BY <1>1 DEF LastEnd, SplitTypeOK, IsBlock
  <1>2. CASE ends # << >>
    <2> DEFINE S == 0..block.txs
    <2>1. ends \in Seq(S)
      BY DEF SplitTypeOK
    <2> HIDE DEF S
    <2>2. ends[Len(ends)] \in S
      BY <1>2, <2>1
    <2> QED
      BY <1>2, <2>2 DEF LastEnd, S
  <1> QED
    BY <1>1, <1>2

(* Cutting behind transaction e extends the list of cuts by one good cut. *)
LEMMA NewCut ==
  ASSUME SplitInv, block.txs > 0, block' = block,
         NEW e \in 1..block.txs,
         LastEnd < e,
         block.gas[e] > Len(ends) * subblock_gas,
         e > LastEnd + 1 =>
           block.gas[e] <= (Len(ends) + 1) * subblock_gas + subblock_gas \div 2,
         ends' = Append(ends, e),
         limits' = Append(limits, block.gas[e] - block.gas[LastEnd])
  PROVE  /\ (\A k \in 1..Len(ends) : CutOK(k))'
         /\ LastEnd' = e
         /\ Len(ends') = Len(ends) + 1
         /\ Len(limits') = Len(ends')
         /\ limits' \in Seq(Nat)
         /\ ends' \in Seq(0..block.txs)
  <1>0. PICK n : n = Len(ends)
    OBVIOUS
  <1>1. /\ ends \in Seq(0..block.txs) /\ limits \in Seq(Nat) /\ n \in Nat
        /\ Len(limits) = n /\ e \in 0..block.txs
    BY <1>0 DEF SplitInv, SplitTypeOK, IsBlock
  <1>2. /\ Len(ends') = n + 1 /\ Len(limits') = n + 1
        /\ ends'[n + 1] = e
        /\ limits'[n + 1] = block.gas[e] - block.gas[LastEnd]
        /\ \A k \in 1..n : ends'[k] = ends[k] /\ limits'[k] = limits[k]
    BY <1>0, <1>1
  <1>3. LastEnd' = e
    BY <1>0, <1>1, <1>2 DEF LastEnd
  <1>4. LastEnd \in 0..block.txs
    BY LastEndInBlock DEF SplitInv
  <1>5. block.gas[e] - block.gas[LastEnd] \in Nat
    <2>1. block.gas[e] \in Nat /\ block.gas[LastEnd] \in Nat
      BY <1>1, <1>4 DEF SplitInv, SplitTypeOK, IsBlock
    <2>2. block.gas[LastEnd] < block.gas[e]
      BY <1>1, <1>4, GasIncreases DEF SplitInv, SplitTypeOK
    <2> QED
      BY <2>1, <2>2
  <1>6. limits' \in Seq(Nat) /\ ends' \in Seq(0..block.txs)
    BY <1>1, <1>5
  <1>7. subblock_gas' = subblock_gas
    BY DEF subblock_gas, total_gas
  <1>8. ASSUME NEW k \in 1..n
        PROVE  CutOK(k)'
    <2>1. CutOK(k)
      BY <1>0, <1>1 DEF SplitInv
    <2>2. StartOf(k)' = StartOf(k)
      BY <1>1, <1>2 DEF StartOf
    <2> QED
      BY <2>1, <2>2, <1>2, <1>7 DEF CutOK
  <1>9. CutOK(n + 1)'
    <2>1. StartOf(n + 1)' = LastEnd
      BY <1>0, <1>1, <1>2 DEF StartOf, LastEnd
    <2>2. (n + 1) - 1 = n
      BY <1>1
    <2> QED
      BY <2>1, <2>2, <1>0, <1>2, <1>7 DEF CutOK
  <1>10. \A k \in 1..(n + 1) : k \in 1..n \/ k = n + 1
    BY <1>1
  <1> QED
    BY <1>0, <1>2, <1>3, <1>6, <1>8, <1>9, <1>10

-----------------------------------------------------------------------------
(* As long as the loop runs, fewer than MAX_SUBBLOCK_COUNT subblocks have  *)
(* been cut: the loop has passed one target for each of them.              *)
LEMMA RoomForLast ==
  ASSUME SplitInv, pc = "loop", block.txs > 0
  PROVE  Len(ends) < MaxSubblockCount
  <1>1. IsBlock(block) /\ LoopInv /\ Len(ends) \in Nat
    BY DEF SplitInv, SplitTypeOK
  <1>2. index - 1 \in 0..block.txs /\ block.txs \in 0..block.txs /\ index - 1 <= block.txs
    BY DEF SplitInv, SplitTypeOK, IsBlock
  <1>3. curr <= total_gas
    BY <1>1, <1>2, GasIncreases DEF LoopInv, total_gas
  <1>4. CASE Len(ends) = 0
    BY <1>4, CountAssumption
  <1>5. CASE Len(ends) > 0
    <2>1. curr > Len(ends) * subblock_gas /\ curr \in Nat
      BY <1>5, <1>1 DEF LoopInv, SplitInv, SplitTypeOK
    <2>2. /\ total_gas < MaxSubblockCount * subblock_gas
          /\ subblock_gas \in Nat /\ total_gas \in Nat /\ MaxSubblockCount \in Nat
      BY <1>1, GasFacts, CountAssumption
    <2>3. Len(ends) * subblock_gas \in Nat /\ MaxSubblockCount * subblock_gas \in Nat
      BY <1>1, <2>2, NextTarget
    <2>4. Len(ends) * subblock_gas < MaxSubblockCount * subblock_gas
      BY <2>1, <2>2, <2>3, <1>3
    <2> QED
      BY <2>4, <2>2, <1>1, TargetMonotone
  <1> QED
    BY <1>1, <1>4, <1>5

\* The invariant holds when the split begins.
LEMMA SplitInitInv ==
  ASSUME SplitInit
  PROVE  SplitInv
  <1>1. IsBlock(block) /\ block.txs \in Nat
    BY BlocksAssumption DEF SplitInit, IsBlock
  <1>2. SplitTypeOK
    BY <1>1 DEF SplitInit, SplitTypeOK
  <1> QED
    BY <1>1, <1>2 DEF SplitInit, SplitInv

\* The early return for an empty block preserves the invariant.
LEMMA NoTransactionsInv ==
  ASSUME SplitInv, NoTransactions
  PROVE  SplitInv'
  <1>1. SplitTypeOK'
    <2>1. 0 \in 0..block.txs
      BY DEF NoTransactions
    <2>2. <<0>> \in Seq(0..block.txs) /\ <<DefaultGasLimit>> \in Seq(Nat)
      BY <2>1, DefaultAssumption
    <2> QED
      BY <2>2 DEF SplitInv, SplitTypeOK, NoTransactions
  <1> QED
    BY <1>1 DEF SplitInv, SplitTypeOK, NoTransactions

\* Entering the loop establishes the relation of next and the cuts.
LEMMA StartLoopInv ==
  ASSUME SplitInv, StartLoop
  PROVE  SplitInv'
  <1>1. IsBlock(block) /\ subblock_gas \in Nat /\ subblock_gas' = subblock_gas
    BY GasFacts DEF SplitInv, SplitTypeOK, StartLoop, subblock_gas, total_gas
  <1>2. SplitTypeOK'
    BY <1>1 DEF SplitInv, SplitTypeOK, StartLoop
  <1>3. LoopInv'
    <2>1. /\ ends' = << >> /\ index' = 1 /\ curr' = 0 /\ prev' = 0
          /\ summed' = 0 /\ all_gas' = 0 /\ block' = block
          /\ next' = subblock_gas
      BY DEF SplitInv, StartLoop
    <2>2. LastEnd' = 0
      BY <2>1 DEF LastEnd
    <2>3. block.gas[0] = 0
      BY <1>1 DEF IsBlock
    <2> QED
      BY <1>1, <2>1, <2>2, <2>3 DEF LoopInv
  <1> QED
    BY <1>2, <1>3 DEF SplitInv, SplitTypeOK, StartLoop

\* A cut before a big transaction preserves the invariant.
LEMMA CutBeforeInv ==
  ASSUME SplitInv, CutBefore
  PROVE  SplitInv'
  <1>1. /\ SplitTypeOK /\ IsBlock(block) /\ pc = "loop" /\ index \in 1..block.txs
        /\ block' = block /\ block.txs \in Nat /\ block.txs > 0 /\ LoopInv
        /\ IsBigTransaction /\ Len(ends) \in Nat
    BY SMTT(30) DEF SplitInv, SplitTypeOK, CutBefore, IsBlock
  <1>2. /\ subblock_gas \in Nat \ {0} /\ subblock_gas \div 2 \in Nat
        /\ subblock_gas' = subblock_gas
    BY <1>1, GasFacts DEF subblock_gas, total_gas
  <1>3. tx_gas \in Nat \ {0} /\ curr + tx_gas = block.gas[index]
    BY <1>1, ReceiptFacts DEF LoopInv
  <1>4. LastEnd \in 0..block.txs
    BY <1>1, LastEndInBlock
  <1>5. /\ Len(ends) * subblock_gas \in Nat
        /\ (Len(ends) + 1) * subblock_gas = Len(ends) * subblock_gas + subblock_gas
        /\ (Len(ends) + 2) * subblock_gas = Len(ends) * subblock_gas + subblock_gas + subblock_gas
    <2>1. (Len(ends) + 1) + 1 = Len(ends) + 2 /\ Len(ends) + 1 \in Nat
      BY <1>1
    <2> QED
      BY <2>1, <1>1, <1>2, NextTarget
  <1>6. LastEnd < index - 1 /\ prev < curr
    <2>1. LastEnd # index - 1
      BY <1>1 DEF LoopInv, IsBigTransaction
    <2>2. LastEnd < index - 1
      BY <2>1, <1>1, <1>4 DEF LoopInv
    <2>3. block.gas[LastEnd] < block.gas[index - 1]
      BY <2>2, <1>1, <1>4, GasIncreases
    <2> QED
      BY <2>2, <2>3, <1>1 DEF LoopInv
  <1>7. /\ limits' = Append(limits, curr - prev) /\ ends' = Append(ends, index - 1)
        /\ prev' = curr /\ curr' = curr + tx_gas /\ next' = next + subblock_gas
        /\ index' = index + 1 /\ pc' = pc /\ summed' = summed /\ all_gas' = all_gas
    BY <1>1, <1>6 DEF CutBefore, SplitTypeOK
  <1>8. curr > Len(ends) * subblock_gas
    <2>1. CASE Len(ends) = 0
      BY <2>1, <1>1, <1>2, <1>6 DEF SplitTypeOK
    <2>2. CASE Len(ends) > 0
      BY <2>2, <1>1 DEF LoopInv
    <2> QED
      BY <2>1, <2>2, <1>1
  <1>9. /\ (\A k \in 1..Len(ends) : CutOK(k))'
        /\ LastEnd' = index - 1
        /\ Len(ends') = Len(ends) + 1
        /\ Len(limits') = Len(ends')
        /\ limits' \in Seq(Nat)
        /\ ends' \in Seq(0..block.txs)
    <2>1. index - 1 \in 1..block.txs
      BY <1>1, <1>4, <1>6
    <2>2. block.gas[index - 1] = curr /\ block.gas[LastEnd] = prev
          /\ next = (Len(ends) + 1) * subblock_gas
          /\ (index - 1 > LastEnd + 1 => curr <= next + subblock_gas \div 2)
      BY <1>1 DEF LoopInv
    <2> QED
      BY <2>1, <2>2, <1>1, <1>6, <1>7, <1>8, NewCut
  <1>10. LoopInv'
    <2>1. curr + tx_gas > next + subblock_gas \div 2
      BY <1>1 DEF IsBigTransaction
    <2>2. next = (Len(ends) + 1) * subblock_gas /\ summed = 0 /\ all_gas = 0
          /\ curr = block.gas[index - 1] /\ curr \in Nat
      BY <1>1 DEF LoopInv, SplitTypeOK
    <2>3. next' = (Len(ends') + 1) * subblock_gas
      BY <2>2, <1>1, <1>2, <1>5, <1>7, <1>9
    <2>4. curr' > Len(ends') * subblock_gas
      <3>1. Len(ends') * subblock_gas = next
        BY <2>2, <1>9
      <3>2. curr' = curr + tx_gas
        BY <1>7
      <3>3. next \in Nat /\ subblock_gas \div 2 \in Nat
        BY <1>1, <1>2 DEF SplitTypeOK
      <3> QED
        BY <3>1, <3>2, <3>3, <2>1, <2>2, <1>3, SMTT(30)
    <2>5. (index' - 1) = index /\ ~(index' - 1 > LastEnd' + 1) /\ LastEnd' <= index' - 1
      BY <1>1, <1>7, <1>9
    <2>6. curr' = block'.gas[index' - 1] /\ prev' = block'.gas[LastEnd']
      BY <2>2, <2>5, <1>1, <1>3, <1>7, <1>9
    <2> QED
      BY <2>2, <2>3, <2>4, <2>5, <2>6, <1>2, <1>7 DEF LoopInv
  <1>11. SplitTypeOK'
    <2>1. index' \in 1..(block'.txs + 1) /\ curr' \in Nat /\ prev' \in Nat /\ next' \in Nat
      BY <1>1, <1>2, <1>3, <1>7, SMTT(30) DEF SplitTypeOK
    <2> QED
      BY <2>1, <1>1, <1>7, <1>9 DEF SplitTypeOK
  <1> QED
    BY <1>1, <1>7, <1>9, <1>10, <1>11 DEF SplitInv

\* Taking a transaction into the subblock, and cutting behind it, preserves the invariant.
LEMMA AccumulateInv ==
  ASSUME SplitInv, Accumulate
  PROVE  SplitInv'
  <1>1. /\ SplitTypeOK /\ IsBlock(block) /\ pc = "loop" /\ index \in 1..block.txs
        /\ block' = block /\ block.txs \in Nat /\ block.txs > 0 /\ LoopInv
        /\ ~IsBigTransaction /\ Len(ends) \in Nat
        /\ pc' = pc /\ summed' = summed /\ all_gas' = all_gas
        /\ curr' = curr + tx_gas /\ index' = index + 1
    BY SMTT(30) DEF SplitInv, SplitTypeOK, Accumulate, IsBlock
  <1>2. /\ subblock_gas \in Nat \ {0} /\ subblock_gas \div 2 \in Nat
        /\ subblock_gas' = subblock_gas
    BY <1>1, GasFacts DEF subblock_gas, total_gas
  <1>3. tx_gas \in Nat \ {0} /\ curr + tx_gas = block.gas[index] /\ curr \in Nat
    BY <1>1, ReceiptFacts DEF LoopInv, SplitTypeOK
  <1>4. LastEnd \in 0..block.txs /\ LastEnd <= index - 1 /\ LastEnd < index
    BY <1>1, LastEndInBlock DEF LoopInv
  <1>5. /\ Len(ends) * subblock_gas \in Nat
        /\ (Len(ends) + 1) * subblock_gas = Len(ends) * subblock_gas + subblock_gas
        /\ (Len(ends) + 2) * subblock_gas = Len(ends) * subblock_gas + subblock_gas + subblock_gas
    <2>1. (Len(ends) + 1) + 1 = Len(ends) + 2 /\ Len(ends) + 1 \in Nat
      BY <1>1
    <2> QED
      BY <2>1, <1>1, <1>2, NextTarget
  <1>6. /\ next = (Len(ends) + 1) * subblock_gas /\ next \in Nat /\ prev \in Nat
        /\ prev = block.gas[LastEnd] /\ curr = block.gas[index - 1]
        /\ summed = 0 /\ all_gas = 0
        /\ Len(ends) > 0 => curr > Len(ends) * subblock_gas
    BY <1>1 DEF LoopInv, SplitTypeOK
  <1>7. index > LastEnd + 1 => curr + tx_gas <= next + subblock_gas \div 2
    <2> SUFFICES ASSUME index > LastEnd + 1
                 PROVE  curr + tx_gas <= next + subblock_gas \div 2
      OBVIOUS
    <2>1. LastEnd < index - 1 /\ index - 1 \in 0..block.txs
      BY <1>1, <1>4
    <2>2. prev < curr
      BY <2>1, <1>1, <1>4, <1>6, GasIncreases
    <2>3. ~(curr + tx_gas > next + subblock_gas \div 2)
      BY <2>2, <1>1, <1>3, <1>6 DEF IsBigTransaction
    <2> QED
      BY <2>3, <1>2, <1>3, <1>6
  <1>8. CASE curr + tx_gas > next
    <2>1. /\ limits' = Append(limits, curr + tx_gas - prev) /\ ends' = Append(ends, index)
          /\ prev' = curr + tx_gas /\ next' = next + subblock_gas
      BY <1>8 DEF Accumulate
    <2>2. curr + tx_gas - prev = block.gas[index] - block.gas[LastEnd]
      BY <1>3, <1>6
    <2>3. block.gas[index] > Len(ends) * subblock_gas
      BY <1>8, <1>2, <1>3, <1>5, <1>6
    <2>4. /\ (\A k \in 1..Len(ends) : CutOK(k))'
          /\ LastEnd' = index
          /\ Len(ends') = Len(ends) + 1
          /\ Len(limits') = Len(ends')
          /\ limits' \in Seq(Nat)
          /\ ends' \in Seq(0..block.txs)
      BY <2>1, <2>2, <2>3, <1>1, <1>3, <1>4, <1>6, <1>7, NewCut
    <2>5. LoopInv'
      <3>1. next' = (Len(ends') + 1) * subblock_gas
        BY <2>1, <2>4, <1>1, <1>2, <1>5, <1>6
      <3>2. curr' > Len(ends') * subblock_gas
        BY <1>8, <2>4, <1>1, <1>6
      <3>3. index' - 1 = index /\ LastEnd' <= index' - 1 /\ ~(index' - 1 > LastEnd' + 1)
        BY <2>4, <1>1
      <3>4. curr' = block'.gas[index' - 1] /\ prev' = block'.gas[LastEnd']
        BY <3>3, <2>1, <2>4, <1>1, <1>3
      <3> QED
        BY <3>1, <3>2, <3>3, <3>4, <1>1, <1>2, <1>6 DEF LoopInv
    <2>6. SplitTypeOK'
      <3>1. index' \in 1..(block'.txs + 1)
        BY <1>1
      <3>2. curr' \in Nat /\ prev' \in Nat
        BY <2>1, <1>1, <1>3
      <3>3. next' \in Nat
        BY <2>1, <1>2, <1>6
      <3> QED
        BY <3>1, <3>2, <3>3, <2>4, <1>1 DEF SplitTypeOK
    <2> QED
      BY <2>4, <2>5, <2>6, <1>1 DEF SplitInv
  <1>9. CASE ~(curr + tx_gas > next)
    <2>1. UNCHANGED <<limits, ends, prev, next>>
      BY <1>9 DEF Accumulate
    <2>2. LastEnd' = LastEnd
      BY <2>1 DEF LastEnd
    <2>3. \A k \in 1..Len(ends') : CutOK(k)'
      BY <2>1, <1>1, <1>2 DEF SplitInv, CutOK, StartOf
    <2>4. index' - 1 = index /\ LastEnd' <= index' - 1
      BY <2>2, <1>1, <1>4
    <2>5. Len(ends') > 0 => curr' > Len(ends') * subblock_gas
      BY <2>1, <1>1, <1>3, <1>5, <1>6, SMTT(30)
    <2>6. LoopInv'
      BY <2>1, <2>2, <2>4, <2>5, <1>1, <1>2, <1>3, <1>6, <1>7 DEF LoopInv
    <2>7. SplitTypeOK'
      <3>1. index' \in 1..(block'.txs + 1) /\ curr' \in Nat
        BY <1>1, <1>3
      <3> QED
        BY <3>1, <2>1, <1>1 DEF SplitTypeOK
    <2> QED
      BY <2>1, <2>3, <2>6, <2>7, <1>1 DEF SplitInv
  <1> QED
    BY <1>8, <1>9

\* The last subblock completes the partition.
LEMMA AddLastInv ==
  ASSUME SplitInv, AddLast
  PROVE  SplitInv'
  <1>a. /\ SplitTypeOK /\ IsBlock(block) /\ pc = "loop" /\ index > block.txs
        /\ pc' = "count" /\ Len(ends) \in Nat
        /\ UNCHANGED <<block, index, prev, curr, next, summed, all_gas>>
    BY DEF SplitInv, SplitTypeOK, AddLast
  <1>b. block.txs \in Nat /\ block.txs > 0
    BY <1>a DEF SplitInv, IsBlock
  <1>c. index = block.txs + 1 /\ index - 1 = block.txs
    BY <1>a, <1>b DEF SplitTypeOK
  <1>1. /\ SplitTypeOK /\ IsBlock(block) /\ pc = "loop" /\ index = block.txs + 1
        /\ block' = block /\ block.txs \in Nat /\ block.txs > 0 /\ LoopInv
        /\ Len(ends) \in Nat /\ index - 1 = block.txs
        /\ pc' = "count"
        /\ UNCHANGED <<block, index, prev, curr, next, summed, all_gas>>
    BY <1>a, <1>b, <1>c DEF SplitInv
  <1>2. /\ subblock_gas \in Nat \ {0} /\ subblock_gas \div 2 \in Nat
        /\ subblock_gas' = subblock_gas
    BY <1>1, GasFacts DEF subblock_gas, total_gas
  <1>3. LastEnd \in 0..block.txs /\ summed = 0 /\ all_gas = 0
    BY <1>1, LastEndInBlock DEF LoopInv
  <1>4. Len(ends) < MaxSubblockCount
    BY <1>1, RoomForLast
  <1>5. CASE curr # prev
    <2>1. limits' = Append(limits, curr - prev) /\ ends' = Append(ends, block.txs)
      BY <1>5 DEF AddLast
    <2>2. LastEnd < block.txs
      BY <1>5, <1>1, <1>3 DEF LoopInv
    <2>3. block.gas[LastEnd] < block.gas[block.txs]
      BY <2>2, <1>1, <1>3, GasIncreases
    <2>4. curr = block.gas[block.txs] /\ prev = block.gas[LastEnd]
      BY <1>1 DEF LoopInv
    <2>5. block.gas[block.txs] > Len(ends) * subblock_gas
      <3>1. CASE Len(ends) = 0
        BY <3>1, <2>3, <2>4, <1>1, <1>2 DEF SplitTypeOK
      <3>2. CASE Len(ends) > 0
        BY <3>2, <2>4, <1>1 DEF LoopInv
      <3> QED
        BY <3>1, <3>2, <1>1
    <2>6. block.txs > LastEnd + 1 =>
            block.gas[block.txs] <= (Len(ends) + 1) * subblock_gas + subblock_gas \div 2
      BY <2>4, <1>1 DEF LoopInv
    <2>7. /\ (\A k \in 1..Len(ends) : CutOK(k))'
          /\ LastEnd' = block.txs
          /\ Len(ends') = Len(ends) + 1
          /\ Len(limits') = Len(ends')
          /\ limits' \in Seq(Nat)
          /\ ends' \in Seq(0..block.txs)
      <3>1. block.txs \in 1..block.txs
        BY <1>1
      <3> QED
        BY <3>1, <2>1, <2>2, <2>4, <2>5, <2>6, <1>1, NewCut
    <2>8. SplitTypeOK'
      BY <2>7, <1>1 DEF SplitTypeOK
    <2>9. Len(ends') \in 1..MaxSubblockCount
      BY <2>7, <1>1, <1>4, CountAssumption
    <2>10. summed' = 0 /\ all_gas' = 0 /\ block'.txs # 0 /\ pc' = "count"
      BY <1>1, <1>3
    <2>11. summed' <= Len(ends') /\ LastEnd' = block'.txs
      BY <2>7, <2>9, <2>10, <1>1
    <2> QED
      BY <2>7, <2>8, <2>9, <2>10, <2>11 DEF SplitInv
  <1>6. CASE curr = prev
    <2>1. UNCHANGED <<limits, ends>>
      BY <1>6 DEF AddLast
    <2>2. LastEnd = block.txs
      <3>1. CASE LastEnd < block.txs
        <4>1. block.gas[LastEnd] < block.gas[block.txs]
          BY <3>1, <1>1, <1>3, GasIncreases
        <4>2. block.gas[LastEnd] = block.gas[block.txs] /\ block.gas[LastEnd] \in Nat
          BY <1>6, <1>1 DEF LoopInv, SplitTypeOK
        <4> QED
          BY <4>1, <4>2
      <3> QED
        BY <3>1, <1>1, <1>3
    <2>3. LastEnd' = block.txs
      BY <2>1, <2>2 DEF LastEnd
    <2>4. ends # << >>
      BY <2>2, <1>1 DEF LastEnd
    <2>5. Len(ends') \in 1..MaxSubblockCount
      BY <2>1, <2>4, <1>1, <1>4, CountAssumption DEF SplitTypeOK
    <2>6. \A k \in 1..Len(ends') : CutOK(k)'
      BY <2>1, <1>1, <1>2 DEF SplitInv, CutOK, StartOf
    <2>7. SplitTypeOK'
      BY <2>1, <1>1 DEF SplitTypeOK
    <2> QED
      BY <2>1, <2>3, <2>5, <2>6, <2>7, <1>1, <1>3 DEF SplitInv
  <1> QED
    BY <1>5, <1>6

\* The assertion on the number of subblocks holds.
LEMMA CheckCountInv ==
  ASSUME SplitInv, CheckCount
  PROVE  SplitInv'
  <1>1. block.txs > 0 /\ pc' = "sum" /\ Len(limits) = Len(ends)
        /\ UNCHANGED <<block, index, prev, curr, next, limits, ends, summed, all_gas>>
    <2>1. block.txs \in Nat
      BY DEF SplitInv, SplitTypeOK, IsBlock
    <2>2. block.txs > 0
      BY <2>1 DEF SplitInv, CheckCount
    <2> QED
      BY <2>2 DEF SplitInv, CheckCount
  <1>2. SplitTypeOK'
    BY <1>1 DEF SplitInv, SplitTypeOK
  <1>3. LastEnd' = LastEnd /\ \A k \in 1..Len(ends') : CutOK(k) => CutOK(k)'
    BY <1>1 DEF LastEnd, CutOK, StartOf, subblock_gas, total_gas
  <1> QED
    BY <1>1, <1>2, <1>3 DEF SplitInv, CheckCount

\* Each round of the closing sum adds the gas of one subblock.
LEMMA SumLimitInv ==
  ASSUME SplitInv, SumLimit
  PROVE  SplitInv'
  <1>1. /\ block.txs > 0 /\ pc = "sum" /\ pc' = pc /\ summed < Len(limits)
        /\ summed' = summed + 1 /\ all_gas' = all_gas + limits[summed + 1]
        /\ UNCHANGED <<block, index, prev, curr, next, limits, ends>>
    <2>1. block.txs \in Nat
      BY DEF SplitInv, SplitTypeOK, IsBlock
    <2>2. block.txs > 0
      BY <2>1 DEF SplitInv, SumLimit
    <2> QED
      BY <2>2 DEF SumLimit
  <1>2. /\ SplitTypeOK /\ IsBlock(block) /\ Len(limits) = Len(ends) /\ Len(ends) \in Nat
        /\ summed \in Nat /\ all_gas \in Nat /\ summed + 1 \in 1..Len(ends)
        /\ all_gas = IF summed = 0 THEN 0 ELSE block.gas[ends[summed]]
        /\ CutOK(summed + 1)
    BY <1>1 DEF SplitInv, SplitTypeOK
  <1>3. limits[summed + 1] \in Nat
    BY <1>2 DEF SplitTypeOK
  <1>4. all_gas = block.gas[StartOf(summed + 1)]
    <2>1. CASE summed = 0
      BY <2>1, <1>2 DEF StartOf, IsBlock
    <2>2. CASE summed # 0
      BY <2>2, <1>2 DEF StartOf
    <2> QED
      BY <2>1, <2>2
  <1>5. all_gas' = block.gas[ends[summed + 1]]
    <2>1. ends[summed + 1] \in 0..block.txs
      <3> DEFINE S == 0..block.txs
      <3>1. ends \in Seq(S)
        BY <1>2 DEF SplitTypeOK
      <3> HIDE DEF S
      <3>2. ends[summed + 1] \in S
        BY <3>1, <1>2
      <3> QED
        BY <3>2 DEF S
    <2>2. block.gas[ends[summed + 1]] \in Nat
      BY <2>1, <1>2 DEF IsBlock
    <2> QED
      BY <2>2, <1>1, <1>2, <1>4, SMTT(30) DEF CutOK
  <1>6. SplitTypeOK'
    BY <1>1, <1>2, <1>3, SMTT(30) DEF SplitTypeOK
  <1>7. LastEnd' = LastEnd /\ \A k \in 1..Len(ends') : CutOK(k) => CutOK(k)'
    BY <1>1 DEF LastEnd, CutOK, StartOf, subblock_gas, total_gas
  <1>8. summed' # 0 /\ summed' <= Len(ends')
    BY <1>1, <1>2
  <1> QED
    BY <1>1, <1>2, <1>5, <1>6, <1>7, <1>8 DEF SplitInv

\* The assertion on the sum of the limits holds.
LEMMA CheckTotalInv ==
  ASSUME SplitInv, CheckTotal
  PROVE  SplitInv'
  <1>1. /\ block.txs > 0 /\ pc = "sum" /\ summed = Len(limits)
        /\ UNCHANGED <<block, index, prev, curr, next, limits, ends, summed, all_gas>>
    <2>1. block.txs \in Nat
      BY DEF SplitInv, SplitTypeOK, IsBlock
    <2>2. block.txs > 0
      BY <2>1 DEF SplitInv, CheckTotal
    <2> QED
      BY <2>2 DEF CheckTotal
  <1>2. /\ Len(limits) = Len(ends) /\ Len(ends) > 0 /\ LastEnd = block.txs
        /\ all_gas = IF summed = 0 THEN 0 ELSE block.gas[ends[summed]]
        /\ ends \in Seq(0..block.txs)
    BY <1>1, CountAssumption DEF SplitInv, SplitTypeOK
  <1>3. all_gas = total_gas
    BY <1>1, <1>2 DEF LastEnd, total_gas
  <1>4. pc' = "done"
    BY <1>3 DEF CheckTotal
  <1>5. SplitTypeOK'
    BY <1>1, <1>4 DEF SplitInv, SplitTypeOK
  <1>6. LastEnd' = LastEnd /\ \A k \in 1..Len(ends') : CutOK(k) => CutOK(k)'
    BY <1>1 DEF LastEnd, CutOK, StartOf, subblock_gas, total_gas
  <1> QED
    BY <1>1, <1>2, <1>4, <1>5, <1>6 DEF SplitInv

\* Every step of the split preserves the invariant.
LEMMA SplitStep ==
  ASSUME SplitInv, [SplitNext]_splitVars
  PROVE  SplitInv'
  <1>1. CASE UNCHANGED splitVars
    BY <1>1 DEF splitVars, SplitInv, SplitTypeOK, LoopInv, CutOK, LastEnd, StartOf,
                subblock_gas, total_gas
  <1>2. CASE SplitNext
    BY <1>2, NoTransactionsInv, StartLoopInv, CutBeforeInv, AccumulateInv, AddLastInv,
       CheckCountInv, SumLimitInv, CheckTotalInv DEF SplitNext
  <1> QED
    BY <1>1, <1>2

-----------------------------------------------------------------------------
(* compute_subblock_gas_limits keeps its variables in their types. *)
THEOREM SplitTypeCorrect == SplitSpec => []SplitTypeOK
  <1>1. SplitInv => SplitTypeOK
    BY DEF SplitInv
  <1> QED
    BY <1>1, SplitInitInv, SplitStep, PTL DEF SplitSpec

(***************************************************************************)
(* No assertion of compute_subblock_gas_limits fires, whatever the gas of  *)
(* the block's transactions and whatever MAX_SUBBLOCK_COUNT is.            *)
(***************************************************************************)
THEOREM SplitNeverPanics == SplitSpec => []NoSplitPanic
  <1>1. SplitInv => NoSplitPanic
    BY DEF SplitInv, NoSplitPanic
  <1> QED
    BY <1>1, SplitInitInv, SplitStep, PTL DEF SplitSpec

(***************************************************************************)
(* The limits compute_subblock_gas_limits returns cut the block into       *)
(* nonempty runs of transactions and give each exactly its gas.            *)
(***************************************************************************)
THEOREM SplitPartitions == SplitSpec => []PartitionsBlock
  <1>1. SplitInv => PartitionsBlock
    BY CountAssumption DEF SplitInv, SplitTypeOK, PartitionsBlock, CutOK, LastEnd
  <1> QED
    BY <1>1, SplitInitInv, SplitStep, PTL DEF SplitSpec

(* The distance between a target and the one two and a half further on. *)
LEMMA Spread ==
  \A x, half, before, after, gas \in Nat :
    before > x /\ after <= x + gas + gas + half => after - before < 2 * gas + half
  OBVIOUS

(***************************************************************************)
(* A subblock of several transactions stays below two and a half times     *)
(* subblock_gas, for every block.                                          *)
(***************************************************************************)
THEOREM SplitBalanced == SplitSpec => []Balanced
  <1>1. SplitInv => Balanced
    <2> SUFFICES ASSUME SplitInv, NEW k \in 1..Len(ends), ends[k] > StartOf(k) + 1
                 PROVE  block.gas[ends[k]] - block.gas[StartOf(k)]
                          < 2 * subblock_gas + subblock_gas \div 2
      BY DEF Balanced
    <2>1. /\ IsBlock(block) /\ Len(ends) \in Nat /\ ends \in Seq(0..block.txs)
          /\ block.txs \in Nat
      BY DEF SplitInv, SplitTypeOK, IsBlock
    <2>2. subblock_gas \in Nat \ {0} /\ subblock_gas \div 2 \in Nat
      BY <2>1, GasFacts
    <2>3. \A j \in 1..Len(ends) : ends[j] \in 0..block.txs
      <3> DEFINE S == 0..block.txs
      <3> HIDE DEF S
      <3>1. \A j \in 1..Len(ends) : ends[j] \in S
        BY <2>1 DEF S
      <3> QED
        BY <3>1 DEF S
    <2>4. block.txs > 0
      <3>1. CASE block.txs = 0
        BY <3>1 DEF SplitInv, StartOf
      <3> QED
        BY <3>1, <2>1
    <2>5. \A j \in 1..Len(ends) : CutOK(j)
      BY <2>4 DEF SplitInv
    <2>6. block.gas[ends[k]] <= k * subblock_gas + subblock_gas \div 2
          /\ block.gas[ends[k]] \in Nat
      BY <2>1, <2>3, <2>5, GasIncreases DEF CutOK
    <2>7. CASE k = 1
      <3>1. block.gas[StartOf(k)] = 0
        BY <2>7, <2>1 DEF StartOf, IsBlock
      <3> QED
        BY <3>1, <2>7, <2>2, <2>6
    <2>8. CASE k > 1
      <3>1. /\ k - 1 \in 1..Len(ends) /\ k - 2 \in Nat /\ (k - 1) - 1 = k - 2
            /\ k = (k - 2) + 1 + 1 /\ k - 1 = (k - 2) + 1
        BY <2>8, <2>1
      <3>2. block.gas[ends[k - 1]] > (k - 2) * subblock_gas /\ StartOf(k) = ends[k - 1]
        BY <3>1, <2>5, <2>8 DEF CutOK, StartOf
      <3>3. block.gas[ends[k - 1]] \in Nat
        BY <3>1, <2>1, <2>3, GasIncreases
      <3>4. /\ (k - 2) * subblock_gas \in Nat
            /\ k * subblock_gas = (k - 2) * subblock_gas + subblock_gas + subblock_gas
        BY <3>1, <2>2, NextTarget
      <3>5. PICK x \in Nat : x = (k - 2) * subblock_gas
        BY <3>4
      <3>6. PICK half \in Nat : half = subblock_gas \div 2
        BY <2>2
      <3>7. PICK before \in Nat : before = block.gas[StartOf(k)]
        BY <3>2, <3>3
      <3>8. PICK after \in Nat : after = block.gas[ends[k]]
        BY <2>6
      <3>9. before > x
        BY <3>2, <3>5, <3>7
      <3>10. after <= x + subblock_gas + subblock_gas + half
        BY <3>4, <3>5, <3>6, <3>8, <2>6
      <3>11. subblock_gas \in Nat
        BY <2>2
      <3>12. after - before < 2 * subblock_gas + half
        BY <3>9, <3>10, <3>11, Spread
      <3> QED
        BY <3>6, <3>7, <3>8, <3>12
    <2> QED
      BY <2>7, <2>8, <2>1
  <1> QED
    BY <1>1, SplitInitInv, SplitStep, PTL DEF SplitSpec

-----------------------------------------------------------------------------

(* The transactions of a block are steps. *)
LEMMA BodySteps ==
  ASSUME IsBlock(block)
  PROVE  Body \in Seq(Step) /\ Len(Body) = block.txs /\ block.txs \in Nat
  <1>1. block.txs \in Nat
    BY DEF IsBlock
  <1>2. ASSUME NEW i \in 1..block.txs
        PROVE  [id |-> i, gas |-> block.gas[i] - block.gas[i - 1]] \in Step
    <2>1. i \in 0..block.txs /\ i - 1 \in 0..block.txs /\ i - 1 < i
      BY <1>1
    <2>2. block.gas[i] \in Nat /\ block.gas[i - 1] \in Nat /\ block.gas[i - 1] < block.gas[i]
      BY <2>1, GasIncreases
    <2>3. block.gas[i] - block.gas[i - 1] \in Nat /\ i \in Int
      BY <2>2
    <2> QED
      BY <2>3 DEF Step
  <1>3. Body \in [1..block.txs -> Step]
    BY <1>2 DEF Body
  <1> QED
    BY <1>1, <1>3

(* What the executor may do with a limit, and that it stays in the block. *)
LEMMA ExecutedFacts ==
  ASSUME IsBlock(block), NEW c \in 0..block.txs, NEW limit \in Nat,
         NEW upper \in Executed(c, limit)
  PROVE  /\ upper \in c..block.txs /\ upper \in Nat
         /\ c < block.txs => c < upper
         /\ upper # block.txs => block.gas[upper] >= limit
  BY DEF Executed, IsBlock

(***************************************************************************)
(* The loop keeps ahead of the split: a run that starts at or behind the   *)
(* start of subblock k of the split ends at or behind the end of k.        *)
(***************************************************************************)
LEMMA LoopKeepsAhead ==
  ASSUME SplitInv, pc = "done", block.txs > 0,
         NEW k \in 1..Len(ends), NEW c \in 0..block.txs, StartOf(k) <= c,
         NEW upper \in Executed(c, limits[k] + block.gas[c])
  PROVE  ends[k] <= upper
  <1>1. IsBlock(block) /\ block.txs \in Nat /\ Len(ends) \in Nat /\ CutOK(k)
    BY DEF SplitInv, SplitTypeOK, IsBlock
  <1>2. \A j \in 1..Len(ends) : ends[j] \in 0..block.txs
    <2> DEFINE S == 0..block.txs
    <2>1. ends \in Seq(S)
      BY DEF SplitInv, SplitTypeOK
    <2> HIDE DEF S
    <2>2. \A j \in 1..Len(ends) : ends[j] \in S
      BY <2>1
    <2> QED
      BY <2>2 DEF S
  <1>3. StartOf(k) \in 0..block.txs /\ ends[k] \in 0..block.txs
    BY <1>1, <1>2 DEF StartOf
  <1>4. /\ block.gas[StartOf(k)] \in Nat /\ block.gas[c] \in Nat /\ block.gas[ends[k]] \in Nat
        /\ block.gas[StartOf(k)] <= block.gas[c]
    BY <1>1, <1>3, GasIncreases
  <1>5. limits[k] = block.gas[ends[k]] - block.gas[StartOf(k)] /\ limits[k] \in Nat
    <2>1. limits \in Seq(Nat) /\ Len(limits) = Len(ends)
      BY DEF SplitInv, SplitTypeOK
    <2> QED
      BY <2>1, <1>1 DEF CutOK
  <1>6. limits[k] + block.gas[c] \in Nat /\ limits[k] + block.gas[c] >= block.gas[ends[k]]
    BY <1>4, <1>5, SMTT(30)
  <1>7. /\ upper \in 0..block.txs
        /\ upper # block.txs => block.gas[upper] >= limits[k] + block.gas[c]
    BY <1>1, <1>6, ExecutedFacts
  <1>8. block.gas[upper] \in Nat /\ (upper < ends[k] => block.gas[upper] < block.gas[ends[k]])
    BY <1>1, <1>3, <1>7, GasIncreases
  <1> QED
    BY <1>1, <1>3, <1>4, <1>6, <1>7, <1>8, SMTT(30)

(* Every run of the executor is a run of the abstract execution. *)
LEMMA RunIsExecRun ==
  ASSUME NEW txs \in Seq(Step), NEW c \in 0..Len(txs), NEW u \in c..Len(txs),
         c < Len(txs) => c < u, c # 0 => c < Len(txs)
  PROVE  \E m \in (Len(StepsUpTo(txs, c)) + 1)..Len(BlockSteps(txs)) :
           (IF u = Len(txs) THEN BlockSteps(txs) ELSE StepsUpTo(txs, u))
             = SubSeq(BlockSteps(txs), 1, m)
  <1>1. Len(txs) \in Nat /\ c \in Nat /\ u \in Nat /\ c <= u /\ u <= Len(txs)
    OBVIOUS
  <1>2. BlockSteps(txs) \in Seq(Step) /\ Len(BlockSteps(txs)) = Len(txs) + 2
    <2>1. <<Pre>> \in Seq(Step) /\ <<Post>> \in Seq(Step) /\ Len(<<Pre>>) = 1 /\ Len(<<Post>>) = 1
      BY PrePostSteps
    <2>2. <<Pre>> \o txs \in Seq(Step) /\ Len(<<Pre>> \o txs) = Len(txs) + 1
      BY <2>1, ConcatProperties
    <2> DEFINE pt == <<Pre>> \o txs
    <2> HIDE DEF pt
    <2>3. pt \o <<Post>> \in Seq(Step) /\ Len(pt \o <<Post>>) = Len(pt) + 1
      BY <2>1, <2>2, ConcatProperties DEF pt
    <2> QED
      BY <2>2, <2>3 DEF pt, BlockSteps
  <1>3. Len(StepsUpTo(txs, c)) = IF c = 0 THEN 0 ELSE c + 1
    <2>1. CASE c = 0
      BY <2>1 DEF StepsUpTo
    <2>2. CASE c # 0
      <3>1. c \in 1..Len(txs)
        BY <2>2, <1>1
      <3> QED
        BY <3>1, <2>2, UpToIsPrefix DEF StepsUpTo
    <2> QED
      BY <2>1, <2>2
  <1>4. CASE u = Len(txs)
    <2>1. SubSeq(BlockSteps(txs), 1, Len(txs) + 2) = BlockSteps(txs)
      BY <1>2, SubSeqFull
    <2>2. Len(txs) + 2 \in (Len(StepsUpTo(txs, c)) + 1)..Len(BlockSteps(txs))
      BY <1>1, <1>2, <1>3
    <2> QED
      BY <2>1, <2>2, <1>4
  <1>5. CASE u # Len(txs)
    <2>1. u \in 1..Len(txs) /\ u # 0
      BY <1>5, <1>1
    <2>2. SubSeq(BlockSteps(txs), 1, u + 1) = StepsUpTo(txs, u)
      BY <2>1, UpToIsPrefix DEF StepsUpTo
    <2>3. u + 1 \in (Len(StepsUpTo(txs, c)) + 1)..Len(BlockSteps(txs))
      BY <1>1, <1>2, <1>3, <1>5
    <2> QED
      BY <2>2, <2>3, <1>5
  <1> QED
    BY <1>4, <1>5

(* Appending to a sequence of whatever elements. *)
LEMMA AppendAt ==
  ASSUME NEW s, NEW n \in Nat, s = [k \in 1..n |-> s[k]], NEW e
  PROVE  /\ Len(Append(s, e)) = n + 1
         /\ Append(s, e) = [k \in 1..(n + 1) |-> Append(s, e)[k]]
         /\ \A k \in 1..n : Append(s, e)[k] = s[k]
         /\ Append(s, e)[n + 1] = e
  <1> DEFINE S == {s[k] : k \in 1..n} \union {e}
  <1>1. s \in [1..n -> S]
    OBVIOUS
  <1>2. s \in Seq(S) /\ Len(s) = n /\ e \in S
    BY <1>1
  <1> HIDE DEF S
  <1>3. /\ Append(s, e) \in Seq(S) /\ Len(Append(s, e)) = n + 1
        /\ \A k \in 1..n : Append(s, e)[k] = s[k]
        /\ Append(s, e)[n + 1] = e
    BY <1>2, AppendProperties
  <1>4. Append(s, e) \in [1..(n + 1) -> S]
    <2> DEFINE a == Append(s, e)
    <2>1. a \in Seq(S) /\ Len(a) = n + 1
      BY <1>3
    <2> HIDE DEF a
    <2>2. a \in [1..(n + 1) -> S]
      BY <2>1
    <2> QED
      BY <2>2 DEF a
  <1> QED
    BY <1>3, <1>4

-----------------------------------------------------------------------------
(* Between two rounds: how far the loop is, compared with the split. *)
InLoop ==
  \/ subblock_index = 0 /\ complete_num_txs = 0
  \/ /\ subblock_index \in 1..Len(ends)
     /\ complete_num_txs \in 1..(block.txs - 1)
     /\ ends[subblock_index] <= complete_num_txs

HostInv ==
  /\ SplitInv
  /\ HostTypeOK
  /\ host_pc \notin {"panic", "mismatch"}
  /\ host_pc = "split" => pc # "done" /\ subblock_index = 0 /\ complete_num_txs = 0
  /\ host_pc # "split" => pc = "done" /\ subblock_index <= Len(ends)
  /\ host_pc = "execute" => InLoop
  /\ cumulative_gas_used = block.gas[complete_num_txs]
  /\ applied = IF host_pc \in {"split", "execute"} THEN StepsUpTo(Body, complete_num_txs)
                                                   ELSE BlockSteps(Body)
  /\ Len(subblock_inputs) = subblock_index
  /\ Len(state_diffs) = subblock_index
  /\ subblock_inputs = [k \in 1..subblock_index |-> subblock_inputs[k]]
  /\ state_diffs = [k \in 1..subblock_index |-> state_diffs[k]]
  /\ \A k \in 1..subblock_index : /\ Steps(subblock_inputs[k]) = state_diffs[k]
                                  /\ state_diffs[k] \in Seq(Step)

\* The invariant holds when the host starts.
LEMMA HostInitInv ==
  ASSUME HostInit
  PROVE  HostInv
  <1>1. SplitInv /\ IsBlock(block) /\ block.txs \in Nat
    BY SplitInitInv DEF HostInit, SplitInv, SplitTypeOK, IsBlock
  <1>2. HostTypeOK
    BY <1>1 DEF HostInit, HostTypeOK
  <1>3. cumulative_gas_used = block.gas[complete_num_txs]
    BY <1>1 DEF HostInit, IsBlock
  <1>4. applied = StepsUpTo(Body, complete_num_txs)
    BY DEF HostInit, StepsUpTo
  <1> QED
    BY <1>1, <1>2, <1>3, <1>4 DEF HostInit, HostInv, SplitInit

(* The steps of the split leave the block alone. *)
LEMMA SplitKeepsBlock ==
  ASSUME SplitNext
  PROVE  block' = block
  BY DEF SplitNext, NoTransactions, StartLoop, CutBefore, Accumulate, AddLast, CheckCount,
         SumLimit, CheckTotal

\* The split preserves the invariant and hands its limits to the loop.
LEMMA ComputeGasLimitsInv ==
  ASSUME HostInv, ComputeGasLimits
  PROVE  HostInv'
  <1>1. SplitInv' /\ block' = block /\ Body' = Body
    BY SplitStep, SplitKeepsBlock DEF HostInv, ComputeGasLimits, Body
  <1>2. pc' # "panic"
    BY <1>1 DEF SplitInv
  <1>3. /\ host_pc = "split" /\ subblock_index = 0 /\ complete_num_txs = 0
        /\ UNCHANGED <<subblock_index, complete_num_txs, cumulative_gas_used, applied,
                       state_diffs, subblock_inputs, subblock_roots, big_state>>
        /\ host_pc' = IF pc' = "done" THEN "execute" ELSE "split"
    BY <1>2 DEF HostInv, ComputeGasLimits
  <1>4. HostTypeOK'
    BY <1>1, <1>3 DEF HostInv, HostTypeOK
  <1>5. 0 <= Len(ends')
    BY <1>1 DEF SplitInv, SplitTypeOK
  <1>6. \A k \in 1..subblock_index' : /\ Steps(subblock_inputs[k])' = state_diffs'[k]
                                      /\ state_diffs'[k] \in Seq(Step)
    BY <1>3
  <1> QED
    BY <1>1, <1>3, <1>4, <1>5, <1>6 DEF HostInv, InLoop

(* The round of the loop: the facts its parts need. *)
LEMMA RoundFacts ==
  ASSUME HostInv, host_pc = "execute"
  PROVE  /\ IsBlock(block) /\ SplitInv /\ pc = "done"
         /\ subblock_index \in Nat /\ subblock_index < Len(limits)
         /\ Len(limits) = Len(ends) /\ Len(ends) \in Nat
         /\ complete_num_txs \in 0..block.txs
         /\ complete_num_txs # 0 => complete_num_txs < block.txs
         /\ limits[subblock_index + 1] \in Nat
         /\ block.txs > 0 => StartOf(subblock_index + 1) <= complete_num_txs
  <1>1. /\ IsBlock(block) /\ SplitInv /\ pc = "done" /\ InLoop /\ HostTypeOK
        /\ Len(limits) = Len(ends) /\ Len(ends) \in Nat /\ block.txs \in Nat
        /\ limits \in Seq(Nat)
        /\ subblock_index \in Nat /\ complete_num_txs \in 0..block.txs
    <2>1. SplitInv /\ HostTypeOK /\ pc = "done" /\ InLoop
      BY DEF HostInv
    <2>2. SplitTypeOK /\ Len(limits) = Len(ends)
      BY <2>1 DEF SplitInv
    <2>3. IsBlock(block) /\ limits \in Seq(Nat) /\ Len(ends) \in Nat
      BY <2>2 DEF SplitTypeOK
    <2>4. block.txs \in Nat
      BY <2>3 DEF IsBlock
    <2>5. subblock_index \in Nat /\ complete_num_txs \in 0..block.txs
      BY <2>1 DEF HostTypeOK
    <2> QED
      BY <2>1, <2>2, <2>3, <2>4, <2>5
  <1>2. CASE block.txs = 0
    <2>1. ends = <<0>> /\ Len(ends) = 1 /\ subblock_index = 0 /\ complete_num_txs = 0
      BY <1>1, <1>2 DEF SplitInv, InLoop
    <2> QED
      BY <2>1, <1>1, <1>2
  <1>3. CASE block.txs > 0
    <2>1. ends # << >> /\ ends[Len(ends)] = block.txs /\ Len(ends) >= 1
      BY <1>1, <1>3, CountAssumption DEF SplitInv, SplitTypeOK, LastEnd
    <2>2. CASE subblock_index = 0 /\ complete_num_txs = 0
      BY <2>1, <2>2, <1>1 DEF StartOf
    <2>3. CASE /\ subblock_index \in 1..Len(ends)
               /\ complete_num_txs \in 1..(block.txs - 1)
               /\ ends[subblock_index] <= complete_num_txs
      <3>1. subblock_index # Len(ends)
        BY <2>1, <2>3, <1>1
      <3>2. StartOf(subblock_index + 1) = ends[subblock_index]
        BY <2>3, <1>1 DEF StartOf
      <3> QED
        BY <3>1, <3>2, <2>3, <1>1
    <2> QED
      BY <2>2, <2>3, <1>1 DEF InLoop
  <1> QED
    BY <1>1, <1>2, <1>3

\* The steps of a client, from the flags of its input.
LEMMA ClientSteps ==
  \A input : Steps(input) = (IF input.is_first_subblock THEN <<Pre>> ELSE << >>)
                              \o input.txs
                              \o (IF input.is_last_subblock THEN <<Post>> ELSE << >>)
  BY DEF Steps, ClientRun, ExecutorSteps

\* The length of a part of the block.
LEMMA CutLength ==
  ASSUME NEW s \in Seq(Step), NEW a \in 0..Len(s), NEW b \in a..Len(s)
  PROVE  Len(SubSeq(s, a + 1, b)) = b - a
  BY SubSeqProperties

(***************************************************************************)
(* The steps of the host's own run, from where it began and where it       *)
(* ended: with all that is left to execute, it came to its last            *)
(* transaction exactly if that is the last of the block.                   *)
(***************************************************************************)
LEMMA HostSteps ==
  ASSUME Body \in Seq(Step), Len(Body) = block.txs, SubblockGasLimit \in Nat,
         NEW from \in 0..block.txs, NEW upper \in from..block.txs
  PROVE  ExecutedSteps(from, upper) = RunSteps(Body, from, upper)
  <1>1. PICK left : left = SubSeq(Body, from + 1, block.txs)
    OBVIOUS
  <1>2. PICK part : part = SubSeq(Body, from + 1, upper)
    OBVIOUS
  <1>3. block.txs \in Nat /\ from \in Nat /\ upper \in Nat
    BY LenProperties
  <1>4. Len(left) = block.txs - from /\ Len(part) = upper - from
    <2>1. from \in 0..Len(Body) /\ upper \in from..Len(Body) /\ block.txs \in from..Len(Body)
      BY <1>3
    <2> QED
      BY <2>1, <1>1, <1>2, CutLength
  <1>5. Len(part) = Len(left) <=> upper = Len(Body)
    BY <1>3, <1>4
  <1>6. SubblockGasLimit # NoLimit
    BY DEF NoLimit
  <1> QED
    BY <1>1, <1>2, <1>5, <1>6 DEF ExecutedSteps, ExecutorSteps, HostRun, RunSteps

\* A round of the loop preserves the invariant.
LEMMA RunUpToInv ==
  ASSUME HostInv, host_pc = "execute",
         NEW upper \in Executed(complete_num_txs,
                                SubblockGasLimit),
         RunUpTo(upper), UNCHANGED splitVars, UNCHANGED <<subblock_roots, big_state>>
  PROVE  HostInv' /\ Execution!ExecRun
  <1>1. /\ IsBlock(block) /\ SplitInv /\ pc = "done"
        /\ subblock_index \in Nat /\ subblock_index < Len(limits)
        /\ Len(limits) = Len(ends) /\ Len(ends) \in Nat
        /\ complete_num_txs \in 0..block.txs /\ block.txs \in Nat
        /\ complete_num_txs # 0 => complete_num_txs < block.txs
        /\ limits[subblock_index + 1] \in Nat
        /\ block.txs > 0 => StartOf(subblock_index + 1) <= complete_num_txs
    BY RoundFacts DEF IsBlock
  <1>2. /\ cumulative_gas_used = block.gas[complete_num_txs] /\ cumulative_gas_used \in Nat
        /\ SubblockGasLimit \in Nat
    BY <1>1, SMTT(30) DEF HostInv, HostTypeOK, SubblockGasLimit
  <1>3. /\ upper \in complete_num_txs..block.txs /\ upper \in Nat
        /\ complete_num_txs < block.txs => complete_num_txs < upper
    BY <1>1, <1>2, ExecutedFacts
  <1>4. SplitInv' /\ block' = block /\ pc' = pc /\ ends' = ends /\ Body' = Body
    BY <1>1, SplitStep DEF splitVars, Body
  <1>5. Body \in Seq(Step) /\ Len(Body) = block.txs
    BY <1>1, BodySteps
  <1>6. ExecutedSteps(complete_num_txs, upper) = RunSteps(Body, complete_num_txs, upper)
    BY <1>1, <1>2, <1>3, <1>5, HostSteps
  <1>7. applied = StepsUpTo(Body, complete_num_txs)
    BY DEF HostInv
  <1>8. applied' = IF upper = Len(Body) THEN BlockSteps(Body) ELSE StepsUpTo(Body, upper)
    <2>1. applied' = StepsUpTo(Body, complete_num_txs) \o RunSteps(Body, complete_num_txs, upper)
      BY <1>6, <1>7 DEF RunUpTo
    <2>2. complete_num_txs \in 0..Len(Body) /\ upper \in complete_num_txs..Len(Body)
          /\ (complete_num_txs < Len(Body) => complete_num_txs < upper)
      BY <1>1, <1>3, <1>5
    <2> QED
      BY <2>1, <2>2, <1>5, RunsConnect
  <1>9. Execution!ExecRun
    <2>1. \E m \in (Len(applied) + 1)..Len(BlockSteps(Body)) :
            applied' = SubSeq(BlockSteps(Body), 1, m)
      <3>1. complete_num_txs \in 0..Len(Body) /\ upper \in complete_num_txs..Len(Body)
            /\ (complete_num_txs < Len(Body) => complete_num_txs < upper)
            /\ (complete_num_txs # 0 => complete_num_txs < Len(Body))
        BY <1>1, <1>3, <1>5
      <3> QED
        BY <3>1, <1>5, <1>7, <1>8, RunIsExecRun
    <2> QED
      BY <2>1, <1>4 DEF Execution!ExecRun, Execution!BlockSteps, BlockSteps,
                        Execution!Pre, Execution!Post, Pre, Post
  <1>10. /\ complete_num_txs' = upper /\ subblock_index' = subblock_index + 1
         /\ host_pc' = IF upper >= block.txs THEN "verify" ELSE "execute"
         /\ (host_pc' = "execute" <=> upper # Len(Body))
    BY <1>1, <1>3, <1>5 DEF RunUpTo
  <1>11. cumulative_gas_used' = block.gas[upper] /\ cumulative_gas_used' \in Nat
    <2>1. upper \in 0..block.txs
      BY <1>1, <1>3
    <2>2. block.gas[upper] \in Nat /\ block.gas[complete_num_txs] \in Nat
      BY <2>1, <1>1, GasIncreases
    <2> QED
      BY <2>2, <1>2 DEF RunUpTo
  <1>12. RunSteps(Body, complete_num_txs, upper) \in Seq(Step)
    <2>1. SubSeq(Body, complete_num_txs + 1, upper) \in Seq(Step)
      BY <1>1, <1>3, <1>5, SubSeqProperties
    <2>2. \A c, d : (IF c THEN <<Pre>> ELSE << >>) \in Seq(Step)
                    /\ (IF d THEN <<Post>> ELSE << >>) \in Seq(Step)
      BY PrePostSteps
    <2>3. (IF complete_num_txs = 0 THEN <<Pre>> ELSE << >>)
            \o SubSeq(Body, complete_num_txs + 1, upper) \in Seq(Step)
      BY <2>1, <2>2, ConcatSteps, Zenon
    <2> QED
      BY <2>2, <2>3, ConcatSteps, Zenon DEF RunSteps
  <1>13. HostTypeOK'
    <2>1. applied' \in Seq(Step)
      <3>1. applied \in Seq(Step) /\ applied' = applied \o ExecutedSteps(complete_num_txs, upper)
        BY DEF HostInv, HostTypeOK, RunUpTo
      <3> QED
        BY <3>1, <1>6, <1>12, ConcatSteps, Zenon
    <2>2. complete_num_txs' \in 0..block'.txs /\ subblock_index' \in Nat
      BY <1>1, <1>3, <1>4, <1>10
    <2>3. big_state' \in Seq(Step) /\ subblock_roots' \in Seq(Seq(Step) \X Seq(Step))
      BY DEF HostInv, HostTypeOK
    <2> QED
      BY <2>1, <2>2, <2>3, <1>10, <1>11 DEF HostTypeOK
  <1>14. host_pc' = "execute" => InLoop'
    <2> SUFFICES ASSUME host_pc' = "execute"
                 PROVE  InLoop'
      OBVIOUS
    <2>1. upper # block.txs /\ upper \in 1..(block.txs - 1) /\ block.txs > 0
      BY <1>1, <1>3, <1>5, <1>10
    <2>2. subblock_index + 1 \in 1..Len(ends)
      BY <1>1
    <2>3. ends[subblock_index + 1] <= upper
      BY <2>1, <2>2, <1>1, <1>2, LoopKeepsAhead DEF SubblockGasLimit
    <2> QED
      BY <2>1, <2>2, <2>3, <1>4, <1>10 DEF InLoop
  <1>15. /\ Len(subblock_inputs') = subblock_index' /\ Len(state_diffs') = subblock_index'
         /\ subblock_inputs' = [k \in 1..subblock_index' |-> subblock_inputs'[k]]
         /\ state_diffs' = [k \in 1..subblock_index' |-> state_diffs'[k]]
         /\ \A k \in 1..subblock_index' : /\ Steps(subblock_inputs'[k]) = state_diffs'[k]
                                          /\ state_diffs'[k] \in Seq(Step)
    <2>1. Steps(InputFor(complete_num_txs, upper)) = ExecutedSteps(complete_num_txs, upper)
      BY <1>5, <1>6, ClientSteps DEF InputFor, RunSteps
    <2>2. /\ subblock_inputs = [k \in 1..subblock_index |-> subblock_inputs[k]]
          /\ state_diffs = [k \in 1..subblock_index |-> state_diffs[k]]
          /\ \A k \in 1..subblock_index : /\ Steps(subblock_inputs[k]) = state_diffs[k]
                                          /\ state_diffs[k] \in Seq(Step)
      BY DEF HostInv
    <2>3. /\ subblock_inputs' = Append(subblock_inputs, InputFor(complete_num_txs, upper))
          /\ state_diffs' = Append(state_diffs, ExecutedSteps(complete_num_txs, upper))
      BY DEF RunUpTo
    <2>4. /\ Len(subblock_inputs') = subblock_index + 1
          /\ subblock_inputs' = [k \in 1..(subblock_index + 1) |-> subblock_inputs'[k]]
          /\ \A k \in 1..subblock_index : subblock_inputs'[k] = subblock_inputs[k]
          /\ subblock_inputs'[subblock_index + 1] = InputFor(complete_num_txs, upper)
      BY <2>2, <2>3, <1>1, AppendAt
    <2>5. /\ Len(state_diffs') = subblock_index + 1
          /\ state_diffs' = [k \in 1..(subblock_index + 1) |-> state_diffs'[k]]
          /\ \A k \in 1..subblock_index : state_diffs'[k] = state_diffs[k]
          /\ state_diffs'[subblock_index + 1] = ExecutedSteps(complete_num_txs, upper)
      BY <2>2, <2>3, <1>1, AppendAt
    <2>6. ASSUME NEW k \in 1..(subblock_index + 1)
          PROVE  /\ Steps(subblock_inputs'[k]) = state_diffs'[k]
                 /\ state_diffs'[k] \in Seq(Step)
      <3>1. k \in 1..subblock_index \/ k = subblock_index + 1
        BY <1>1
      <3> QED
        BY <3>1, <2>1, <2>2, <2>4, <2>5, <1>6, <1>12
    <2> QED
      BY <2>4, <2>5, <2>6, <1>10
  <1>16. /\ subblock_index' <= Len(ends') /\ pc' = "done"
    BY <1>1, <1>4, <1>10
  <1>17. /\ cumulative_gas_used' = block'.gas[complete_num_txs']
         /\ applied' = IF host_pc' \in {"split", "execute"} THEN StepsUpTo(Body, complete_num_txs)'
                                                            ELSE BlockSteps(Body)'
         /\ host_pc' \in {"execute", "verify"}
    BY <1>4, <1>8, <1>10, <1>11
  <1> QED
    BY <1>4, <1>9, <1>13, <1>14, <1>15, <1>16, <1>17 DEF HostInv

\* The loop never asks for a limit that is not there, and preserves the invariant.
LEMMA RunSubblockInv ==
  ASSUME HostInv, RunSubblock
  PROVE  HostInv' /\ Execution!ExecRun
  <1>1. host_pc = "execute" /\ subblock_index < Len(limits)
    BY RoundFacts DEF RunSubblock
  <1>2. PICK upper \in Executed(complete_num_txs, SubblockGasLimit) :
               RunUpTo(upper)
    BY <1>1 DEF RunSubblock
  <1>3. UNCHANGED splitVars /\ UNCHANGED <<subblock_roots, big_state>>
    BY DEF RunSubblock
  <1> QED
    BY <1>1, <1>2, <1>3, RunUpToInv

\* The state root is that of the header: no mismatch is reported.
LEMMA VerifyStateRootInv ==
  ASSUME HostInv, VerifyStateRoot
  PROVE  HostInv'
  <1>1. /\ host_pc = "verify" /\ applied = BlockSteps(Body) /\ host_pc' = "roots"
        /\ UNCHANGED <<subblock_index, complete_num_txs, cumulative_gas_used, applied,
                       state_diffs, subblock_inputs, subblock_roots, big_state>>
        /\ UNCHANGED <<block, pc, ends>>
    BY DEF HostInv, VerifyStateRoot, splitVars
  <1>2. SplitInv' /\ Body' = Body
    BY SplitStep DEF HostInv, VerifyStateRoot, splitVars, Body
  <1>3. HostTypeOK'
    BY <1>1 DEF HostInv, HostTypeOK
  <1> QED
    BY <1>1, <1>2, <1>3 DEF HostInv

\* A round of the roots loop preserves the invariant.
LEMMA ComputeRootsInv ==
  ASSUME HostInv, ComputeRoots
  PROVE  HostInv'
  <1>1. /\ host_pc = "roots" /\ host_pc' \in {"roots", "done"}
        /\ UNCHANGED <<subblock_index, complete_num_txs, cumulative_gas_used, applied,
                       state_diffs, subblock_inputs>>
        /\ UNCHANGED <<block, pc, ends>>
    BY DEF ComputeRoots, splitVars
  <1>2. SplitInv' /\ Body' = Body
    BY SplitStep DEF HostInv, ComputeRoots, splitVars, Body
  <1>3. big_state' \in Seq(Step)
    <2>1. Len(subblock_roots) + 1 \in 1..subblock_index
      BY DEF HostInv, HostTypeOK, ComputeRoots
    <2>2. big_state \in Seq(Step) /\ state_diffs[Len(subblock_roots) + 1] \in Seq(Step)
      BY <2>1 DEF HostInv, HostTypeOK
    <2>3. big_state' = big_state \o state_diffs[Len(subblock_roots) + 1]
      BY DEF ComputeRoots
    <2> QED
      BY <2>2, <2>3, ConcatSteps, Zenon
  <1>4. subblock_roots' \in Seq(Seq(Step) \X Seq(Step))
    <2> DEFINE R == Seq(Step) \X Seq(Step)
    <2>1. <<big_state, big_state'>> \in R /\ subblock_roots \in Seq(R)
      BY <1>3 DEF HostInv, HostTypeOK
    <2>2. subblock_roots' = Append(subblock_roots, <<big_state, big_state'>>)
      BY DEF ComputeRoots
    <2> HIDE DEF R
    <2>3. subblock_roots' \in Seq(R)
      BY <2>1, <2>2, AppendProperties
    <2> QED
      BY <2>3 DEF R
  <1>5. HostTypeOK'
    BY <1>1, <1>3, <1>4 DEF HostInv, HostTypeOK
  <1> QED
    BY <1>1, <1>2, <1>5 DEF HostInv

-----------------------------------------------------------------------------
(***************************************************************************)
(* The states between the subblocks: st[k] is the state behind subblock k. *)
(* The loop ends in the last of them, and the roots loop walks through     *)
(* them once more with the recorded diffs.                                 *)
(***************************************************************************)
RootsChain(st) ==
  /\ st \in [0..subblock_index -> Seq(Step)]
  /\ st[0] = << >>
  /\ st[subblock_index] = applied
  /\ \A k \in 1..subblock_index : st[k] = st[k - 1] \o state_diffs[k]
  /\ Len(subblock_roots) <= subblock_index
  /\ big_state = st[Len(subblock_roots)]
  /\ \A k \in 1..Len(subblock_roots) : subblock_roots[k] = <<st[k - 1], st[k]>>

RootsInv ==
  /\ host_pc \in {"split", "execute", "verify"} => subblock_roots = << >>
  /\ host_pc \notin {"split", "execute"} => subblock_index > 0
  /\ host_pc = "done" => Len(subblock_roots) = subblock_index
  /\ \E st : RootsChain(st)

\* The chain of states is empty when the host starts.
LEMMA RootsInitInv ==
  ASSUME HostInit
  PROVE  RootsInv
  <1> DEFINE st == [k \in 0..0 |-> << >>]
  <1>1. RootsChain(st)
    BY DEF HostInit, RootsChain
  <1> QED
    BY <1>1 DEF HostInit, RootsInv

\* A round of the loop extends the chain of states.
LEMMA RunSubblockRoots ==
  ASSUME HostInv, RootsInv, HostInv', RunSubblock
  PROVE  RootsInv'
  <1>1. host_pc = "execute" /\ subblock_index < Len(limits) /\ subblock_index \in Nat
    BY RoundFacts DEF RunSubblock
  <1>2. PICK upper \in Executed(complete_num_txs, SubblockGasLimit) :
               RunUpTo(upper)
    BY <1>1 DEF RunSubblock
  <1>3. PICK d : d = ExecutedSteps(complete_num_txs, upper)
    OBVIOUS
  <1>4. /\ applied' = applied \o d /\ state_diffs' = Append(state_diffs, d)
        /\ subblock_index' = subblock_index + 1 /\ host_pc' \in {"execute", "verify"}
        /\ UNCHANGED <<subblock_roots, big_state>>
    BY <1>1, <1>2, <1>3 DEF RunUpTo, RunSubblock
  <1>5. PICK st : RootsChain(st)
    BY DEF RootsInv
  <1>6. subblock_roots = << >> /\ Len(subblock_roots) = 0 /\ big_state = << >>
    BY <1>1, <1>5 DEF RootsInv, RootsChain
  <1>7. /\ \A k \in 1..subblock_index : state_diffs'[k] = state_diffs[k]
        /\ state_diffs'[subblock_index + 1] = d
    BY <1>1, <1>4, AppendAt DEF HostInv
  <1>8. applied' \in Seq(Step)
    BY DEF HostInv, HostTypeOK
  <1>e. PICK ext : ext = [k \in 0..(subblock_index + 1) |->
                            IF k = subblock_index + 1 THEN applied' ELSE st[k]]
    OBVIOUS
  <1>9. ext \in [0..(subblock_index + 1) -> Seq(Step)]
    <2>1. ASSUME NEW k \in 0..(subblock_index + 1), k # subblock_index + 1
          PROVE  st[k] \in Seq(Step)
      <3>1. k \in 0..subblock_index
        BY <2>1, <1>1
      <3> QED
        BY <3>1, <1>5 DEF RootsChain
    <2> QED
      BY <2>1, <1>8, <1>e
  <1>10. /\ ext[0] = << >> /\ ext[subblock_index + 1] = applied'
         /\ \A k \in 0..subblock_index : ext[k] = st[k]
    BY <1>1, <1>5, <1>e DEF RootsChain
  <1>11. ASSUME NEW k \in 1..(subblock_index + 1)
         PROVE  ext[k] = ext[k - 1] \o state_diffs'[k]
    <2>1. CASE k = subblock_index + 1
      <3>1. k - 1 = subblock_index /\ k - 1 \in 0..subblock_index
        BY <2>1, <1>1
      <3>2. ext[k - 1] = applied
        BY <3>1, <1>5, <1>10 DEF RootsChain
      <3> QED
        BY <3>2, <2>1, <1>4, <1>7, <1>10
    <2>2. CASE k # subblock_index + 1
      <3>1. k \in 1..subblock_index /\ k \in 0..subblock_index /\ k - 1 \in 0..subblock_index
        BY <2>2, <1>1
      <3>2. st[k] = st[k - 1] \o state_diffs[k]
        BY <3>1, <1>5 DEF RootsChain
      <3> QED
        BY <3>1, <3>2, <1>7, <1>10
    <2> QED
      BY <2>1, <2>2
  <1>12. RootsChain(ext)'
    <2>1. ext \in [0..subblock_index' -> Seq(Step)] /\ ext[subblock_index'] = applied'
      BY <1>4, <1>9, <1>10
    <2>2. \A k \in 1..subblock_index' : ext[k] = ext[k - 1] \o state_diffs'[k]
      BY <1>4, <1>11
    <2>3. /\ Len(subblock_roots') = 0 /\ Len(subblock_roots') <= subblock_index'
          /\ big_state' = << >>
      BY <1>1, <1>4, <1>6
    <2>4. big_state' = ext[Len(subblock_roots')] /\ ext[0] = << >>
      BY <2>3, <1>10
    <2>5. \A k \in 1..Len(subblock_roots') : subblock_roots'[k] = <<ext[k - 1], ext[k]>>
      BY <2>3
    <2> QED
      BY <2>1, <2>2, <2>3, <2>4, <2>5 DEF RootsChain
  <1> QED
    BY <1>1, <1>4, <1>6, <1>12 DEF RootsInv

\* A round of the roots loop follows the chain of states.
LEMMA ComputeRootsRoots ==
  ASSUME HostInv, RootsInv, ComputeRoots
  PROVE  RootsInv'
  <1>1. PICK st : RootsChain(st)
    BY DEF RootsInv
  <1>2. PICK n \in Nat : n = Len(subblock_roots)
                         /\ subblock_roots = [k \in 1..n |-> subblock_roots[k]]
    <2> DEFINE R == Seq(Step) \X Seq(Step)
    <2>1. subblock_roots \in Seq(R)
      BY DEF HostInv, HostTypeOK
    <2> HIDE DEF R
    <2>2. /\ Len(subblock_roots) \in Nat
          /\ subblock_roots = [k \in 1..Len(subblock_roots) |-> subblock_roots[k]]
      BY <2>1
    <2> QED
      BY <2>2
  <1>3. /\ subblock_index \in Nat /\ subblock_index' = subblock_index /\ n < subblock_index
        /\ UNCHANGED <<applied, state_diffs, subblock_inputs>>
        /\ big_state' = big_state \o state_diffs[n + 1]
        /\ subblock_roots' = Append(subblock_roots, <<big_state, big_state'>>)
        /\ host_pc' = IF n + 1 = subblock_index THEN "done" ELSE "roots"
    BY <1>2 DEF HostInv, HostTypeOK, ComputeRoots
  <1>4. big_state = st[n] /\ big_state' = st[n + 1]
    <2>1. n + 1 \in 1..subblock_index /\ (n + 1) - 1 = n
      BY <1>2, <1>3
    <2> QED
      BY <2>1, <1>1, <1>2, <1>3 DEF RootsChain
  <1>5. /\ Len(subblock_roots') = n + 1
        /\ \A k \in 1..n : subblock_roots'[k] = subblock_roots[k]
        /\ subblock_roots'[n + 1] = <<st[n], st[n + 1]>>
    <2>1. PICK e : e = <<st[n], st[n + 1]>>
      OBVIOUS
    <2>2. subblock_roots' = Append(subblock_roots, e)
      BY <2>1, <1>3, <1>4
    <2>3. /\ Len(subblock_roots') = n + 1
          /\ \A k \in 1..n : subblock_roots'[k] = subblock_roots[k]
          /\ subblock_roots'[n + 1] = e
      BY <2>2, <1>2, AppendAt
    <2> QED
      BY <2>1, <2>3
  <1>6. ASSUME NEW k \in 1..(n + 1)
        PROVE  subblock_roots'[k] = <<st[k - 1], st[k]>>
    <2>1. CASE k = n + 1
      BY <2>1, <1>2, <1>5
    <2>2. CASE k # n + 1
      <3>1. k \in 1..n
        BY <2>2, <1>2
      <3> QED
        BY <3>1, <1>1, <1>2, <1>5 DEF RootsChain
    <2> QED
      BY <2>1, <2>2
  <1>7. n + 1 <= subblock_index
    BY <1>2, <1>3
  <1>8. RootsChain(st)'
    BY <1>1, <1>3, <1>4, <1>5, <1>6, <1>7 DEF RootsChain
  <1> QED
    BY <1>2, <1>3, <1>5, <1>8 DEF RootsInv

(***************************************************************************)
(* A step of the host keeps both invariants, and is a step of the abstract *)
(* execution or leaves it alone.                                           *)
(***************************************************************************)
LEMMA HostStep ==
  ASSUME HostInv, RootsInv, [HostNext]_<<splitVars, hostVars>>
  PROVE  /\ HostInv' /\ RootsInv'
         /\ [Execution!ExecRun]_<<Body, applied>>
  <1>1. CASE UNCHANGED <<splitVars, hostVars>>
    <2>1. SplitInv'
      BY <1>1, SplitStep DEF HostInv
    <2>2. UNCHANGED <<block, pc, ends, limits>> /\ UNCHANGED hostVars /\ Body' = Body
      BY <1>1 DEF splitVars, Body
    <2>3. HostInv'
      BY <2>1, <2>2 DEF HostInv, HostTypeOK, InLoop, hostVars
    <2>4. PICK st : RootsChain(st)
      BY DEF RootsInv
    <2>5. RootsChain(st)'
      BY <2>2, <2>4 DEF hostVars, RootsChain
    <2>6. RootsInv'
      BY <2>2, <2>5 DEF hostVars, RootsInv
    <2> QED
      BY <2>2, <2>3, <2>6 DEF hostVars
  <1>2. CASE ComputeGasLimits
    <2>1. UNCHANGED <<subblock_index, applied, state_diffs, subblock_roots, big_state>>
          /\ host_pc = "split" /\ Body' = Body
      BY <1>2, SplitKeepsBlock DEF ComputeGasLimits, Body
    <2>2. HostInv' /\ host_pc' \in {"split", "execute", "panic"}
      BY <1>2, ComputeGasLimitsInv DEF ComputeGasLimits
    <2>3. PICK st : RootsChain(st)
      BY DEF RootsInv
    <2>4. RootsChain(st)'
      BY <2>1, <2>3 DEF RootsChain
    <2>5. RootsInv'
      BY <2>1, <2>2, <2>4 DEF RootsInv, HostInv
    <2> QED
      BY <2>1, <2>2, <2>5
  <1>3. CASE RunSubblock
    BY <1>3, RunSubblockInv, RunSubblockRoots
  <1>4. CASE VerifyStateRoot
    <2>1. UNCHANGED <<subblock_index, applied, state_diffs, subblock_roots, big_state>>
          /\ host_pc = "verify" /\ Body' = Body /\ host_pc' \in {"roots", "mismatch"}
      BY <1>4 DEF VerifyStateRoot, splitVars, Body
    <2>2. HostInv'
      BY <1>4, VerifyStateRootInv
    <2>3. PICK st : RootsChain(st)
      BY DEF RootsInv
    <2>4. RootsChain(st)'
      BY <2>1, <2>3 DEF RootsChain
    <2>5. RootsInv'
      BY <2>1, <2>2, <2>4 DEF RootsInv, HostInv
    <2> QED
      BY <2>1, <2>2, <2>5
  <1>5. CASE ComputeRoots
    <2>1. Body' = Body /\ applied' = applied
      BY <1>5 DEF ComputeRoots, splitVars, Body
    <2> QED
      BY <2>1, <1>5, ComputeRootsInv, ComputeRootsRoots
  <1> QED
    BY <1>1, <1>2, <1>3, <1>4, <1>5 DEF HostNext

\* The inductive invariants hold throughout the host run.
LEMMA HostInvariant == HostSpec => [](HostInv /\ RootsInv)
  BY HostInitInv, RootsInitInv, HostStep, PTL DEF HostSpec

-----------------------------------------------------------------------------
(* The host's loop keeps its variables in their types. *)
THEOREM HostTypeCorrect == HostSpec => []HostTypeOK
  <1>1. HostInv /\ RootsInv => HostTypeOK
    BY DEF HostInv
  <1> QED
    BY <1>1, HostInvariant, PTL

(***************************************************************************)
(* execute_subblock never indexes past subblock_gas_limits and no          *)
(* assertion of the split fires, for every block and every                 *)
(* MAX_SUBBLOCK_COUNT.                                                     *)
(***************************************************************************)
THEOREM HostNeverPanics == HostSpec => []NoHostPanic
  <1>1. HostInv /\ RootsInv => NoHostPanic
    BY DEF HostInv, NoHostPanic
  <1> QED
    BY <1>1, HostInvariant, PTL

(***************************************************************************)
(* From the input prepared for a subblock the client, with the flags and   *)
(* without a limit, repeats the steps of the host's own run, which had a   *)
(* limit and was never flagged last.                                       *)
(***************************************************************************)
THEOREM HostReplay == HostSpec => []ClientReplaysHost
  <1>1. HostInv /\ RootsInv => ClientReplaysHost
    BY DEF HostInv, ClientReplaysHost
  <1> QED
    BY <1>1, HostInvariant, PTL

(* The host produces at most MAX_SUBBLOCK_COUNT subblocks. *)
THEOREM HostCountBounded == HostSpec => []SubblockCountBounded
  <1>1. HostInv => SubblockCountBounded
    <2> SUFFICES ASSUME HostInv
                 PROVE  subblock_index <= MaxSubblockCount
      BY DEF HostInv, SubblockCountBounded
    <2>1. /\ SplitInv /\ IsBlock(block) /\ block.txs \in Nat /\ Len(ends) \in Nat
          /\ subblock_index \in Nat
      <3>1. SplitInv /\ HostTypeOK
        BY DEF HostInv
      <3>2. IsBlock(block) /\ Len(ends) \in Nat
        BY <3>1 DEF SplitInv, SplitTypeOK
      <3>3. block.txs \in Nat
        BY <3>2 DEF IsBlock
      <3>4. subblock_index \in Nat
        BY <3>1 DEF HostTypeOK
      <3> QED
        BY <3>1, <3>2, <3>3, <3>4
    <2>2. CASE host_pc = "split"
      BY <2>2, CountAssumption DEF HostInv
    <2>3. CASE host_pc # "split"
      <3>1. pc = "done" /\ subblock_index <= Len(ends)
        BY <2>3 DEF HostInv
      <3>2. Len(ends) <= MaxSubblockCount
        <4>1. CASE block.txs = 0
          BY <4>1, <3>1, <2>1, CountAssumption DEF SplitInv
        <4>2. CASE block.txs > 0
          BY <4>2, <3>1, <2>1, CountAssumption DEF SplitInv
        <4> QED
          BY <4>1, <4>2, <2>1
      <3> QED
        BY <3>1, <3>2, <2>1, CountAssumption
    <2> QED
      BY <2>2, <2>3
  <1> QED
    BY <1>1, HostInvariant, PTL

(***************************************************************************)
(* The roots the host hands to the subblocks lead without a gap from the   *)
(* parent state to the state of the whole block, and the state root check  *)
(* never fails.                                                            *)
(***************************************************************************)
THEOREM HostRootsReachHeader == HostSpec => []RootsReachHeader
  <1>1. HostInv /\ RootsInv => RootsReachHeader
    <2> SUFFICES ASSUME HostInv, RootsInv, host_pc = "done"
                 PROVE  /\ subblock_roots[1][1] = << >>
                        /\ subblock_roots[Len(subblock_roots)][2] = BlockSteps(Body)
                        /\ \A k \in 2..Len(subblock_roots) :
                             subblock_roots[k][1] = subblock_roots[k - 1][2]
      BY DEF HostInv, RootsReachHeader
    <2>1. PICK st : RootsChain(st)
      BY DEF RootsInv
    <2>2. PICK n \in Nat : n = subblock_index /\ n = Len(subblock_roots) /\ n > 0
      BY DEF RootsInv, HostInv, HostTypeOK
    <2>3. \A k \in 1..n : subblock_roots[k] = <<st[k - 1], st[k]>>
      BY <2>1, <2>2 DEF RootsChain
    <2>4. subblock_roots[1][1] = << >>
      <3>1. 1 \in 1..n /\ 1 - 1 = 0
        BY <2>2
      <3>2. subblock_roots[1] = <<st[0], st[1]>>
        BY <3>1, <2>3
      <3> QED
        BY <3>2, <2>1 DEF RootsChain
    <2>5. subblock_roots[n][2] = BlockSteps(Body)
      <3>1. subblock_roots[n] = <<st[n - 1], st[n]>>
        BY <2>2, <2>3
      <3>2. st[n] = applied /\ applied = BlockSteps(Body)
        BY <2>1, <2>2 DEF RootsChain, HostInv
      <3> QED
        BY <3>1, <3>2
    <2>6. ASSUME NEW k \in 2..n
          PROVE  subblock_roots[k][1] = subblock_roots[k - 1][2]
      <3>1. k \in 1..n /\ k - 1 \in 1..n
        BY <2>2
      <3>2. /\ subblock_roots[k] = <<st[k - 1], st[k]>>
            /\ subblock_roots[k - 1] = <<st[(k - 1) - 1], st[k - 1]>>
        BY <3>1, <2>3
      <3> QED
        BY <3>2
    <2> QED
      BY <2>2, <2>4, <2>5, <2>6
  <1> QED
    BY <1>1, HostInvariant, PTL

(***************************************************************************)
(* Executing a block as subblocks implements executing it: the host's loop *)
(* takes the steps of the block, each once and in order.                   *)
(***************************************************************************)
THEOREM HostImplements == HostSpec => ImplementsExecution
  <1>1. HostInit => Execution!ExecInit
    BY DEF HostInit, Execution!ExecInit
  <1>2. HostInv /\ RootsInv /\ [HostNext]_<<splitVars, hostVars>>
          => [Execution!ExecRun]_<<Body, applied>>
    BY HostStep
  <1> QED
    BY <1>1, <1>2, HostInvariant, PTL DEF HostSpec, ImplementsExecution, Execution!ExecSpec
=============================================================================

------------------------- MODULE AggregationProofs --------------------------
(***************************************************************************)
(* What a header returned by execute_aggregation means, for every set of   *)
(* proven public values, every number of subblocks and every input; and    *)
(* what merge_requests makes of the requests of the subblocks.             *)
(***************************************************************************)
EXTENDS Aggregation, SubblockRequests, StepLemmas, SequenceTheorems, TLAPS

(* The steps of the block the public values read so far have taken, if     *)
(* their flags are exact.                                                  *)
Progress ==
  IF seen = << >> THEN << >>
  ELSE IF Len(seen) = agg_len THEN <<Pre>> \o transaction_body \o <<Post>>
  ELSE <<Pre>> \o transaction_body

(* The windows of the header chain walked so far. *)
ChainInv ==
  LET number == agg_input.header.number
      ancestors == agg_input.ancestors
  IN  /\ DOMAIN reconstructed = (number - linked)..(number - 1)
      /\ \A j \in 1..linked :
           /\ ancestors[j].number = number - j
           /\ reconstructed[number - j] = ancestors[j].hash
           /\ ancestors[j].hash = IF j = 1 THEN agg_input.header.parent_hash
                                  ELSE ancestors[j - 1].parent_hash

AggInv ==
  /\ AggTypeOK
  /\ FlagsExact => cumulative.output_state_root = ParentStateRoot \o Progress
  /\ seen = << >> => transaction_body = << >> /\ block_hashes = << >>
  /\ ReceiptsOf(cumulative.receipts, transaction_body, 0)
  /\ cumulative.logs_bloom = Bloom(transaction_body)
  /\ \A k \in 1..Len(seen) : block_hashes = <<seen[k].input.block_hashes>>
  /\ ChainInv
  /\ agg_pc \in {"link", "accepted"} => Len(seen) = agg_len
  /\ agg_pc = "accepted" => /\ FinalChecks
                            /\ linked = Len(agg_input.ancestors)
                            /\ header = <<DerivedHeader>>

-----------------------------------------------------------------------------
(* Receipts of consecutive transactions, the second part counted on from   *)
(* where the first part ends, are the receipts of them all.                *)
LEMMA ReceiptsConcat ==
  ASSUME NEW r1 \in Seq(Receipt), NEW r2 \in Seq(Receipt),
         NEW t1 \in Seq(Step), NEW t2 \in Seq(Step), NEW start,
         start = (IF r1 = << >> THEN 0 ELSE r1[Len(r1)].cumulative_gas_used),
         ReceiptsOf(r1, t1, 0), ReceiptsOf(r2, t2, start)
  PROVE  ReceiptsOf(r1 \o r2, t1 \o t2, 0)
  <1> DEFINE r == r1 \o r2
             t == t1 \o t2
             n == Len(t1)
             m == Len(t2)
  <1>1. Len(r1) = n /\ Len(r2) = m /\ n \in Nat /\ m \in Nat
    BY DEF ReceiptsOf
  <1>2. /\ Len(r) = n + m /\ Len(t) = n + m
        /\ \A j \in 1..n : r[j] = r1[j] /\ t[j] = t1[j]
        /\ \A j \in (n + 1)..(n + m) : r[j] = r2[j - n] /\ t[j] = t2[j - n]
    <2>1. /\ Len(t) = n + m
          /\ \A j \in 1..n : t[j] = t1[j]
          /\ \A j \in (n + 1)..(n + m) : t[j] = t2[j - n]
      BY ConcatAt
    <2>2. /\ Len(r) = Len(r1) + Len(r2)
          /\ \A j \in 1..Len(r1) : r[j] = r1[j]
          /\ \A j \in (Len(r1) + 1)..(Len(r1) + Len(r2)) : r[j] = r2[j - Len(r1)]
      BY ConcatAt
    <2> HIDE DEF r, t
    <2> QED
      BY <2>1, <2>2, <1>1
  <1> HIDE DEF r, t, n, m
  <1>3. ASSUME NEW j \in 1..(n + m)
        PROVE  /\ r[j].gas = t[j].gas
               /\ r[j].cumulative_gas_used = GasBefore(r, 0, j) + t[j].gas
    <2>1. CASE j \in 1..n
      <3>1. /\ r1[j].gas = t1[j].gas
            /\ r1[j].cumulative_gas_used = GasBefore(r1, 0, j) + t1[j].gas
        BY <2>1 DEF ReceiptsOf, n
      <3>2. GasBefore(r, 0, j) = GasBefore(r1, 0, j)
        BY <2>1, <1>1, <1>2 DEF GasBefore
      <3> QED
        BY <2>1, <3>1, <3>2, <1>2
    <2>2. CASE j \in (n + 1)..(n + m)
      <3>1. j - n \in 1..m
        BY <2>2, <1>1
      <3>2. /\ r2[j - n].gas = t2[j - n].gas
            /\ r2[j - n].cumulative_gas_used = GasBefore(r2, start, j - n) + t2[j - n].gas
        BY <3>1 DEF ReceiptsOf, m
      <3>3. GasBefore(r, 0, j) = GasBefore(r2, start, j - n)
        <4>1. CASE j = n + 1
          <5>1. CASE n = 0
            BY <4>1, <5>1, <1>1 DEF GasBefore
          <5>2. CASE n > 0
            <6>1. j # 1 /\ j - 1 = n /\ j - n = 1 /\ n \in 1..n
              BY <4>1, <5>2, <1>1
            <6>2. r1 # << >> /\ start = r1[n].cumulative_gas_used
              BY <5>2, <1>1
            <6> QED
              BY <6>1, <6>2, <1>2 DEF GasBefore
          <5> QED
            BY <5>1, <5>2, <1>1
        <4>2. CASE j > n + 1
          <5>1. j # 1 /\ j - n # 1 /\ j - 1 \in (n + 1)..(n + m) /\ (j - 1) - n = (j - n) - 1
            BY <4>2, <2>2, <1>1
          <5> QED
            BY <5>1, <1>2 DEF GasBefore
        <4> QED
          BY <4>1, <4>2, <2>2, <1>1
      <3> QED
        BY <3>2, <3>3, <2>2, <1>2
    <2> QED
      BY <2>1, <2>2, <1>1
  <1> QED
    BY <1>2, <1>3 DEF ReceiptsOf, r, t, n, m

\* The bloom of two bodies in a row is the union of their blooms.
LEMMA BloomConcat ==
  ASSUME NEW t1 \in Seq(Step), NEW t2 \in Seq(Step)
  PROVE  /\ Bloom(t1 \o t2) = Bloom(t1) \union Bloom(t2)
         /\ Bloom(t1) \subseteq Int
  <1> DEFINE t == t1 \o t2
  <1>1. /\ DOMAIN t1 = 1..Len(t1) /\ DOMAIN t2 = 1..Len(t2)
        /\ Len(t1) \in Nat /\ Len(t2) \in Nat
    OBVIOUS
  <1>2. /\ DOMAIN t = 1..(Len(t1) + Len(t2))
        /\ \A j \in 1..Len(t1) : t[j] = t1[j]
        /\ \A j \in (Len(t1) + 1)..(Len(t1) + Len(t2)) : t[j] = t2[j - Len(t1)]
    BY <1>1, ConcatProperties
  <1> HIDE DEF t
  <1>3. ASSUME NEW x \in Bloom(t) PROVE x \in Bloom(t1) \union Bloom(t2)
    <2>1. PICK j \in DOMAIN t : x = t[j].id
      BY <1>3 DEF Bloom
    <2>2. CASE j \in 1..Len(t1)
      BY <2>1, <2>2, <1>1, <1>2 DEF Bloom
    <2>3. CASE j \in (Len(t1) + 1)..(Len(t1) + Len(t2))
      <3>1. j - Len(t1) \in DOMAIN t2
        BY <2>3, <1>1
      <3> QED
        BY <2>1, <2>3, <3>1, <1>2 DEF Bloom
    <2> QED
      BY <2>1, <2>2, <2>3, <1>1, <1>2
  <1>4. ASSUME NEW x \in Bloom(t1) PROVE x \in Bloom(t)
    <2>1. PICK j \in DOMAIN t1 : x = t1[j].id
      BY <1>4 DEF Bloom
    <2>2. j \in DOMAIN t /\ t[j] = t1[j]
      BY <2>1, <1>1, <1>2
    <2> QED
      BY <2>1, <2>2 DEF Bloom
  <1>5. ASSUME NEW x \in Bloom(t2) PROVE x \in Bloom(t)
    <2>1. PICK j \in DOMAIN t2 : x = t2[j].id
      BY <1>5 DEF Bloom
    <2>2. j + Len(t1) \in DOMAIN t /\ t[j + Len(t1)] = t2[j]
      <3>1. /\ j + Len(t1) \in (Len(t1) + 1)..(Len(t1) + Len(t2))
            /\ (j + Len(t1)) - Len(t1) = j
        BY <2>1, <1>1
      <3> QED
        BY <3>1, <1>1, <1>2
    <2> QED
      BY <2>1, <2>2 DEF Bloom
  <1>6. Bloom(t1) \subseteq Int
    <2> SUFFICES ASSUME NEW j \in DOMAIN t1 PROVE t1[j].id \in Int
      BY DEF Bloom
    <2>1. t1[j] \in Step
      BY <1>1
    <2> QED
      BY <2>1 DEF Step
  <1> QED
    BY <1>3, <1>4, <1>5, <1>6 DEF t

-----------------------------------------------------------------------------
\* The invariant holds before the first public value is read.
LEMMA AggInitInv ==
  ASSUME AggInit
  PROVE  AggInv
  <1>1. IsAggregationInput(agg_input)
    BY InputAssumption DEF AggInit
  <1>2. AggTypeOK
    BY <1>1, ParentAssumption, MaxAssumption DEF AggInit, AggTypeOK, IsAggregationInput
  <1>3. cumulative.output_state_root = ParentStateRoot \o Progress
    BY ParentAssumption, ConcatEmptySeq DEF AggInit, Progress
  <1>4. ReceiptsOf(cumulative.receipts, transaction_body, 0)
        /\ cumulative.logs_bloom = Bloom(transaction_body)
    BY DEF AggInit, ReceiptsOf, Bloom
  <1>5. ChainInv
    BY <1>1 DEF AggInit, ChainInv, IsAggregationInput
  <1> QED
    BY <1>2, <1>3, <1>4, <1>5 DEF AggInit, AggInv

\* The steps of a client, from the flags of its input.
LEMMA ClientSteps ==
  \A input : Steps(input) = (IF input.is_first_subblock THEN <<Pre>> ELSE << >>)
                              \o input.txs
                              \o (IF input.is_last_subblock THEN <<Post>> ELSE << >>)
  BY DEF Steps, ClientRun, ExecutorSteps

(* A round of the loop whose assertions hold. *)
LEMMA AggregateInv ==
  ASSUME AggInv, NEW pv \in PublicValues, AggregateSubblock(pv), SubblockChecks(pv)
  PROVE  AggInv'
  <1>1. /\ agg_pc = "loop" /\ agg_pc' = "loop" /\ Len(seen) < agg_len
        /\ block_hashes' = <<pv.input.block_hashes>>
        /\ cumulative' = Extend(cumulative, pv.output)
        /\ transaction_body' = transaction_body \o pv.input.txs
        /\ seen' = Append(seen, pv)
        /\ UNCHANGED <<agg_input, agg_len, linked, reconstructed, header>>
    BY DEF AggregateSubblock
  <1>2. AggTypeOK /\ IsProven(pv)
    BY ProvenAssumption DEF AggInv
  <1> DEFINE n == Len(seen)
             start == pv.input.starting_gas_used
  <1>3. /\ n \in Nat /\ seen \in Seq(PublicValues) /\ Len(seen') = n + 1
        /\ seen' \in Seq(PublicValues) /\ seen' # << >>
        /\ seen'[n + 1] = pv /\ \A k \in 1..n : seen'[k] = seen[k]
        /\ agg_len \in Nat /\ n + 1 <= agg_len
    <2>1. agg_len \in Nat /\ seen \in Seq(PublicValues)
      BY <1>2, MaxAssumption DEF AggTypeOK
    <2> QED
      BY <2>1, <1>1
  <1>4. /\ pv.input.txs \in Seq(Step) /\ transaction_body \in Seq(Step)
        /\ cumulative.output_state_root \in Seq(Step) /\ cumulative.receipts \in Seq(Receipt)
        /\ pv.output.receipts \in Seq(Receipt)
        /\ cumulative.logs_bloom \subseteq Int
    BY <1>2 DEF AggTypeOK, IsProven
  <1>5. Steps(pv.input) \in Seq(Step)
    <2>1. PICK txs \in Seq(Step) : txs = pv.input.txs
      BY <1>4
    <2>2. Steps(pv.input) = (IF pv.input.is_first_subblock THEN <<Pre>> ELSE << >>)
                              \o txs
                              \o (IF pv.input.is_last_subblock THEN <<Post>> ELSE << >>)
      BY <2>1, ClientSteps, Zenon
    <2> QED
      BY <2>2, PrePostSteps, ConcatProperties
  <1>6. /\ cumulative'.output_state_root = cumulative.output_state_root \o Steps(pv.input)
        /\ cumulative'.receipts = cumulative.receipts \o pv.output.receipts
        /\ cumulative'.logs_bloom = cumulative.logs_bloom \union Bloom(pv.input.txs)
    BY <1>1, <1>2 DEF Extend, IsProven, SubblockChecks
  <1>7. AggTypeOK'
    <2>1. cumulative' \in [output_state_root : Seq(Step), logs_bloom : SUBSET Int,
                           receipts : Seq(Receipt)]
      <3>1. cumulative.output_state_root \o Steps(pv.input) \in Seq(Step)
        BY <1>4, <1>5, ConcatProperties
      <3>2. cumulative.receipts \o pv.output.receipts \in Seq(Receipt)
        BY <1>4, ConcatProperties
      <3>3. cumulative.logs_bloom \union Bloom(pv.input.txs) \subseteq Int
        BY <1>4, BloomConcat
      <3> QED
        BY <3>1, <3>2, <3>3, <1>1, <1>6 DEF Extend
    <2>2. transaction_body' \in Seq(Step)
      BY <1>1, <1>4, ConcatProperties
    <2> QED
      BY <2>1, <2>2, <1>1, <1>2, <1>3 DEF AggTypeOK
  <1>8. FlagsExact' => cumulative'.output_state_root = ParentStateRoot \o Progress'
    <2> SUFFICES ASSUME FlagsExact'
                 PROVE  cumulative'.output_state_root = ParentStateRoot \o Progress'
      OBVIOUS
    <2>1. /\ pv.input.is_first_subblock <=> n + 1 = 1
          /\ pv.input.is_last_subblock <=> n + 1 = agg_len
      <3>1. n + 1 \in 1..Len(seen')
        BY <1>3
      <3> QED
        BY <3>1, <1>1, <1>3 DEF FlagsExact
    <2>2. FlagsExact
      BY <1>1, <1>3 DEF FlagsExact
    <2>3. cumulative.output_state_root = ParentStateRoot \o Progress
      BY <2>2 DEF AggInv
    <2> DEFINE L == IF n + 1 = agg_len THEN <<Post>> ELSE << >>
    <2>4. L \in Seq(Step) /\ ParentStateRoot \in Seq(Step)
      BY PrePostSteps, ParentAssumption
    <2>5. Progress' = <<Pre>> \o transaction_body' \o L
      <3>1. CASE n + 1 = agg_len
        BY <3>1, <1>1, <1>3 DEF Progress
      <3>2. CASE n + 1 # agg_len
        <4>1. <<Pre>> \o transaction_body' \in Seq(Step)
          BY <1>1, <1>4, PrePostSteps, ConcatProperties
        <4> QED
          BY <3>2, <4>1, <1>1, <1>3, ConcatEmptySeq DEF Progress
      <3> QED
        BY <3>1, <3>2
    <2>8. (IF pv.input.is_last_subblock THEN <<Post>> ELSE << >>) = L
      BY <2>1
    <2>6. CASE n = 0
      <3>1. seen = << >> /\ transaction_body = << >> /\ Progress = << >>
        BY <2>6, <1>3 DEF AggInv, Progress
      <3>2. Steps(pv.input) = (<<Pre>> \o pv.input.txs) \o L
        <4>1. pv.input.is_first_subblock
          BY <2>1, <2>6
        <4> QED
          BY <4>1, <2>8, ClientSteps
      <3> HIDE DEF L
      <3> QED
        BY <3>1, <3>2, <2>3, <2>4, <2>5, <1>1, <1>4, <1>6, ProgressFirst
    <2>7. CASE n > 0
      <3>1. seen # << >> /\ n # agg_len /\ n + 1 # 1
        BY <2>7, <1>1, <1>3
      <3>2. Progress = <<Pre>> \o transaction_body
        BY <3>1 DEF Progress
      <3>3. Steps(pv.input) = pv.input.txs \o L
        <4>1. ~pv.input.is_first_subblock
          BY <2>1, <3>1
        <4>2. << >> \o pv.input.txs = pv.input.txs
          BY <1>4, ConcatEmptySeq
        <4> QED
          BY <4>1, <4>2, <2>8, ClientSteps
      <3> HIDE DEF L
      <3>4. (ParentStateRoot \o (<<Pre>> \o transaction_body)) \o (pv.input.txs \o L)
              = ParentStateRoot \o ((<<Pre>> \o (transaction_body \o pv.input.txs)) \o L)
        <4>1. PICK P, p, b, t, l :
                /\ P = ParentStateRoot /\ p = <<Pre>> /\ b = transaction_body
                /\ t = pv.input.txs /\ l = L
          OBVIOUS
        <4>2. P \in Seq(Step) /\ b \in Seq(Step) /\ t \in Seq(Step) /\ l \in Seq(Step)
          BY <4>1, <2>4, <1>4
        <4>3. p \in Seq(Step)
          BY <4>1, PrePostSteps
        <4>4. Regrouped(P, p, b, t, l)
          BY <4>2, <4>3, ProgressLater, Zenon
        <4> QED
          BY <4>1, <4>4, Zenon DEF Regrouped
      <3> QED
        BY <3>2, <3>3, <3>4, <2>3, <2>5, <1>1, <1>6
    <2> QED
      BY <2>6, <2>7, <1>3
  <1>9. ReceiptsOf(cumulative.receipts, transaction_body, 0)'
    <2>1. start = IF cumulative.receipts = << >> THEN 0
                  ELSE cumulative.receipts[Len(cumulative.receipts)].cumulative_gas_used
      BY DEF SubblockChecks, LastGas
    <2>2. ReceiptsOf(pv.output.receipts, pv.input.txs, start)
          /\ ReceiptsOf(cumulative.receipts, transaction_body, 0)
      BY <1>2 DEF IsProven, AggInv
    <2>3. ReceiptsOf(cumulative.receipts \o pv.output.receipts,
                     transaction_body \o pv.input.txs, 0)
      BY <2>1, <2>2, <1>4, ReceiptsConcat
    <2> QED
      BY <2>3, <1>1, <1>6
  <1>10. cumulative'.logs_bloom = Bloom(transaction_body')
    BY <1>1, <1>4, <1>6, BloomConcat DEF AggInv
  <1>11. \A k \in 1..Len(seen') : block_hashes' = <<seen'[k].input.block_hashes>>
    <2> SUFFICES ASSUME NEW k \in 1..(n + 1)
                 PROVE  block_hashes' = <<seen'[k].input.block_hashes>>
      BY <1>3
    <2>1. CASE k = n + 1
      BY <2>1, <1>1, <1>3
    <2>2. CASE k \in 1..n
      <3>1. block_hashes = <<seen[k].input.block_hashes>> /\ seen # << >>
        BY <2>2, <1>3 DEF AggInv
      <3>2. block_hashes = <<pv.input.block_hashes>>
        BY <3>1 DEF SubblockChecks
      <3> QED
        BY <3>1, <3>2, <2>2, <1>1, <1>3
    <2> QED
      BY <2>1, <2>2, <1>3
  <1>12. ChainInv'
    BY <1>1 DEF AggInv, ChainInv
  <1> QED
    BY <1>1, <1>3, <1>7, <1>8, <1>9, <1>10, <1>11, <1>12 DEF AggInv

(* A step that moves neither the accumulators nor the history keeps what   *)
(* is known of them.                                                       *)
LEMMA AccumulatorsKept ==
  ASSUME AggInv,
         UNCHANGED <<agg_input, agg_len, cumulative, transaction_body, block_hashes, seen>>
  PROVE  /\ FlagsExact' <=> FlagsExact
         /\ (FlagsExact => cumulative.output_state_root = ParentStateRoot \o Progress)'
         /\ (seen = << >> => transaction_body = << >> /\ block_hashes = << >>)'
         /\ ReceiptsOf(cumulative.receipts, transaction_body, 0)'
         /\ (cumulative.logs_bloom = Bloom(transaction_body))'
         /\ (\A k \in 1..Len(seen) : block_hashes = <<seen[k].input.block_hashes>>)'
  <1>1. (FlagsExact' <=> FlagsExact) /\ Progress' = Progress
    BY DEF FlagsExact, Progress
  <1> QED
    BY <1>1 DEF AggInv

(* The panic of a round or of the checks behind the loop. *)
LEMMA PanicInv ==
  ASSUME AggInv, agg_pc' = "panic",
         UNCHANGED <<agg_input, agg_len, cumulative, transaction_body, block_hashes, seen>>,
         UNCHANGED <<linked, reconstructed>>
  PROVE  AggInv'
  <1>1. AggTypeOK' /\ ChainInv'
    BY DEF AggInv, AggTypeOK, ChainInv
  <1> QED
    BY <1>1, AccumulatorsKept DEF AggInv

\* Merging the requests of the subblocks preserves the invariant.
LEMMA MergeInv ==
  ASSUME AggInv, MergeAll
  PROVE  AggInv'
  <1>1. AggTypeOK' /\ ChainInv'
    BY DEF AggInv, AggTypeOK, ChainInv, MergeAll
  <1>2. agg_pc' \in {"link", "panic"} /\ Len(seen') = agg_len'
    BY DEF MergeAll
  <1> QED
    BY <1>1, <1>2, AccumulatorsKept DEF AggInv, MergeAll

\* Walking to the next ancestor preserves the invariant.
LEMMA LinkInv ==
  ASSUME AggInv, LinkAncestor
  PROVE  AggInv'
  <1> DEFINE number == agg_input.header.number
             ancestors == agg_input.ancestors
             child == IF linked = 0 THEN agg_input.header ELSE ancestors[linked]
             parent == ancestors[linked + 1]
  <1>1. UNCHANGED <<agg_input, agg_len, cumulative, transaction_body, block_hashes, seen, header>>
        /\ agg_pc = "link"
    BY DEF LinkAncestor
  <1>2. CASE ~(parent.number = child.number - 1 /\ parent.hash = child.parent_hash)
    BY <1>1, <1>2, PanicInv DEF LinkAncestor
  <1>3. CASE parent.number = child.number - 1 /\ parent.hash = child.parent_hash
    <2>1. /\ reconstructed' = [n \in {parent.number} \union DOMAIN reconstructed |->
                                 IF n = parent.number THEN parent.hash ELSE reconstructed[n]]
          /\ linked' = linked + 1 /\ agg_pc' = "link" /\ linked < Len(ancestors)
      BY <1>1, <1>3 DEF LinkAncestor
    <2>2. IsAggregationInput(agg_input) /\ linked \in Nat /\ Len(ancestors) \in Nat
          /\ number \in Nat /\ DOMAIN ancestors = 1..Len(ancestors)
      <3>1. IsAggregationInput(agg_input)
        BY InputAssumption DEF AggInv, AggTypeOK
      <3>2. /\ Len(ancestors) \in Nat /\ number \in Nat
            /\ DOMAIN ancestors = 1..Len(ancestors)
        BY <3>1 DEF IsAggregationInput
      <3>3. linked \in Nat
        BY <3>2 DEF AggInv, AggTypeOK
      <3> QED
        BY <3>1, <3>2, <3>3
    <2>3. AggTypeOK'
      BY <2>1, <2>2, <1>1 DEF AggInv, AggTypeOK
    <2>4. parent.number = number - (linked + 1)
      <3>1. CASE linked = 0
        BY <3>1, <1>3, <2>2
      <3>2. CASE linked > 0
        <4>1. ancestors[linked].number = number - linked
          BY <3>2, <2>2, SMTT(30) DEF AggInv, ChainInv
        <4> QED
          BY <4>1, <3>2, <1>3, <2>2, SMTT(30)
      <3> QED
        BY <3>1, <3>2, <2>2
    <2>5. DOMAIN reconstructed = (number - linked)..(number - 1)
      BY DEF AggInv, ChainInv
    <2>6. DOMAIN reconstructed' = (number - linked')..(number - 1)
      <3>1. DOMAIN reconstructed' = {parent.number} \union DOMAIN reconstructed
        BY <2>1
      <3>2. {number - (linked + 1)} \union ((number - linked)..(number - 1))
              = (number - (linked + 1))..(number - 1)
        BY <2>2, SMTT(30)
      <3> QED
        BY <3>1, <3>2, <2>1, <2>4, <2>5
    <2>7. ASSUME NEW j \in 1..linked'
          PROVE  /\ ancestors[j].number = number - j
                 /\ reconstructed'[number - j] = ancestors[j].hash
                 /\ ancestors[j].hash = IF j = 1 THEN agg_input.header.parent_hash
                                        ELSE ancestors[j - 1].parent_hash
      <3>1. CASE j = linked + 1
        <4>1. reconstructed'[parent.number] = parent.hash
          BY <2>1
        <4>2. parent.hash = IF j = 1 THEN agg_input.header.parent_hash
                            ELSE ancestors[j - 1].parent_hash
          BY <3>1, <1>3, <2>2
        <4> QED
          BY <3>1, <4>1, <4>2, <2>4
      <3>2. CASE j \in 1..linked
        <4>1. number - j \in DOMAIN reconstructed /\ number - j # parent.number
          BY <3>2, <2>2, <2>4, <2>5, SMTT(30)
        <4>2. reconstructed'[number - j] = reconstructed[number - j]
          BY <4>1, <2>1
        <4> QED
          BY <3>2, <4>2 DEF AggInv, ChainInv
      <3> QED
        BY <3>1, <3>2, <2>1, <2>2
    <2>8. ChainInv'
      BY <2>6, <2>7, <1>1 DEF ChainInv
    <2>9. Len(seen') = agg_len'
      BY <1>1 DEF AggInv
    <2> QED
      BY <2>1, <2>3, <2>8, <2>9, <1>1, AccumulatorsKept DEF AggInv
  <1> QED
    BY <1>2, <1>3

\* Returning the header, or refusing to, preserves the invariant.
LEMMA FinishInv ==
  ASSUME AggInv, FinishAggregation
  PROVE  AggInv'
  <1>1. /\ agg_pc = "link" /\ linked = Len(agg_input.ancestors)
        /\ UNCHANGED <<agg_input, agg_len, cumulative, transaction_body, block_hashes, seen>>
        /\ UNCHANGED <<linked, reconstructed, agg_requests>>
    BY DEF FinishAggregation
  <1>2. CASE ~FinalChecks
    BY <1>1, <1>2, PanicInv DEF FinishAggregation
  <1>3. CASE FinalChecks
    <2>1. agg_pc' = "accepted" /\ header' = <<DerivedHeader>>
      BY <1>3 DEF FinishAggregation
    <2>2. FinalChecks' /\ DerivedHeader' = DerivedHeader
      BY <1>1, <1>3 DEF FinalChecks, DerivedHeader, ValidateSubblockAggregation, LastGas
    <2>3. AggTypeOK' /\ ChainInv' /\ Len(seen') = agg_len'
      BY <1>1, <2>1 DEF AggInv, AggTypeOK, ChainInv
    <2> QED
      BY <1>1, <2>1, <2>2, <2>3, AccumulatorsKept DEF AggInv
  <1> QED
    BY <1>2, <1>3

\* Every step of execute_aggregation preserves the invariant.
LEMMA AggStep ==
  ASSUME AggInv, [AggNext]_aggVars
  PROVE  AggInv'
  <1>1. CASE UNCHANGED aggVars
    BY <1>1 DEF aggVars, AggInv, AggTypeOK, FlagsExact, Progress, ChainInv, FinalChecks,
                DerivedHeader, ValidateSubblockAggregation, LastGas
  <1>2. ASSUME NEW pv \in PublicValues, AggregateSubblock(pv)
        PROVE  AggInv'
    <2>1. CASE SubblockChecks(pv)
      BY <1>2, <2>1, AggregateInv
    <2>2. CASE ~SubblockChecks(pv)
      BY <1>2, <2>2, PanicInv DEF AggregateSubblock
    <2> QED
      BY <2>1, <2>2
  <1>3. CASE MergeAll \/ LinkAncestor \/ FinishAggregation
    BY <1>3, MergeInv, LinkInv, FinishInv
  <1> QED
    BY <1>1, <1>2, <1>3 DEF AggNext

\* The inductive invariant holds throughout execute_aggregation.
LEMMA AggInvariant == AggSpec => []AggInv
  BY AggInitInv, AggStep, PTL DEF AggSpec

-----------------------------------------------------------------------------
(***************************************************************************)
(* The state of execute_aggregation has its types, and the loop reads no   *)
(* more public values than there are.                                      *)
(***************************************************************************)
THEOREM AggTypeCorrect == AggSpec => []AggTypeOK
  <1>1. AggInv => AggTypeOK
    BY DEF AggInv
  <1> QED
    BY <1>1, AggInvariant, PTL

(***************************************************************************)
(* A header returned by execute_aggregation is the header of an execution  *)
(* of its transactions from the parent state, provided the subblocks carry *)
(* the flags their position asks for.                                      *)
(***************************************************************************)
THEOREM AggregationSound == AggSpec => []AcceptedIsExecution
  <1>1. AggInv => AcceptedIsExecution
    <2> SUFFICES ASSUME AggInv, agg_pc = "accepted", FlagsExact
                 PROVE  header[1].state_root
                          = ParentStateRoot \o BlockSteps(header[1].transactions_root)
      BY DEF AcceptedIsExecution
    <2>1. /\ IsAggregationInput(agg_input) /\ FinalChecks /\ header[1] = DerivedHeader
          /\ Len(seen) = agg_len
      BY InputAssumption DEF AggInv, AggTypeOK
    <2>2. seen # << >>
      BY <2>1 DEF AggInv, FinalChecks
    <2>3. /\ header[1].state_root = agg_input.header.state_root
          /\ header[1].transactions_root = agg_input.txs
      BY <2>1 DEF DerivedHeader, IsAggregationInput
    <2>4. Progress = BlockSteps(transaction_body)
      BY <2>1, <2>2 DEF Progress, BlockSteps
    <2> QED
      BY <2>1, <2>3, <2>4 DEF AggInv, FinalChecks
  <1> QED
    BY <1>1, AggInvariant, PTL

(***************************************************************************)
(* The receipts and the bloom of a returned header are those of its        *)
(* transactions, executed one after the other from gas 0.                  *)
(***************************************************************************)
THEOREM AggregationReceipts == AggSpec => []AcceptedReceipts
  <1>1. AggInv => AcceptedReceipts
    <2> SUFFICES ASSUME AggInv, agg_pc = "accepted"
                 PROVE  /\ ReceiptsOf(header[1].receipts_root, header[1].transactions_root, 0)
                        /\ header[1].logs_bloom = Bloom(header[1].transactions_root)
      BY DEF AcceptedReceipts
    <2>1. IsAggregationInput(agg_input) /\ FinalChecks /\ header[1] = DerivedHeader
      BY InputAssumption DEF AggInv, AggTypeOK
    <2>2. /\ header[1].receipts_root = agg_input.header.receipts_root
          /\ header[1].transactions_root = agg_input.txs
          /\ header[1].logs_bloom = cumulative.logs_bloom
      BY <2>1 DEF DerivedHeader, IsAggregationInput
    <2> QED
      BY <2>1, <2>2 DEF AggInv, FinalChecks, ValidateSubblockAggregation
  <1> QED
    BY <1>1, AggInvariant, PTL

(***************************************************************************)
(* The block hashes every accepted subblock worked with are those of the   *)
(* ancestors of the returned header, without a gap.                        *)
(***************************************************************************)
THEOREM AggregationBlockHashes == AggSpec => []AcceptedBlockHashes
  <1>1. AggInv => AcceptedBlockHashes
    <2> DEFINE number == agg_input.header.number
               ancestors == agg_input.ancestors
    <2> SUFFICES ASSUME AggInv, agg_pc = "accepted", NEW k \in 1..Len(seen)
                 PROVE  LET hashes == seen[k].input.block_hashes
                            num == header[1].number
                        IN  /\ DOMAIN hashes = (num - Len(ancestors))..(num - 1)
                            /\ hashes[num - 1] = header[1].parent_hash
                            /\ \A n \in DOMAIN hashes \ {num - 1} :
                                 \E j \in DOMAIN ancestors :
                                   /\ ancestors[j].hash = hashes[n + 1]
                                   /\ ancestors[j].parent_hash = hashes[n]
      BY DEF AcceptedBlockHashes
    <2>1. /\ IsAggregationInput(agg_input) /\ FinalChecks /\ header[1] = DerivedHeader
          /\ linked = Len(ancestors)
      BY InputAssumption DEF AggInv, AggTypeOK
    <2>2. header[1].number = number /\ header[1].parent_hash = ancestors[1].hash
      BY <2>1 DEF DerivedHeader, IsAggregationInput
    <2>3. seen[k].input.block_hashes = reconstructed
      BY <2>1 DEF AggInv, FinalChecks
    <2>4. /\ number \in Nat /\ Len(ancestors) \in Nat /\ Len(ancestors) > 0
          /\ DOMAIN ancestors = 1..Len(ancestors)
      BY <2>1 DEF FinalChecks, IsAggregationInput
    <2>5. /\ DOMAIN reconstructed = (number - Len(ancestors))..(number - 1)
          /\ \A j \in 1..Len(ancestors) :
               /\ reconstructed[number - j] = ancestors[j].hash
               /\ j > 1 => ancestors[j].hash = ancestors[j - 1].parent_hash
      <3>1. ChainInv
        BY DEF AggInv
      <3>2. DOMAIN reconstructed = (number - Len(ancestors))..(number - 1)
        BY <3>1, <2>1 DEF ChainInv
      <3>3. \A j \in 1..Len(ancestors) :
              /\ reconstructed[number - j] = ancestors[j].hash
              /\ ancestors[j].hash = IF j = 1 THEN agg_input.header.parent_hash
                                     ELSE ancestors[j - 1].parent_hash
        BY <3>1, <2>1 DEF ChainInv
      <3> QED
        BY <3>2, <3>3, <2>4
    <2>6. reconstructed[number - 1] = ancestors[1].hash
      <3>1. 1 \in 1..Len(ancestors)
        BY <2>4
      <3> QED
        BY <3>1, <2>5
    <2>7. ASSUME NEW n \in DOMAIN reconstructed \ {number - 1}
          PROVE  \E j \in DOMAIN ancestors : /\ ancestors[j].hash = reconstructed[n + 1]
                                             /\ ancestors[j].parent_hash = reconstructed[n]
      <3> DEFINE j == number - n - 1
      <3>1. /\ j \in 1..Len(ancestors) /\ j + 1 \in 1..Len(ancestors) /\ j + 1 > 1
            /\ number - j = n + 1 /\ number - (j + 1) = n /\ (j + 1) - 1 = j
        <4>1. n \in (number - Len(ancestors))..(number - 1) /\ n # number - 1
          BY <2>5
        <4>2. PICK m, len : m = number /\ len = Len(ancestors)
          OBVIOUS
        <4>3. /\ m \in Nat /\ len \in Nat /\ n \in Int
              /\ m - len <= n /\ n < m - 1
          BY <4>1, <4>2, <2>4
        <4>4. PICK i : i = m - n - 1
          OBVIOUS
        <4>5. /\ i \in 1..len /\ i + 1 \in 1..len /\ i + 1 > 1
              /\ m - i = n + 1 /\ m - (i + 1) = n /\ (i + 1) - 1 = i
          BY <4>3, <4>4
        <4>6. j = i
          BY <4>2, <4>4
        <4> HIDE DEF j
        <4> QED
          BY <4>2, <4>5, <4>6
      <3> HIDE DEF j
      <3>2. reconstructed[n + 1] = ancestors[j].hash /\ reconstructed[n] = ancestors[j + 1].hash
        BY <3>1, <2>5
      <3>3. ancestors[j + 1].hash = ancestors[j].parent_hash
        BY <3>1, <2>5
      <3> QED
        BY <3>1, <3>2, <3>3, <2>4
    <2> QED
      BY <2>2, <2>3, <2>5, <2>6, <2>7
  <1> QED
    BY <1>1, AggInvariant, PTL

-----------------------------------------------------------------------------
(***************************************************************************)
(* SubblockRequests: for any number of subblocks and of requests in them,  *)
(* merge_requests gives the requests of the block, if no queue holds the   *)
(* same request twice.                                                     *)
(***************************************************************************)

\* What a piece can be: deposits are numbered.
AnyPiece == Nat \union Pieces

\* The deposits so far are numbered from 1.
Numbered == Len(deposits) \in Nat /\ deposits = [i \in 1..Len(deposits) |-> i]

\* The lists P hold the deposits.
Collected(P) ==
  /\ P \in Seq(RequestLists(AnyPiece))
  /\ \E c : DepositParts(deposits, c, P)

(***************************************************************************)
(* The inductive invariant: before the last subblock the requests are the  *)
(* deposits so far, cut into the lists of the subblocks that had any; then *)
(* the drained queues follow; then they are merged.                        *)
(***************************************************************************)
RequestInv ==
  /\ phase \in {"subblocks", "merge", "done"}
  /\ Numbered
  /\ phase = "subblocks" => Collected(requests)
  /\ phase = "merge" =>
       /\ withdrawals \in Queues /\ consolidations \in Queues
       /\ \E P : /\ Collected(P)
                 /\ requests = (P \o Report(WITHDRAWAL_REQUEST_TYPE, withdrawals))
                                 \o Report(CONSOLIDATION_REQUEST_TYPE, consolidations)
  /\ phase = "done" => requests = BlockRequests

\* Numbered deposits are pieces, and no two are alike.
LEMMA DepositsDistinct ==
  ASSUME Numbered
  PROVE  deposits \in Seq(AnyPiece) /\ Distinct(deposits)
  <1>1. PICK n \in Nat : n = Len(deposits) /\ deposits = [i \in 1..n |-> i]
    BY DEF Numbered
  <1>2. [i \in 1..n |-> i] \in Seq(Nat)
    OBVIOUS
  <1>3. deposits \in Seq(AnyPiece)
    BY <1>1, <1>2, SeqMonotonic DEF AnyPiece
  <1>4. \A i \in 1..n : deposits[i] = i
    BY <1>1
  <1> QED
    BY <1>1, <1>3, <1>4, SMTT(30) DEF Distinct

\* A queue is a sequence of pieces, without repetition unless allowed.
LEMMA QueueDistinct ==
  ASSUME NEW q \in Queues, ~RepeatedPieces
  PROVE  q \in Seq(AnyPiece) /\ Distinct(q)
  <1>1. PICK n \in 0..MaxPerSubblock : q \in [1..n -> Pieces]
    BY DEF Queues
  <1>2. n \in Nat
    BY RequestBoundsAssumption
  <1>3. q \in Seq(Pieces) /\ DOMAIN q = 1..Len(q)
    BY <1>1, <1>2
  <1>4. q \in Seq(AnyPiece)
    BY <1>3, SeqMonotonic DEF AnyPiece
  <1>5. NoRepetition(q)
    BY DEF Queues
  <1> QED
    BY <1>3, <1>4, <1>5 DEF NoRepetition, Distinct

\* The deposits of a further subblock.
LEMMA DepositsAdded ==
  ASSUME Numbered, Collected(requests), NEW n \in 0..MaxPerSubblock,
         deposits' = deposits \o NewDeposits(n)
  PROVE  /\ Numbered'
         /\ \E P : /\ P = requests \o Report(DEPOSIT_REQUEST_TYPE, NewDeposits(n))
                   /\ P \in Seq(RequestLists(AnyPiece))
                   /\ \E c : DepositParts(deposits', c, P)
  <1>1. PICK d \in Nat : d = Len(deposits) /\ deposits = [i \in 1..d |-> i]
    BY DEF Numbered
  <1>2. n \in Nat
    BY RequestBoundsAssumption
  <1>3. PICK new : new = NewDeposits(n)
    OBVIOUS
  <1>4. new = [i \in 1..n |-> d + i]
    BY <1>1, <1>3 DEF NewDeposits
  <1>5. new \in Seq(Nat) /\ Len(new) = n
    <2>1. \A i \in 1..n : d + i \in Nat
      BY <1>2
    <2> QED
      BY <2>1, <1>2, <1>4
  <1>6. deposits \in Seq(Nat)
    BY <1>1
  <1>7. /\ deposits' \in Seq(Nat) /\ Len(deposits') = d + n
        /\ \A i \in 1..(d + n) : deposits'[i] = IF i <= d THEN deposits[i] ELSE new[i - d]
    <2>1. /\ deposits \o new \in Seq(Nat) /\ Len(deposits \o new) = Len(deposits) + Len(new)
          /\ \A i \in 1..(Len(deposits) + Len(new)) :
               (deposits \o new)[i] = IF i <= Len(deposits) THEN deposits[i] ELSE new[i - Len(deposits)]
      BY <1>5, <1>6, ConcatProperties
    <2> QED
      BY <2>1, <1>1, <1>3, <1>5
  <1>8. ASSUME NEW i \in 1..(d + n)
        PROVE  deposits'[i] = i
    <2>1. CASE i <= d
      BY <2>1, <1>1, <1>7
    <2>2. CASE ~(i <= d)
      <3>1. i - d \in 1..n /\ d + (i - d) = i
        BY <2>2, <1>2
      <3>2. new[i - d] = i
        BY <3>1, <1>4
      <3> QED
        BY <3>2, <2>2, <1>7
    <2> QED
      BY <2>1, <2>2
  <1>9. Numbered'
    <2>1. d + n \in Nat
      BY <1>2
    <2>2. deposits' = [i \in 1..(d + n) |-> deposits'[i]]
      <3>1. deposits' \in [1..Len(deposits') -> Nat]
        BY <1>7, LenProperties
      <3> QED
        BY <3>1, <1>7
    <2>3. deposits' = [i \in 1..(d + n) |-> i]
      BY <1>8, <2>2
    <2> QED
      BY <2>1, <2>3, <1>7 DEF Numbered
  <1>10. new \in Seq(AnyPiece) /\ deposits \in Seq(AnyPiece)
    BY <1>5, <1>6, SeqMonotonic DEF AnyPiece
  <1>11. PICK c : DepositParts(deposits, c, requests)
    BY DEF Collected
  <1>12. requests \in Seq(RequestLists(AnyPiece))
    BY DEF Collected
  <1>13. /\ requests \o Report(DEPOSIT_REQUEST_TYPE, new) \in Seq(RequestLists(AnyPiece))
         /\ \E c2 : DepositParts(deposits \o new, c2,
                                 requests \o Report(DEPOSIT_REQUEST_TYPE, new))
    BY <1>10, <1>11, <1>12, MoreParts
  <1> QED
    BY <1>3, <1>9, <1>13

LEMMA RequestInitInv ==
  ASSUME RequestInit
  PROVE  RequestInv
  <1>1. Numbered
    BY DEF RequestInit, Numbered
  <1>2. Collected(requests)
    <2> DEFINE c == [k \in 0..0 |-> 0]
    <2>1. DepositParts(<< >>, c, << >>)
      BY DEF DepositParts
    <2>2. \E x : DepositParts(<< >>, x, << >>)
      BY <2>1, Zenon
    <2> QED
      BY <2>2 DEF Collected, RequestInit
  <1> QED
    BY <1>1, <1>2 DEF RequestInv, RequestInit

\* extend() of a subblock but the last.
LEMMA ExtendRequestsInv ==
  ASSUME RequestInv, ExtendRequests
  PROVE  RequestInv'
  <1>1. phase = "subblocks" /\ phase' = "subblocks" /\ Numbered /\ Collected(requests)
    BY DEF RequestInv, ExtendRequests
  <1>2. PICK n \in 0..MaxPerSubblock :
               /\ requests' = requests \o Report(DEPOSIT_REQUEST_TYPE, NewDeposits(n))
               /\ deposits' = deposits \o NewDeposits(n)
    BY DEF ExtendRequests
  <1>3. /\ Numbered'
        /\ \E P : /\ P = requests \o Report(DEPOSIT_REQUEST_TYPE, NewDeposits(n))
                  /\ P \in Seq(RequestLists(AnyPiece))
                  /\ \E c : DepositParts(deposits', c, P)
    BY <1>1, <1>2, DepositsAdded
  <1>4. Collected(requests)'
    BY <1>2, <1>3 DEF Collected
  <1> QED
    BY <1>1, <1>3, <1>4 DEF RequestInv

\* extend() of the last subblock, with the queues its calls drained.
LEMMA ExtendLastInv ==
  ASSUME RequestInv, ExtendLast
  PROVE  RequestInv'
  <1>1. phase = "subblocks" /\ phase' = "merge" /\ Numbered /\ Collected(requests)
    BY DEF RequestInv, ExtendLast
  <1>2. PICK n \in 0..MaxPerSubblock, ws \in Queues, cs \in Queues :
               /\ requests' = requests \o Report(DEPOSIT_REQUEST_TYPE, NewDeposits(n))
                                 \o Report(WITHDRAWAL_REQUEST_TYPE, ws)
                                 \o Report(CONSOLIDATION_REQUEST_TYPE, cs)
               /\ deposits' = deposits \o NewDeposits(n)
               /\ withdrawals' = ws
               /\ consolidations' = cs
    BY DEF ExtendLast
  <1>3. /\ Numbered'
        /\ \E P : /\ P = requests \o Report(DEPOSIT_REQUEST_TYPE, NewDeposits(n))
                  /\ P \in Seq(RequestLists(AnyPiece))
                  /\ \E c : DepositParts(deposits', c, P)
    BY <1>1, <1>2, DepositsAdded
  <1>4. PICK P : /\ P = requests \o Report(DEPOSIT_REQUEST_TYPE, NewDeposits(n))
                 /\ P \in Seq(RequestLists(AnyPiece))
                 /\ \E c : DepositParts(deposits', c, P)
    BY <1>3
  <1>5. Collected(P)'
    BY <1>4 DEF Collected
  <1>6. requests' = (P \o Report(WITHDRAWAL_REQUEST_TYPE, withdrawals'))
                      \o Report(CONSOLIDATION_REQUEST_TYPE, consolidations')
    BY <1>2, <1>4
  <1>7. withdrawals' \in Queues /\ consolidations' \in Queues
    BY <1>2
  <1> QED
    BY <1>1, <1>3, <1>5, <1>6, <1>7 DEF RequestInv

\* merge_requests.
LEMMA MergeRequestsInv ==
  ASSUME ~RepeatedPieces, RequestInv, Merge
  PROVE  RequestInv'
  <1>1. /\ phase = "merge" /\ phase' = "done" /\ Numbered
        /\ withdrawals \in Queues /\ consolidations \in Queues
        /\ requests' = MergeRequests(requests)
        /\ UNCHANGED <<deposits, withdrawals, consolidations>>
    BY DEF RequestInv, Merge
  <1>2. PICK P : /\ Collected(P)
                 /\ requests = (P \o Report(WITHDRAWAL_REQUEST_TYPE, withdrawals))
                                 \o Report(CONSOLIDATION_REQUEST_TYPE, consolidations)
    BY <1>1 DEF RequestInv
  <1>3. PICK c : DepositParts(deposits, c, P)
    BY <1>2 DEF Collected
  <1>4. P \in Seq(RequestLists(AnyPiece))
    BY <1>2 DEF Collected
  <1>5. deposits \in Seq(AnyPiece) /\ Distinct(deposits)
    BY <1>1, DepositsDistinct
  <1>6. withdrawals \in Seq(AnyPiece) /\ Distinct(withdrawals)
    BY <1>1, QueueDistinct
  <1>7. consolidations \in Seq(AnyPiece) /\ Distinct(consolidations)
    BY <1>1, QueueDistinct
  <1>8. MergeRequests((P \o Report(WITHDRAWAL_REQUEST_TYPE, withdrawals))
                        \o Report(CONSOLIDATION_REQUEST_TYPE, consolidations))
          = (Report(DEPOSIT_REQUEST_TYPE, deposits) \o Report(WITHDRAWAL_REQUEST_TYPE, withdrawals))
              \o Report(CONSOLIDATION_REQUEST_TYPE, consolidations)
    BY <1>3, <1>4, <1>5, <1>6, <1>7, MergeOfSubblocks, SMTT(60)
  <1>9. (requests = BlockRequests)'
    BY <1>1, <1>2, <1>8 DEF BlockRequests
  <1>10. Numbered'
    BY <1>1 DEF Numbered
  <1> QED
    BY <1>1, <1>9, <1>10 DEF RequestInv

-----------------------------------------------------------------------------
(***************************************************************************)
(* For any number of subblocks and any requests in them the merged list is *)
(* the list of the block, byte for byte what requests_hash commits to, if  *)
(* no queue holds a request twice.  (With one that does it is not: the run *)
(* on RepeatedRequests.cfg.)                                               *)
(***************************************************************************)
THEOREM RequestsMerged ==
  ASSUME ~RepeatedPieces
  PROVE  RequestSpec => []MergedIsBlockRequests
  <1>1. RequestInit => RequestInv
    BY RequestInitInv
  <1>2. RequestInv /\ [RequestNext]_requestVars => RequestInv'
    <2> SUFFICES ASSUME RequestInv, [RequestNext]_requestVars
                 PROVE  RequestInv'
      OBVIOUS
    <2>1. CASE UNCHANGED requestVars
      BY <2>1 DEF requestVars, RequestInv, Numbered, Collected, BlockRequests
    <2>2. CASE RequestNext
      BY <2>2, ExtendRequestsInv, ExtendLastInv, MergeRequestsInv DEF RequestNext
    <2> QED
      BY <2>1, <2>2
  <1>3. RequestInv => MergedIsBlockRequests
    BY DEF RequestInv, MergedIsBlockRequests
  <1> QED
    BY <1>1, <1>2, <1>3, PTL DEF RequestSpec
=============================================================================

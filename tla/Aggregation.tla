---------------------------- MODULE Aggregation -----------------------------
(***************************************************************************)
(* ClientExecutor::execute_aggregation: the program that checks that the   *)
(* public values of the subblock proofs are, together, an execution of the *)
(* block, and returns the header it vouches for.                           *)
(*                                                                         *)
(* A header is [number, parent_hash, state_root, transactions_root,        *)
(* rest_root, receipts_root, gas_used, logs_bloom, requests_hash]; a root  *)
(* or hash is the value it commits to, rest_root stands for ommers_hash    *)
(* and withdrawals_root.  An ancestor is [number, hash, parent_hash].  An  *)
(* aggregation input is [header, txs, rest, ancestors].  The public values *)
(* are read one by one; every assertion that fails is the panic.           *)
(***************************************************************************)
EXTENDS SubblockClient, Requests

CONSTANTS
  AggregationInputs,   \* the inputs the program may be given
  PublicValues,        \* [input, output] of subblock programs that ran
  ParentStateRoot,     \* parent_state_root
  MaxPublicValues      \* bound: public values the program is given

\* What a decoded AggregationInput gives the proofs to go by.
IsAggregationInput(input) ==
  /\ input = [header |-> input.header, txs |-> input.txs, rest |-> input.rest,
              ancestors |-> input.ancestors]
  /\ input.txs \in Seq(Step)
  /\ input.header = [number |-> input.header.number, parent_hash |-> input.header.parent_hash,
                     state_root |-> input.header.state_root,
                     transactions_root |-> input.header.transactions_root,
                     rest_root |-> input.header.rest_root,
                     receipts_root |-> input.header.receipts_root,
                     gas_used |-> input.header.gas_used,
                     logs_bloom |-> input.header.logs_bloom,
                     requests_hash |-> input.header.requests_hash]
  /\ input.header.number \in Nat
  /\ DOMAIN input.ancestors = 1..Len(input.ancestors)
  /\ Len(input.ancestors) \in Nat
  /\ \A j \in DOMAIN input.ancestors : input.ancestors[j].number \in Nat

ASSUME InputAssumption == \A input \in AggregationInputs : IsAggregationInput(input)
ASSUME ProvenAssumption == \A pv \in PublicValues : IsProven(pv)
ASSUME ParentAssumption == ParentStateRoot \in Seq(Step)
ASSUME MaxAssumption == MaxPublicValues \in Nat

VARIABLES
  agg_pc,             \* loop, link, accepted, panic
  agg_input,          \* aggregation_input
  agg_len,            \* public_values.len()
  cumulative,         \* cumulative_state_diff, but its requests
  agg_requests,       \* cumulative_state_diff.requests
  transaction_body,   \* transactions collected so far
  block_hashes,       \* << >> for None, <<map>> for Some(map)
  linked,             \* ancestors the walk down the header chain has passed
  reconstructed,      \* reconstructed_block_hashes
  seen,               \* history: the public values read
  header              \* << >>, or <<the header returned>>

aggVars == <<agg_pc, agg_input, agg_len, cumulative, agg_requests, transaction_body,
             block_hashes, linked, reconstructed, seen, header>>

AggInit ==
  /\ agg_pc = "loop"
  /\ agg_input \in AggregationInputs
  /\ agg_len \in 0..MaxPublicValues
  /\ cumulative = [output_state_root |-> ParentStateRoot, logs_bloom |-> {},
                   receipts |-> << >>]
  /\ agg_requests = << >>
  /\ transaction_body = << >>
  /\ block_hashes = << >>
  /\ linked = 0
  /\ reconstructed = << >>
  /\ seen = << >>
  /\ header = << >>

\* The cumulative gas of the last receipt so far.
LastGas == IF cumulative.receipts = << >> THEN 0
           ELSE cumulative.receipts[Len(cumulative.receipts)].cumulative_gas_used

\* The assertions on the first/last flags of the public value at position i.
FlagChecks(input, i) ==
  /\ i = 1 => input.is_first_subblock
  /\ i = agg_len => input.is_last_subblock
  /\ (i > 1 /\ i < agg_len) => ~input.is_first_subblock /\ ~input.is_last_subblock

\* Faulty: the block hashes of the subblocks are not compared.
SubblockChecks_AnyHashes(pv) ==
  /\ pv.input.starting_gas_used = LastGas
  /\ FlagChecks(pv.input, Len(seen) + 1)
  /\ pv.input.header = agg_input.header
  /\ pv.input.rest = agg_input.rest
  /\ pv.output.input_state_root = cumulative.output_state_root

\* Faulty: any starting gas.
SubblockChecks_AnyGas(pv) ==
  /\ seen # << >> => block_hashes = <<pv.input.block_hashes>>
  /\ FlagChecks(pv.input, Len(seen) + 1)
  /\ pv.input.header = agg_input.header
  /\ pv.input.rest = agg_input.rest
  /\ pv.output.input_state_root = cumulative.output_state_root

\* The assertions of one round of the loop, the one of extend() included.
SubblockChecks(pv) ==
  /\ seen # << >> => block_hashes = <<pv.input.block_hashes>>
  /\ pv.input.starting_gas_used = LastGas
  /\ FlagChecks(pv.input, Len(seen) + 1)
  /\ pv.input.header = agg_input.header
  /\ pv.input.rest = agg_input.rest
  /\ pv.output.input_state_root = cumulative.output_state_root

\* SubblockOutput::extend, but for the requests.
Extend(self, other) ==
  [output_state_root |-> other.output_state_root,
   logs_bloom        |-> self.logs_bloom \union other.logs_bloom,
   receipts          |-> self.receipts \o other.receipts]

\* Faulty: the loop reads one public value too many.
AggregateSubblock_OneMore(pv) ==
  /\ agg_pc = "loop"
  /\ Len(seen) <= agg_len
  /\ SubblockChecks(pv)
  /\ block_hashes' = <<pv.input.block_hashes>>
  /\ cumulative' = Extend(cumulative, pv.output)
  /\ agg_requests' = agg_requests \o pv.output.requests
  /\ transaction_body' = transaction_body \o pv.input.txs
  /\ seen' = Append(seen, pv)
  /\ UNCHANGED <<agg_pc, agg_input, agg_len, linked, reconstructed, header>>

AggregateSubblock(pv) ==
  /\ agg_pc = "loop"
  /\ Len(seen) < agg_len
  /\ IF SubblockChecks(pv)
       THEN /\ block_hashes' = <<pv.input.block_hashes>>
            /\ cumulative' = Extend(cumulative, pv.output)
            /\ agg_requests' = agg_requests \o pv.output.requests
            /\ transaction_body' = transaction_body \o pv.input.txs
            /\ seen' = Append(seen, pv)
            /\ agg_pc' = agg_pc
       ELSE /\ agg_pc' = "panic"
            /\ UNCHANGED <<block_hashes, cumulative, agg_requests, transaction_body, seen>>
  /\ UNCHANGED <<agg_input, agg_len, linked, reconstructed, header>>

\* Behind the loop: merge the requests.
MergeAll ==
  /\ agg_pc = "loop"
  /\ Len(seen) = agg_len
  /\ agg_pc' = IF MergePanics(agg_requests) THEN "panic" ELSE "link"
  /\ agg_requests' = IF MergePanics(agg_requests) THEN agg_requests
                     ELSE MergeRequests(agg_requests)
  /\ UNCHANGED <<agg_input, agg_len, cumulative, transaction_body, block_hashes,
                 linked, reconstructed, seen, header>>

\* One window of the walk: the ancestor must be the parent of the header before it.
LinkAncestor ==
  /\ agg_pc = "link"
  /\ linked < Len(agg_input.ancestors)
  /\ LET child  == IF linked = 0 THEN agg_input.header ELSE agg_input.ancestors[linked]
         parent == agg_input.ancestors[linked + 1]
     IN  IF parent.number = child.number - 1 /\ parent.hash = child.parent_hash
           THEN /\ reconstructed' = [n \in {parent.number} \union DOMAIN reconstructed |->
                                       IF n = parent.number THEN parent.hash
                                       ELSE reconstructed[n]]
                /\ linked' = linked + 1
                /\ agg_pc' = agg_pc
           ELSE /\ agg_pc' = "panic"
                /\ UNCHANGED <<reconstructed, linked>>
  /\ UNCHANGED <<agg_input, agg_len, cumulative, agg_requests, transaction_body, block_hashes,
                 seen, header>>

\* validate_subblock_post_execution_ethereum (external).
ValidateSubblockAggregation(h, receipts, requests) ==
  /\ h.receipts_root = receipts
  /\ h.gas_used = LastGas
  /\ h.requests_hash = requests

\* Faulty: the state root of the header is not compared.
FinalChecks_AnyRoot ==
  /\ block_hashes = <<reconstructed>>
  /\ transaction_body = agg_input.txs
  /\ cumulative.logs_bloom = agg_input.header.logs_bloom
  /\ ValidateSubblockAggregation(agg_input.header, cumulative.receipts, agg_requests)
  /\ Len(agg_input.ancestors) > 0

\* block_hashes.unwrap() and ancestor_headers[0] panic when there is none.
FinalChecks ==
  /\ block_hashes = <<reconstructed>>
  /\ transaction_body = agg_input.txs
  /\ cumulative.logs_bloom = agg_input.header.logs_bloom
  /\ ValidateSubblockAggregation(agg_input.header, cumulative.receipts, agg_requests)
  /\ cumulative.output_state_root = agg_input.header.state_root
  /\ Len(agg_input.ancestors) > 0

\* The header derived from what was checked.
DerivedHeader ==
  [agg_input.header EXCEPT
     !.parent_hash       = agg_input.ancestors[1].hash,
     !.transactions_root = agg_input.txs,
     !.rest_root         = agg_input.rest,
     !.logs_bloom        = cumulative.logs_bloom]

FinishAggregation ==
  /\ agg_pc = "link"
  /\ linked = Len(agg_input.ancestors)
  /\ IF FinalChecks
       THEN /\ agg_pc' = "accepted"
            /\ header' = <<DerivedHeader>>
       ELSE /\ agg_pc' = "panic"
            /\ header' = header
  /\ UNCHANGED <<agg_input, agg_len, cumulative, agg_requests, transaction_body, block_hashes,
                 linked, reconstructed, seen>>

AggNext ==
  \/ \E pv \in PublicValues : AggregateSubblock(pv)
  \/ MergeAll
  \/ LinkAncestor
  \/ FinishAggregation

AggSpec == AggInit /\ [][AggNext]_aggVars

-----------------------------------------------------------------------------
\* The types of the state; the loop reads no public value behind the last.
AggTypeOK ==
  /\ agg_pc \in {"loop", "link", "accepted", "panic"}
  /\ agg_input \in AggregationInputs
  /\ agg_len \in 0..MaxPublicValues
  /\ cumulative \in [output_state_root : Seq(Step), logs_bloom : SUBSET Int,
                     receipts : Seq(Receipt)]
  /\ transaction_body \in Seq(Step)
  /\ linked \in 0..Len(agg_input.ancestors)
  /\ seen \in Seq(PublicValues)
  /\ Len(seen) <= agg_len

(***************************************************************************)
(* The flags say what their names say: the first public value, and no      *)
(* other, is flagged first, and the last, and no other, is flagged last.   *)
(***************************************************************************)
FlagsExact ==
  \A k \in 1..Len(seen) :
    /\ seen[k].input.is_first_subblock <=> k = 1
    /\ seen[k].input.is_last_subblock <=> k = agg_len

(***************************************************************************)
(* execute_aggregation checks the first/last flags of the subblocks it     *)
(* accepts.                                                                *)
(***************************************************************************)
AcceptedFlags == agg_pc = "accepted" => FlagsExact

(***************************************************************************)
(* A header execute_aggregation returns is the header of an execution of   *)
(* its transactions from the parent state: pre-execution calls once, every *)
(* transaction once and in order, post-execution calls once.  The program  *)
(* sees the subblocks only through roots, flags and transaction lists.     *)
(***************************************************************************)
AcceptedIsExecution ==
  (agg_pc = "accepted" /\ FlagsExact) =>
    header[1].state_root = ParentStateRoot \o BlockSteps(header[1].transactions_root)

(***************************************************************************)
(* The receipts a returned header commits to are the receipts of its       *)
(* transactions, their cumulative gas counted from 0 through the whole     *)
(* block although each subblock was proved on its own.                     *)
(***************************************************************************)
AcceptedReceipts ==
  agg_pc = "accepted" =>
    /\ ReceiptsOf(header[1].receipts_root, header[1].transactions_root, 0)
    /\ header[1].logs_bloom = Bloom(header[1].transactions_root)

(***************************************************************************)
(* Every block hash a subblock may have read with BLOCKHASH is the hash of *)
(* the real ancestor of that number: the hashes cover the blocks below the *)
(* returned header without a gap, the first is its parent_hash, and each   *)
(* is the parent hash of an ancestor whose own hash is in the map.         *)
(***************************************************************************)
AcceptedBlockHashes ==
  agg_pc = "accepted" =>
    \A k \in 1..Len(seen) :
      LET hashes == seen[k].input.block_hashes
          number == header[1].number
      IN  /\ DOMAIN hashes = (number - Len(agg_input.ancestors))..(number - 1)
          /\ hashes[number - 1] = header[1].parent_hash
          /\ \A n \in DOMAIN hashes \ {number - 1} :
               \E j \in DOMAIN agg_input.ancestors :
                 /\ agg_input.ancestors[j].hash = hashes[n + 1]
                 /\ agg_input.ancestors[j].parent_hash = hashes[n]
=============================================================================

--------------------------- MODULE MCAggregation ----------------------------
(***************************************************************************)
(* Aggregation of a block of two transactions, 1 and 2.  The program is    *)
(* given public values of arbitrary subblock runs: any run of the          *)
(* transactions, any flags, any starting gas, from any of a few states,    *)
(* for one of two headers and with one of two sets of block hashes.        *)
(***************************************************************************)
EXTENDS Aggregation, TLC

NoSteps == << >>

tx1 == [id |-> 1, gas |-> 1]
tx2 == [id |-> 2, gas |-> 2]

Bodies == {<< >>, <<tx1>>, <<tx2>>, <<tx1, tx2>>}

BlockReceipts == <<[gas |-> 1, cumulative_gas_used |-> 1],
                   [gas |-> 2, cumulative_gas_used |-> 3]>>

Ancestors == <<[number |-> 8, hash |-> "h8", parent_hash |-> "h7"],
               [number |-> 7, hash |-> "h7", parent_hash |-> "h6"]>>

\* Receipts whose cumulative gas starts again with the second transaction.
RestartedReceipts == <<[gas |-> 1, cumulative_gas_used |-> 1],
                       [gas |-> 2, cumulative_gas_used |-> 2]>>

\* A header of the block; its state root and receipts are the ones given.
HeaderWith(root, receipts) ==
  [number |-> 9, parent_hash |-> "h8", state_root |-> root,
   transactions_root |-> <<tx1, tx2>>, rest_root |-> "w", receipts_root |-> receipts,
   gas_used |-> receipts[2].cumulative_gas_used, logs_bloom |-> {1, 2}, requests_hash |-> << >>]

BlockHeader == HeaderWith(<<Pre, tx1, tx2, Post>>, BlockReceipts)

Headers == {BlockHeader,
            HeaderWith(<<Pre, tx1, Post, tx2, Post>>, BlockReceipts),
            HeaderWith(<<Pre, tx1, tx2, Post>>, RestartedReceipts)}

InputOf(h, txs, ancestors) == [header |-> h, txs |-> txs, rest |-> "w", ancestors |-> ancestors]

MCAggregationInputs ==
  {InputOf(h, <<tx1, tx2>>, Ancestors) : h \in Headers}
    \union {InputOf(BlockHeader, <<tx2>>, Ancestors),
            InputOf(BlockHeader, <<tx1, tx2>>, << >>),
            InputOf(BlockHeader, <<tx1, tx2>>,
                    [Ancestors EXCEPT ![2].hash = "x7"])}

States == {<< >>, <<Pre>>, <<Pre, tx1>>, <<Pre, tx1, Post>>, <<Pre, tx1, tx2>>, <<Pre, tx2>>}

HashMaps == {7 :> "h7" @@ 8 :> "h8", 7 :> "x7" @@ 8 :> "h8"}

MCPublicValues ==
  {[input  |-> input, output |-> ExecuteSubblock(input, state, << >>)] :
     input \in [header : Headers, rest : {"w"}, txs : Bodies, block_hashes : HashMaps,
                is_first_subblock : BOOLEAN, is_last_subblock : BOOLEAN,
                starting_gas_used : {0, 1, 3}],
     state \in States}
=============================================================================

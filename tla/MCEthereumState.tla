--------------------------- MODULE MCEthereumState ---------------------------
(***************************************************************************)
(* EthereumState on blocks of one contract with every storage and every    *)
(* diff of its slots, and of several plain accounts that are created,      *)
(* changed or deleted in every combination: from a witness, from proofs,   *)
(* as a whole, and in two subblocks, of which the second may undo or       *)
(* repeat what the first did.                                              *)
(***************************************************************************)
EXTENDS EthereumState, FiniteSets

CONSTANTS Info1, Info2, Old, New, Newer

MCSlots == {<<0, 0, 0>>, <<0, 0, 1>>, <<1, 0, 0>>, <<1, 1, 0>>}
MCKeys == MCSlots
Contract == <<0, 0, 0>>
Others == {<<0, 0, 1>>, <<1, 0, 0>>, <<1, 1, 0>>}

NoStorage == [s \in MCSlots |-> NoValue]
Plain == [info |-> Info1, storage |-> NoStorage]

PartialFunctions(S, T) == UNION {[D -> T] : D \in SUBSET S}
Small(S, T) == {f \in PartialFunctions(S, T) : Cardinality(DOMAIN f) <= 2}

\* The witness of a world: all its nodes, and the empty node.
AllNodes(w) ==
  {EmptyRoot} \union NodesOf(WorldRoot(w))
    \union UNION {NodesOf(StorageRoot(w, a)) : a \in DOMAIN w}

\* A world with a contract between plain accounts, and a diff of its slots.
ContractWorld(storage) ==
  (Contract :> [info |-> Info1, storage |-> storage]) @@ [a \in Others |-> Plain]

SlotDiff(diff, wiped, read) ==
  [post     |-> [accounts |-> (Contract :> Info2),
                 storages |-> (Contract :> [wiped |-> wiped, storage |-> diff])],
   requests |-> (Contract :> DOMAIN diff \union read)]

\* A slot is Old before, New after the first and Newer after the second subblock
\* that sets it.
Storages == [MCSlots -> {Old, NoValue}]
Diffs == PartialFunctions(MCSlots, {New, NoValue})

FromWitness(w, subblocks) ==
  [world |-> w, subblocks |-> subblocks, witness |-> AllNodes(w), whole |-> FALSE]
FromProofs(w, subblocks) ==
  [world |-> w, subblocks |-> subblocks, witness |-> NoWitness, whole |-> FALSE]
Whole(w, subblock) ==
  [world |-> w, subblocks |-> <<subblock>>, witness |-> NoWitness, whole |-> TRUE]

WitnessStorage ==
  {FromWitness(ContractWorld(storage), <<SlotDiff(diff, wiped, {<<0, 0, 1>>})>>) :
     storage \in Storages, diff \in Small(MCSlots, {New, NoValue}), wiped \in BOOLEAN}

ProofStorage ==
  {FromProofs(ContractWorld(storage), <<SlotDiff(diff, FALSE, {})>>) :
     storage \in Storages, diff \in Diffs}

WholeStorage ==
  {Whole(ContractWorld(storage), SlotDiff(diff, FALSE, {})) :
     storage \in Storages, diff \in Small(MCSlots, {New, NoValue})}

\* Two subblocks over the slots of a contract.
TwoSubblocks ==
  {FromProofs(ContractWorld(storage), <<SlotDiff(first, FALSE, {}), SlotDiff(second, FALSE, {})>>) :
     storage \in Storages,
     first \in {f \in Small(MCSlots, {New, NoValue}) : f # << >>},
     second \in {f \in Small(MCSlots, {Newer, NoValue}) : Cardinality(DOMAIN f) = 1}}

-----------------------------------------------------------------------------
\* Any of the accounts are changed or deleted, and the contract is read.
AccountDiff(d) ==
  [post     |-> [accounts |-> d, storages |-> << >>],
   requests |-> [a \in DOMAIN d \union {Contract} |-> {}]]

Worlds == [Others \union {Contract} -> {Plain, NoValue}]
AccountDiffs == PartialFunctions(Others \union {Contract}, {Info2, NoValue})

WitnessAccounts ==
  {FromWitness(w, <<AccountDiff(d)>>) :
     w \in Worlds, d \in {f \in AccountDiffs : Cardinality(DOMAIN f) <= 2}}

ProofAccounts == {FromProofs(w, <<AccountDiff(d)>>) : w \in Worlds, d \in AccountDiffs}

\* An account that the first subblock deletes or changes, with others, and that
\* the second creates with a slot of its own, or deletes.
RevivedAccounts ==
  {FromProofs(w, <<AccountDiff(d), second>>) :
     w \in Worlds,
     d \in {f \in AccountDiffs : Cardinality(DOMAIN f) \in 1..2},
     second \in {SlotDiff(<<0, 0, 1>> :> Newer, FALSE, {}),
                 AccountDiff(Contract :> NoValue),
                 AccountDiff(<<1, 0, 0>> :> Info1)}}

\* An account reported as empty was not there before.
EmptyAccounts ==
  {FromProofs([a \in Others \union {Contract} |-> IF a = Contract THEN Plain ELSE NoValue],
              <<AccountDiff((<<1, 0, 0>> :> EmptyInfo) @@ d)>>) :
     d \in Small({Contract, <<1, 1, 0>>}, {Info2, NoValue})}

MCBlocks ==
  WitnessStorage \union ProofStorage \union WholeStorage \union TwoSubblocks
    \union WitnessAccounts \union ProofAccounts \union RevivedAccounts \union EmptyAccounts

-----------------------------------------------------------------------------
\* A witness may leave out the storage trie of an account none of whose slots
\* was touched.
WithOmissions ==
  LET w == ContractWorld([s \in MCSlots |-> Old])
  IN  {[FromWitness(w, <<AccountDiff(Contract :> Info2)>>) EXCEPT
          !.witness = NodesOf(WorldRoot(w))]}

\* A slot is deleted by the first subblock and set again by the second.
WithRevivedSlot ==
  {FromProofs(ContractWorld([s \in MCSlots |-> IF s[2] = 0 THEN Old ELSE NoValue]),
              <<SlotDiff(<<1, 0, 0>> :> NoValue, FALSE, {}),
                SlotDiff(<<1, 0, 0>> :> New, FALSE, {})>>)}
=============================================================================

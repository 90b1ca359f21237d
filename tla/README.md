# pico-subblock: a verification project in TLA+

pico-subblock proves the execution of an Ethereum block. The host cuts the
block into subblocks, executes them one after the other against an RPC
database, and prepares for each an input and a pruned state. A client program
executes each subblock in the zkVM on its own; an aggregation program checks
that the public values of the subblock proofs fit together and returns the
header it vouches for.

This directory models the parts whose correctness depends on several pieces of
state agreeing over many steps, checks them with TLC on small instances, and
proves the main results with TLAPS for every value of the constants.

## 1. Inventory

| Component | Source | State | Operations | What makes it correct |
|---|---|---|---|---|
| Gas split | `crates/executor/host/src/subblock/mod.rs` | limits cut so far, running sums | `compute_subblock_gas_limits` | its assertions hold; the limits partition the block; no subblock is far too large |
| Host executor | `.../subblock/basic.rs`, `execution_witness.rs` | gas and transactions done, inputs, outputs, diffs, roots | execution loop, root check, header, ancestors, roots loop | never runs out of limits, executes every step of the block once, its inputs make the client do the same, the roots chain, the outputs are those the clients return |
| Subblock client | `crates/executor/client/src/lib.rs`, `bin/client-eth-subblock` | the pruned state | `execute_subblock` | output root and receipts are those of its transactions |
| Aggregation client | `crates/executor/client/src/lib.rs`, `bin/client-eth-agg` | cumulative output, hashes, transactions | `execute_aggregation`, `extend` | accepts only public values that are together an execution of the block |
| Requests | `crates/executor/client/src/io.rs` | request lists | `merge_requests` | the merged lists are the block's |
| Sparse trie | `crates/mpt/src/mpt.rs` | nodes with cached references | insert, delete, get, hash, clear, the touched variants, prune; tries from proofs | root is the root of the contents; truncation is never mistaken for absence |
| EthereumState | `crates/mpt/src/lib.rs`, `execution_witness.rs` | state trie, storage tries | constructors from proofs and witness, `update`, `prune`, `get_touched_nodes` | a valid block is verified; the pruned state suffices for the client; the roots of host and client agree |
| RPC databases | `crates/storage/rpc-db` | persistent, cache and subblock layers, the replay file | fetches, `update_state_diffs`, `state_requests`, `advance_subblock`, `store_cache` | reads see the earlier subblocks; the cache is the parent's state; requests cover reads |
| Proof fetching | `crates/executor/host/src/lib.rs`, `basic.rs` | chunks, tasks with their attempts, proofs before and after | `get_proof`, the joins | every account has both proofs, whatever fails and is retried |
| Host binaries | `bin/host/src/subblock.rs`, `main.rs` | input cache, RPC cache, witness file, stdin files | load, store, dump, validate | what is cached was verified; what is dumped belongs together, through crashes and reorganisations |
| Whole-block path | `host/src/block.rs`, `client/src/lib.rs` | | `execute_variant`, `witness_db`, `execute` | a valid block is verified by host and client |
| Precompiles, primitives | `client/src/custom.rs`, `crates/primitives` | none | | not modelled |

How they interact. The host executor calls the split once, then alternates
between the (external) block executor, which reads through the RPC database,
and `update_state_diffs`/`state_requests`/`advance_subblock` on that database.
Afterwards it builds `EthereumState` from proofs or from the witness, and for
each subblock prunes a copy of it and updates the original. The pruned copy and
the `SubblockInput` are all a client gets. The aggregation gets only the
public values (`SubblockInput`, `SubblockOutput`) and the block with its
ancestors.

Hard behaviours. The tasks that fetch proofs run concurrently, but share no
memory; what interleaves is the host, request by request, with a chain that may
be reorganised, and one run of a binary with the files earlier runs left. The
rest of the difficulty is in decisions taken twice, independently, that must
agree (split and loop; host's run and client's run; the order in which the host
marks nodes and the order in which the client deletes them), in caches that
must not go stale (node references; three layers of state; files that
survive crashes), and in checks that are local (one subblock) for a claim that
is global (the block). The full list, line by line, is `hazards` in
`PROJECT.json`.

## 2. Modules

| Module | Models | State and actions |
|---|---|---|
| `GasSplit` | `compute_subblock_gas_limits` | the function's locals; one action per branch (`NoTransactions`, `StartLoop`, `CutBefore`, `Accumulate`, `AddLast`) and per closing check. `ends` is a history variable |
| `ExecutionSteps` | the vocabulary of execution | a state is the sequence of steps that led to it |
| `SubblockClient` | `execute_subblock` | `ExecutorSteps`, the executor that host and client share; `ExecuteSubblock`; `IsProven` says what a verified proof tells |
| `SubblockHost` | `execute_subblock_by_basic_rpc` and `..._by_execution_witness_rpc` | composes `GasSplit` (action `ComputeGasLimits`) and `SubblockClient`; `HostRun` is what a round gives the executor, `RunSubblock` the round, then `VerifyStateRoot`, `ComputeRoots` |
| `BlockExecution` | abstract specification: the steps of a block taken in order, in several runs | implemented by `SubblockHost` |
| `Requests`, `SubblockRequests` | `merge_requests`, and the way of the requests to it | |
| `Aggregation` | `execute_aggregation` | composes `SubblockClient` and `Requests`; `AggregateSubblock` is a round, then `MergeAll`, `LinkAncestor`, `FinishAggregation` |
| `Mpt` | `MptNode` | pure operators, one per method. A trie is a function from positions (the nibbles on the way) to nodes |
| `MptStore` | a trie in use | `trie` next to `contents`, the map it should hold, and `readable`, the keys whose nodes every truncation kept and those used since; `InsertKey`, `DeleteKey`, `ComputeHash`, `Clear`, `Truncate`, in any order and any number |
| `TrieConstruction` | tries from proofs and from a witness | pure operators, one per function |
| `EthereumState` | `EthereumState` on its way through a block | host verifies (`Update...`, `VerifyStateRoot`), then per subblock prunes (`Touch...`, `PruneState`), the client updates the pruned copy (`Update...`, `FinishClient`) and the host its own (`FinishHost`); `VerifyWholeBlock` and `FinishWholeBlock` are the path without subblocks |
| `RpcDb` | both databases | the layers; `truth` is the state a read ought to see |
| `Pipeline` | a block from the split to the aggregated header | composes `SubblockHost` (`ExecuteHost`) and `Aggregation` (`ValidateAggregation`) by the header and the public values the host makes (`DeriveHeader`, `HostPublicValue`) |
| `Provider` | the RPC provider, external | two forks; `Reorg` changes the one that answers |
| `ProofFetch` | the proofs of the accounts, chunk by chunk | one record per task; `GetProof`, `FailProof`, `JoinBefore`, `JoinAfter` |
| `HostBinary` | the binaries `subblock` and `rsp` and their files | composes `Provider` and `ProofFetch`; one action per request to the provider, per check and per creation or writing of a file |
| `StepLemmas`, `SubblockHostProofs`, `AggregationProofs`, `PipelineProofs`, `RpcDbProofs`, `HostBinaryProofs`, `MptStoreProofs`, `EthereumStateProofs` | proofs | |
| `MC...` | constants for TLC | |

An operator marked *Faulty* is a plausible mistake in the code the operator
below it models. No specification uses one; with it in place of the original a
property must fail, which shows that the property depends on that code.

### Abstractions

- *Execution.* The block executor (a fork of reth) is outside the repository.
  A state, and a state root, is the sequence of steps taken since the parent
  block: `Pre`, transactions, `Post`. Two executions agree on the root exactly
  if they took the same steps.
- *Executor and gas limit.* `Executed` leaves open whether a subblock that
  meets its limit exactly stops there or takes one more transaction; the
  results hold either way. Receipts of the block are those the executor produces.
- *Executor and flags.* `ExecutorSteps` takes what a run is given: transactions,
  flags and limit. The host's last run has all transactions left, a limit and
  `is_last_subblock = false` (basic.rs:131); the client's has the flag and no
  limit. That a run with a limit takes the post-execution calls when it comes to its
  last transaction is an assumption about the executor, the only one under which
  the host's own root check (basic.rs:313) can pass on its last subblock. That
  both then take the same steps is `ClientReplaysHost`.
- *Hashing.* keccak is taken as injective: a trie reference is the tree it
  stands for. Nodes other than leaves are taken to encode to at least 32 bytes,
  so they are referenced by digest. RLP and nibble packing are left out.
- *Positions.* `MptNode` owns its children; the code recurses along a key and
  takes nodes apart and puts them together again. In `Mpt` a trie is flat: a
  node is at the position its path leads to, so the recursion along a key visits
  the positions that are prefixes of the key, and neither a split nor a collapse
  moves what is below it. The way back of `delete_internal` is a recursive
  function over the branches and extensions it returns through (`Unwound`). A
  reference is the data of the nodes from a position on, digests replaced by
  what they stand for, so truncating a node and hashing it commute by
  calculation and not by definition.
- *Public values.* `IsProven` assumes that the storage tries of the input
  state belong to its state root. `witness_db` (io.rs:389-431) compares them on the
  whole-block path; `execute_subblock` builds its `TrieDB` without that
  comparison, so here it is an assumption about the input.
- *Diffs.* `EthereumState` takes the diffs and requests of the subblocks as
  given, and `MergePost`, the sum of them, as reth's `ExecutionOutcome::extend`
  computes it. Requests contain every account of the diff (`RequestsCoverReads`
  of `RpcDb` is about that).
- *Provider.* In `RpcDb` it answers for one parent block, or fails (`Stop`). In
  `HostBinary` it is on one of two forks, which part at any height, changes
  between them at any step, and answers by number. Some or all accounts may be
  the same on both forks.
- *Provenance.* In `HostBinary` a file, a read or a proof stands for the block
  it was answered for. What the execution makes of the reads is `Diff`, an
  arbitrary function of the block and the reads. The root check compares one
  root, that of the previous state with the diff, with the header's
  (basic.rs:307-315): on the state the block was built on it passes exactly
  with the block's diff (`RootMayMatch`), so a wrong read that the diff does not
  depend on passes too, and is cached. On another state it may pass or not;
  the header check tells, as the derived header has the hash of the previous
  block. After wrong reads the logs and receipts may be others, so the header check
  and the aggregation may refuse them or not. It is the diff of the whole block that
  is compared, not those of the subblocks. A state built from
  proofs of two forks may be rejected or not, as long as one proof is of the
  right root.
- *Files.* A file is missing, damaged, or holds a whole value. `bincode` is taken
  to reject a damaged file and one of the other binary's type.
- *Asserts, `unwrap`, `expect`* lead to the `panic` value of the program
  counter. Failures to decode an input, to recover a signer or to reach the
  provider before the loop end the program before it has any state, and are
  left out.

## 3. Runs

| Run | Expectation | What it shows | Bounds |
|---|---|---|---|
| `pipeline` | pass | the split's assertions hold, it partitions the block and is balanced; the host never runs out of limits, clients replay it, roots chain, it implements `BlockExecution`; its outputs are those of the clients, no check refuses a valid block, and the aggregation returns the header | every block of at most 5 transactions with gas from {1,2,3,7,20}, at most 3 subblocks: single transactions below, at and far above a subblock's share, so both kinds of cut and both kinds of ending occur; deposits in three of the transactions, so in one subblock or spread over several; 2 withdrawal requests, 2 ancestors |
| `host_binary` | pass | what is cached is built on its previous block and has the diff the clients come to, the aggregator's files are of one chain, a finished dump is whole and consistent, both proofs of every account are there, and the dump is made in the end | 3 accounts, of which the diff depends on two, in chunks of 2 (a full and a partial chunk), 2 attempts, forks parting at each of 3 heights, 2 ancestors, up to 2 subblocks, 3 faults among reorganisation, crash, failed request or attempt, and a run of another binary |
| `aggregation` | pass | what is accepted is an execution, with its receipts and true block hashes | 2 transactions, up to 3 public values with every combination of flags, three starting gases, six input states, two hash maps, three headers, inputs with broken ancestors or transactions |
| `aggregation_flags` | violation | see findings | same |
| `requests` | pass | the merged requests are the block's | 3 subblocks, 2 requests per type and subblock, queues without repetition |
| `repeated_requests` | violation | see findings | queues with repetition |
| `mpt_store` | pass | root, shape, results and get are right in every history, also of tries that are truncated, changed and truncated again; nothing but a change of the contents changes the root | 4 keys of 3 nibbles that share 0, 1 and 2 nibbles, 2 values: leaves, extensions and branches of every depth, collapses with an orphan that is a leaf, a branch, an extension or a digest; the state space is finite without a step bound |
| `ethereum_state` | pass | a valid block is verified, pruning keeps what the client needs, host and client compute the same roots and end at the header's, in every order | every storage over 4 slots with every diff of them, and with two subblocks that change up to 2 slots and then 1; every world of 4 accounts with every diff, and with a second subblock that creates one again with a slot of its own or deletes it; from a witness, from proofs and as a whole block; accounts reported as empty |
| `omitted_storage` | violation | see findings | one account with an omitted storage trie |
| `intermediate_roots` | violation | see findings | one storage of 3 slots |
| `rpc_db` | pass | reads are current, the cache is the parent's, requests and ancestors cover reads | 1 account, 2 slots, 3 subblocks, 2 runs: a second run replays a file written by a first, whole or torn; slots are symmetric |
| `destroyed_storage` | violation | see findings | same, before EIP-6780 |

Deadlock checking is off where the program really ends (every run but the
trie's).

Why 3 faults: the interesting cases of `host_binary` take two (a reorganisation
during a run and one back, or one between two runs with a crash in the first)
and a run of the other binary. Chunks of 2 and 3 accounts stand for chunks of
10 and any number: a full chunk, a rest, and both joins occur.

Fairness. `HeaderReturned` needs weak fairness of `PipeNext`: host and
aggregation are sequential programs that take their next step unless the process
is stopped. `DumpFinishes` needs weak fairness of `RunStep`: the process takes
its next step, a task that is neither answered nor failed is answered (requests
end, the timeout of the transport counts as a failure), and the operator starts
`subblock` again after a run that did not end well. It is started with the basic
variant; a run with `--execution_witness` is a fault, so the property does not
say that an operator who insists on that variant gets past a witness file of the
wrong fork. Faults are never fair and finitely many.

## 4. Proofs

All theorems hold for every block, every maximal count, every set of public
values, every database and any number of subblocks, requests, accounts and
faults, under the named assumptions of the modules. None depends on the bounds
of the runs.

- `SubblockHostProofs`, the split. `SplitNeverPanics`, `SplitPartitions`,
  `SplitBalanced`. The inductive invariant relates `curr` to the cumulative gas of the block,
  `prev` to the last cut, and the number of cuts to the gas seen:
  `next = (Len(ends) + 1) * subblock_gas`, and after k cuts `curr` exceeds
  `k * subblock_gas`, the transaction that opens the next subblock counted. As
  `subblock_gas` is rounded so that the total is below
  `MaxSubblockCount * subblock_gas`, fewer than `MaxSubblockCount` cuts precede
  the last subblock, although the loop itself never counts them.
- `SubblockHostProofs`, the loop. `HostNeverPanics`, `HostReplay`, `HostCountBounded`,
  `HostRootsReachHeader`, and `HostImplements`, the refinement of
  `BlockExecution`. The invariant compares the loop's progress with the split:
  after k subblocks the loop has come to the k-th cut of the split or beyond it,
  so while transactions are left there is a limit left. `HostReplay` compares two
  runs of the executor: the host's comes to its last transaction exactly if
  the cut ends the block (`HostSteps`), which is when the client's is flagged
  last (`ClientSteps`).
- `AggregationProofs`. `AggregationSound`, `AggregationReceipts`,
  `AggregationBlockHashes`. The invariant says that the cumulative output is
  that of one execution of the transactions read so far; associativity of
  concatenation (`StepLemmas`) carries it over a round. `AcceptedIsExecution`
  is conditional on exact flags because the program does not enforce them (see
  findings).
- `RpcDbProofs`. `RpcReadsCurrent` (where EIP-6780 holds), `RpcCacheIsParent`,
  `RpcRequestsCover`, `RpcReplay`, `RpcAncestors`. The invariant: below
  `persistent_data` the truth is the parent's state, and `cache_data` and the
  file hold only that; so a lookup in the order of the layers gives the truth.

- `AggregationProofs`, the requests. `RequestsMerged`, for queues in which no request is repeated
  (`~RepeatedPieces`; with a repetition it is false, see findings). Before the
  last subblock the collected lists are the block's deposits, cut into the lists
  of the subblocks that had any (`DepositParts`). `DepositRounds` follows the
  loop of `merge_requests` over them: behind round k the pieces processed are
  the deposits up to the k-th cut and the new list holds exactly these, because
  none of the pieces of a later list is among them; `LaterRound` adds the
  withdrawals and the consolidations, each of a type no list had before.
- `PipelineProofs`. `PipeOutputsValid` and `PipeAccepts`, about the composition
  of host, clients and aggregation.
  - *Cuts* (`CutsInv`): there are cuts c[0] = 0 <= c[1] <= ... such that the
    input of subblock k is the block from c[k - 1] to c[k], first exactly if it
    starts at 0, last exactly if it ends the block, with the cumulative gas of
    its cut as starting gas. The host's steps in subblock k are then the
    transactions of its cut (`SubblockRun`), its receipts count the gas of the block,
    and the client's output is the same record (`HostOutputIs`,
    `ClientOutputIs`).
  - *Aggregation* (`AggSide`): behind n public values the program holds the
    transactions, receipts and bloom of the block up to c[n], the n-th state of
    the chain of roots, and request lists that cut the deposits up to there
    (`RequestsSoFar`). Each further public value passes the checks
    (`NextChecks`) and moves all of that to c[n + 1]. At the end c[n] is the
    whole block, `MergedRequests` gives its requests, each ancestor is the
    parent of the header before it (`LinkSide`), and every final check compares
    equal values (`FinishSide`).
  - `PipeAccepts` assumes `Distinct(Queue)`: the block's withdrawal requests are
    distinct. Without that the theorem is false, by the finding on repeated
    requests. Deposits need no such assumption: each carries its index, and
    those of one block are shown to be distinct.
- `HostBinaryProofs`. `BinaryCacheVerified`, `BinaryAggregator`, `BinaryDump`,
  `BinaryProofs`, for every function `Diff`. None of the four is inductive: what a file holds depends on
  what the run that wrote it knew when it wrote it. `BinaryInv` says, by program
  counter, what a run has fetched and compared (`FetchedInv`): behind the root
  check that the diff is the block's if the previous state is its parent's, and
  only behind the header check that it is. It says that an output
  was verified and, behind the validation, is of one chain (`OutputInv`), which
  files of the dump are already its own (`DumpInv`), what any earlier run can have
  left (`DiskInv`), and that an account waits, is in the chunk under way or has
  the proofs already joined (`ProofsInv`). `DiskInv` is what survives a crash,
  and all that a new run starts from. `ReadsInv` says that once the block is
  executed there is a read of every account, and nothing of the fork it is from.
- `MptStoreProofs`, the trie in use. `TrieStaysWellFormed`, `RootCommitsToContents`,
  `RootChangesOnlyByUpdates`, `AnswersTruthful`, `GetNeverWrong`, for any set of
  keys of one length and any sequence of operations. The inductive invariant is
  `StoreInv`: besides the type of `contents` and `ResultsTruthful`,
  - *shape* (`Good`): every branch has two children, an extension leads to a
    branch or a digest, leaves end at the length of a key. `delete` needs it
    everywhere: a collapse merges the orphan with what is above it, and only the
    shape says what that can be.
  - *what digests stand for* (`Faithful`): there is a whole trie that holds exactly
    the contents and that the stored one reveals a part of. Its nodes are those of the
    whole one, a digest, and every cached reference, is the reference of the whole one at
    that position (`Reveals`). So a digest stays what it is when nodes above it
    change, an operation may drop a cache but never keep one above a change, and
    truncating a node replaces it by what the cache or the computation says,
    which are the same (`CutReveals`, `RevealsHash`).
  - *readable keys* (`ReadableSure`): no digest is on the way to a readable key.
    It is not enough that none is there when the trie is truncated: another key's
    delete may collapse the branch above, and the proof shows that the digest
    that moves up is on the way to no other readable key.

  `RootIsContents` then needs that the trie of a map is unique. `Root` is defined by
  where the keys of the map part (`Forks`): a whole trie that is proper and holds
  the map has its branches exactly there, an extension exactly where the way to
  the next fork is longer than a nibble, and a leaf where no fork is below. The exception
  that the property makes (`Proper`) is real: a delete with a truncated
  orphan puts its digest under an extension, also when it is that of an extension
  (see the finding on intermediate roots); TLC reaches such states. Then the
  other four still hold.
- `MptStoreProofs`, tries as the host builds them. `WitnessTrieReadsTrue`,
  `ProofTrieReadsTrue`: from a root and any set of witness nodes, or from proofs
  of some keys and whatever nodes `add_orphaned_leafs` adds, the trie has that root,
  is `Faithful` to the map behind it, and reads and updates every key whose
  nodes are there. `WitnessTrieStaysTrue` and `ProofTrieStaysTrue` put
  both together: from such a trie on, every sequence of updates, hash
  computations and truncations keeps the four invariants for the whole map, of
  which the trie never held more than a part. That is the situation of the
  client, and of the host between two subblocks.
- `EthereumStateProofs`. `PrunedStateIsEnough`: for every block, of any number of
  accounts, slots and subblocks, no operation of host or client meets a truncated
  node, and the assertions of `prune()` hold. The invariant (`StateInv`) says:
  - *what is served* (`Serves`, `Fits`): every trie of `big_state` and of the state at
    work is `Faithful` to some map and open on the way to all keys that may still
    be asked for: those of the block for the host, those of the subblock for its
    client. `ParentFits` shows it of the state the host begins with, by
    `ProofOfIs` (what `eth_getProof` returns) or for the nodes of the witness;
    insert, delete and hash keep it, for all the keys at once.
  - *what is marked* (`Marked`): while `get_touched_nodes` deletes from its clone,
    every node of the original is marked or the clone still has it with
    everything below it. A delete marks what it changes (`DeleteMarks`): the nodes on
    the way and the orphan of the last branch; a node it leaves alone keeps its
    reference (`KeptSameReference`). At the end the nodes on the way to the
    subblock's keys are marked as the clone has them, and those the clone
    no longer has were marked when they went; so `prune()` cuts no way to such a
    key (`MarkedServes`), although it marks in one order and the client deletes in
    another.

Induction. The library's induction theorems take an operator, which the provers
here cannot instantiate. `StepLemmas` therefore states induction for a set:
`InductionUpTo` (a set that holds 0 and with each number below m the next holds
all of 0..m), from the well-foundedness of < on the natural numbers. What the
recursive functions `Unprocessed`, `MergeRequests` and `DepositsOf` compute is
shown with it, after showing that such a function exists.

Constants are assumed no more than: a block's cumulative gas increases
strictly (`BlocksAssumption`), `MAX_SUBBLOCK_COUNT` is not 0
(`CountAssumption`; 0 would divide by zero), public values are those of
subblock programs that ran (`ProvenAssumption`), the ancestors the provider
returns are one chain and there is at least the parent (`AncestorsAssumption`),
a missing or damaged file is no output (`FilesAssumption`), chunk size and
retries are not 0 (`ChunkAssumption`, `RetriesAssumption`), the keys of a trie have one length, as
hashes do (`KeysAssumption`), the mark of an absent key is not a value
(`ValuesAssumption`), no account is the mark for none (`NoAddressAssumption`), and
types. `StateBlocksAssumption` says what a block of `EthereumState` is (`IsBlock`):
the accounts a subblock changes are among those it requested, the slots it
changes among those it requested or the block changes, and a witness has the
nodes on the way to what is requested, but for whole storage tries. The code
has all of it from outside: from the block executor, which reads an account
through the database before it changes it, and from the provider.

Only model-checked: the liveness properties `HeaderReturned` and `DumpFinishes`,
out of the prover's reach (the safety half of the first is `PipeAccepts`); and
`ValidBlockVerified`, `ClientRootIsHosts`, `OutputRootTrue` and `ClientReadsTrue`
of `EthereumState`. The theorems about tries are what these rest on, but
they also depend on which orphans the provider's proofs happen to hold, and on the
block being one that Ethereum accepts: facts about constants that the code takes
from outside, given by `Blocks` in the model and enumerated by TLC.

## 5. Findings

- **First/last flags** (`aggregation_flags`). lib.rs:318-327 constrains the
  flags of the first and the last public value only in one direction. Two
  public values of which the first is also flagged last are accepted.
- **Repeated requests** (`repeated_requests`). `merge_requests` drops a
  withdrawal or consolidation request equal to an earlier one (io.rs:188).
  The aggregation of such a block fails the requests hash.
- **Intermediate roots** (`intermediate_roots`). A delete whose orphan is a
  truncated node succeeds and puts the digest under an extension, which is right
  only for a branch (mpt.rs:682). The proofs after the block hold the orphans of
  slots that end deleted, not of those a later subblock sets again. Then the
  root between the two subblocks belongs to no canonical trie: in the trace the
  orphan is a truncated extension, and the trie has an extension above another. Host and client
  agree on it and the last root is right, so the block is still proved; what the
  public value calls the state root after the subblock is not one.
- **Omitted storage trie** (`omitted_storage`). `update` gives an account without
  a storage trie the empty storage root, also when the witness left out the trie.
- **Destroyed accounts** (`destroyed_storage`). `update_state_diffs` keeps the
  slots of a destroyed account. Only blocks before EIP-6780 are affected.

Observations without a run of their own:

- `get` on a truncated part answers `None` (mpt.rs:563), which its doc
  (mpt.rs:517-518) calls a proof of absence; `GetTruthful` allows for it, and
  `ClientReadsTrue` shows that the client's pruned state does not meet it.
- The doc of `insert` (mpt.rs:896-898) says it returns `false` when the key
  exists and its value is updated; the code returns `true` unless the value is
  the same, and `ResultsTruthful` states what the code does.
- `Poisoned` in `HostBinary` names three states in which every further run may
  fail until an operator deletes a file: an input cached with ancestor headers of
  another fork (they are fetched after all checks and linked only by the
  aggregation, subblock.rs:280, after the cache was written), an input made from
  wrong reads that left the diff alone but not the receipts, and an RPC cache
  written before the state root is verified (basic.rs:235-238) with reads of a
  fork the provider left. `CacheVerified` and `AggregatorOfOneFork` show that
  in none of them anything of two chains, or with a diff that is not the block's,
  is dumped.
- `rsp` leaves a cache file it cannot read where it is, `subblock` deletes it
  (main.rs:139-145, subblock.rs:435-443).
- The environment variable `SUBBLOCK_GAS_LIMIT` only names the dump directory
  (subblock.rs:53); the split does not use it.

## 6. Not modelled, and the plan

Not modelled: the zkVM SDK and its proofs; the block executor; precompiles; RLP
and nodes under 32 bytes; chain spec, command line and environment; logging and
timing; the emulation of the programs with `--execute`, which reads only; the
files `rsp` writes with `--dump_dir`; `from_proofs`, which nothing calls; blocks
that delete an account with storage, which the chain does not have since EIP-6780
(`EthereumState`, lib.rs:103; in `RpcDb` the run `destroyed_storage` has them). A
`subblock` without cache and provider ends before it has any state.

Order of work and what is left:

1. Done: split, host loop, client, aggregation, requests, trie, state, RPC
   databases; their runs; the proofs above.
2. Done: tries from proofs and witnesses and a state that goes through several
   subblocks; the whole-block path; proof fetching; the host binaries with a
   provider that is reorganised; the composition of host, clients and
   aggregation.
3. Done: proofs about the host binaries, the merging of requests and the
   composition (`HostBinaryProofs`, `AggregationProofs`, `PipelineProofs`).
4. Done: the trie, from the witness or the proofs to the last update
   (`MptStoreProofs`). Nested nodes would need recursive operators, which rule out
   proofs; a trie as a function from positions to nodes needs none.
5. Done: the nodes that the host collects and that `prune()` keeps are enough
   (`EthereumStateProofs`).
6. Left: that the roots of `EthereumState` are right. `RootIsContents` gives the
   root of each trie whose orphans are resolved; what remains is that the proofs
   after the block hold the orphans of everything that ends deleted.
   And `ClientReadsTrue` for every block: `GetNeverWrong` and the theorems about
   tries from a witness or proofs give it for one trie, not yet across subblocks.

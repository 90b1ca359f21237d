------------------------------ MODULE Provider ------------------------------
(***************************************************************************)
(* The RPC provider (external) as the host uses it: everything is asked    *)
(* for by block number, so the answers to two questions may come from two  *)
(* forks when the chain is reorganised in between.                         *)
(*                                                                         *)
(* There are two forks, which part at the height fork_at.  A block is      *)
(* <<height, fork>> and stands for its hash; the accounts in `shared` have *)
(* the same value in the parents of both forks.                            *)
(***************************************************************************)
EXTENDS Integers

CONSTANTS
  Accounts,        \* the accounts the block reads
  Number,          \* block_number
  SharedSets,      \* the sets of accounts that may be the same on both forks
  OldestAncestor,  \* oldest_ancestor: how far back BLOCKHASH looks
  MaxFaults        \* bound: reorganisations, crashes, failures and reruns

ASSUME NumberAssumption == Number \in Nat /\ OldestAncestor \in 1..(Number - 1)
ASSUME SharedAssumption == SharedSets \subseteq SUBSET Accounts
ASSUME FaultsAssumption == MaxFaults \in Nat

VARIABLES
  chain,           \* the fork the provider is on
  fork_at,
  shared,
  faults           \* faults still to come

providerVars == <<chain, fork_at, shared, faults>>

Forks == {1, 2}

Block(fork, height) == <<height, IF height < fork_at THEN 1 ELSE fork>>

\* get_block_by_number
BlockAt(height) == Block(chain, height)

ParentOf(b) == Block(b[2], b[1] - 1)

\* The value of an account in the state of a block at the height of the parent,
\* and the root of that state.
Value(a, b) == IF a \in shared THEN <<b[1], 1>> ELSE b
StateRoot(b) == IF shared = Accounts THEN <<b[1], 1>> ELSE b

ProviderInit ==
  /\ chain = 1
  /\ fork_at \in 1..Number
  /\ shared \in SharedSets
  /\ faults = MaxFaults

\* One of the faults happens.
Fault ==
  /\ faults > 0
  /\ faults' = faults - 1

Reorg ==
  /\ Fault
  /\ chain' \in Forks \ {chain}
  /\ UNCHANGED <<fork_at, shared>>
=============================================================================

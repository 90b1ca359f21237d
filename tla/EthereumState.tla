---------------------------- MODULE EthereumState ----------------------------
(***************************************************************************)
(* EthereumState on its way through a block.  The host builds it from the  *)
(* proofs of the block's transition, or from an execution witness, applies *)
(* the diff of the whole block to a copy and compares the root with the    *)
(* header's.  Then, subblock after subblock, it prunes a copy to the nodes *)
(* the subblock touches, for the client, and applies the subblock's diff   *)
(* to its own.  The client reads from the pruned tries and applies the     *)
(* diff to them.  On the path without subblocks the client gets the state  *)
(* as it is.                                                               *)
(*                                                                         *)
(* A world maps an address to [info, storage] or NoValue; storage maps     *)
(* some slots to a value or NoValue (zero).  A block is [world, subblocks, *)
(* witness, whole]: the parent's world, the [post, requests] of its        *)
(* subblocks, the nodes of the witness or NoWitness (for proofs), and      *)
(* whether it is executed as a whole.  post is a HashedPostState: accounts *)
(* maps the changed addresses to an info or NoValue (deleted), storages    *)
(* some of them to [wiped, storage].  Addresses and slots are their hashes.*)
(***************************************************************************)
EXTENDS TrieConstruction, TLC

LOCAL INSTANCE SequencesExt

CONSTANTS
  NoAddress,
  NoWitness,
  EmptyInfo,      \* an account with no nonce, balance or code
  Blocks          \* the blocks to look at

VARIABLES
  block,
  index,           \* the subblock of the roots loop; 0 before it
  big_state,       \* EthereumState [state_trie, storage_tries] of the host
  state,           \* the one at work: mutated_state, a pruned copy, or big_state
  roots,           \* output roots of this subblock: the client's, then the host's
  scratch,         \* self_clone in prune
  account_refs,    \* touched_account_refs
  storage_refs,    \* touched_storage_refs
  pending,         \* changed accounts the loop has not reached
  current,         \* the account of this round, or NoAddress
  slots,           \* its slots that are left
  phase            \* verify, touch, client, host, done, mismatch, panic

refs == <<scratch, account_refs, storage_refs>>
loop == <<pending, current, slots>>
stateVars == <<block, index, big_state, state, roots, refs, loop, phase>>

\* The account as the state trie holds it.
TrieAccount(account) ==
  IF account = NoValue THEN NoValue
  ELSE [info |-> account.info, storage_root |-> Root(account.storage)]

WorldRoot(w) == Root([a \in DOMAIN w |-> TrieAccount(w[a])])

\* HashedStorage::new(false) for an account whose storage did not change.
StorageDiff(post, a) ==
  IF a \in DOMAIN post.storages THEN post.storages[a] ELSE [wiped |-> FALSE, storage |-> << >>]

Some(post, a) == post.accounts[a] # NoValue

\* The world behind a diff, by the meaning of a diff.
Behind(w, subblock) ==
  LET post == subblock.post
  IN  [a \in DOMAIN w |->
         IF a \notin DOMAIN post.accounts \/ post.accounts[a] = EmptyInfo THEN w[a]
         ELSE IF ~Some(post, a) THEN NoValue
         ELSE LET diff == StorageDiff(post, a)
                  old  == IF w[a] = NoValue \/ diff.wiped THEN << >> ELSE w[a].storage
              IN  [info |-> post.accounts[a], storage |-> diff.storage @@ old]]

\* The value of a slot; a slot nobody set is zero.
SlotValue(account, s) == IF s \in DOMAIN account.storage THEN account.storage[s] ELSE NoValue

WorldBehind(b, n) == FoldLeft(Behind, b.world, SubSeq(b.subblocks, 1, n))
NewWorld(b) == WorldBehind(b, Len(b.subblocks))

\* cumulative_executor_outcomes.extend(..): what a later subblock says of an
\* account or a slot counts; a deleted account that is back has its storage wiped.
MergePost(p, q) ==
  LET storages == DOMAIN p.storages \union DOMAIN q.storages
      deleted(a) == a \in DOMAIN p.accounts /\ ~Some(p, a)
      merged(a) ==
        [wiped   |-> StorageDiff(p, a).wiped \/ StorageDiff(q, a).wiped \/ deleted(a),
         storage |-> IF StorageDiff(q, a).wiped \/ deleted(a)
                       THEN StorageDiff(q, a).storage
                       ELSE StorageDiff(q, a).storage @@ StorageDiff(p, a).storage]
      accounts == q.accounts @@ p.accounts
  IN  [accounts |-> accounts,
       storages |-> [a \in {x \in storages : accounts[x] # NoValue} |-> merged(a)]]

Cumulative(b) ==
  FoldLeft(MergePost, [accounts |-> << >>, storages |-> << >>],
           [i \in DOMAIN b.subblocks |-> b.subblocks[i].post])

\* merge_state_requests over the subblocks.
CumulativeRequests(b) ==
  LET all == UNION {DOMAIN b.subblocks[i].requests : i \in DOMAIN b.subblocks}
      of(a) == {i \in DOMAIN b.subblocks : a \in DOMAIN b.subblocks[i].requests}
  IN  [a \in all |-> UNION {b.subblocks[i].requests[a] : i \in of(a)}]

Modified(post, a) == DOMAIN StorageDiff(post, a).storage

\* The diff at work: of the block while it is verified or executed as a whole.
PostState == IF index = 0 THEN Cumulative(block) ELSE block.subblocks[index].post

\* The accounts update goes through: accounts.retain drops the empty ones.
Retained(post) == {a \in DOMAIN post.accounts : post.accounts[a] # EmptyInfo}

-----------------------------------------------------------------------------
StorageRoot(w, a) == IF w[a] = NoValue THEN EmptyRoot ELSE Root(w[a].storage)

\* The proofs of the slots of one account.
StorageProofs(w, a, keys) == [s \in keys |-> ProofOf(StorageRoot(w, a), s)]

\* Proofs for the modified keys, asked for at the block itself.
AfterProofs(b, a) ==
  StorageProofs(NewWorld(b), a, Modified(Cumulative(b), a))

\* The slots whose proofs the host asks for: those used and those modified.
SlotKeys(b, a) == CumulativeRequests(b)[a] \union Modified(Cumulative(b), a)

\* transition_proofs_to_tries, on the proofs the host asks for: at the parent
\* for the used and the modified keys, at the block for the modified ones.
TransitionState(b) ==
  LET requests == CumulativeRequests(b)
      proof(w) == [a \in DOMAIN requests |-> ProofOf(WorldRoot(w), a)]
  IN  [state_trie    |-> IF requests = << >> THEN node_from_digest(WorldRoot(b.world))
                         ELSE TrieFromProofs(proof(b.world), proof(NewWorld(b))),
       storage_tries |->
         [a \in DOMAIN requests |->
            IF SlotKeys(b, a) = {} THEN node_from_digest(StorageRoot(b.world, a))
            ELSE TrieFromProofs(StorageProofs(b.world, a, SlotKeys(b, a)), AfterProofs(b, a))]]

\* build_validated_tries: a storage trie for every account leaf whose storage
\* root is a node of the witness.
WitnessState(b) ==
  LET state_trie == TrieFromWitness(WorldRoot(b.world), b.witness)
      accounts   == {l \in Leaves(state_trie) : l.value.storage_root \in b.witness}
  IN  [state_trie    |-> state_trie,
       storage_tries |->
         [a \in {l.key : l \in accounts} |->
            TrieFromWitness(Get(state_trie, a).storage_root, b.witness)]]

(***************************************************************************)
(* The blocks: addresses and slots are hashes; the accounts of a diff are  *)
(* among the requests, and what a subblock modifies is requested or        *)
(* modified by the block; the witness has its root and the nodes on the    *)
(* way to what is requested, but for whole storage tries.                  *)
(***************************************************************************)
IsBlock(b) ==
  /\ DOMAIN b.world \subseteq Keys
  /\ \A a \in DOMAIN b.world : b.world[a] # NoValue => DOMAIN b.world[a].storage \subseteq Keys
  /\ Len(b.subblocks) \in Nat \ {0} /\ DOMAIN b.subblocks = 1..Len(b.subblocks)
  /\ DOMAIN Cumulative(b).accounts \subseteq DOMAIN CumulativeRequests(b)
  /\ DOMAIN CumulativeRequests(b) \subseteq DOMAIN b.world
  /\ \A a \in DOMAIN CumulativeRequests(b) : SlotKeys(b, a) \subseteq Keys
  /\ \A i \in DOMAIN b.subblocks :
       LET post == b.subblocks[i].post
       IN  /\ DOMAIN post.accounts \subseteq DOMAIN b.subblocks[i].requests
           /\ \A a \in DOMAIN b.subblocks[i].requests : Modified(post, a) \subseteq SlotKeys(b, a)
  /\ b.witness # NoWitness =>
       /\ WorldRoot(b.world) \in b.witness
       /\ \A a \in DOMAIN CumulativeRequests(b) :
            /\ NodesOnWay(WorldRoot(b.world), a) \subseteq b.witness
            /\ StorageRoot(b.world, a) \in b.witness =>
                 \A s \in SlotKeys(b, a) : NodesOnWay(StorageRoot(b.world, a), s) \subseteq b.witness

ASSUME StateBlocksAssumption == \A b \in Blocks : IsBlock(b)

ASSUME NoAddressAssumption == NoAddress \notin Keys

\* Hashing a state, as every comparison of roots does, leaves the caches set.
Hashed(s) ==
  [state_trie    |-> WithReferences(s.state_trie),
   storage_tries |-> [a \in DOMAIN s.storage_tries |-> WithReferences(s.storage_tries[a])]]

\* The state belongs to the root, and the storage tries belong to its accounts
\* (MismatchedStateRoot, MismatchedStorageRoot; witness_db in the client).
Anchored(s, root) ==
  /\ Hash(s.state_trie) = root
  /\ \A a \in DOMAIN s.storage_tries :
       LET account == Get(s.state_trie, a)
       IN  Hash(s.storage_tries[a]) =
             IF account = NoValue THEN EmptyRoot ELSE account.storage_root

ParentState(b) == Hashed(IF b.witness = NoWitness THEN TransitionState(b) ELSE WitnessState(b))

StateInit ==
  \E b \in Blocks :
    /\ block = b
    /\ index = 0
    /\ big_state = ParentState(b)
    /\ state = big_state
    /\ roots = << >>
    /\ scratch = big_state
    /\ account_refs = {}
    /\ storage_refs = << >>
    /\ pending = Retained(Cumulative(b))
    /\ current = NoAddress
    /\ slots = {}
    /\ phase = IF Anchored(big_state, WorldRoot(b.world)) THEN "verify" ELSE "mismatch"

\* The order of keys, as the bytes of a B256 are compared.
Less(k, l) == LET n == lcp(k, l) IN n < Len(l) /\ (n = Len(k) \/ k[n + 1] < l[n + 1])

\* A map with the entry for one key set.
Entry(map, a, value) ==
  [b \in DOMAIN map \union {a} |-> IF b = a THEN value ELSE map[b]]

-----------------------------------------------------------------------------
\* get_touched_nodes: the accounts in sorted order.
TouchNext ==
  /\ phase = "touch"
  /\ current = NoAddress
  /\ pending # {}
  /\ \E a \in pending :
       LET has_storage == Some(PostState, a) /\ a \in DOMAIN scratch.storage_tries
       IN  /\ \A b \in pending \ {a} : Less(a, b)
           /\ current' = a
           /\ slots' = IF has_storage THEN Modified(PostState, a) ELSE {}
           /\ storage_refs' = IF has_storage THEN Entry(storage_refs, a, {}) ELSE storage_refs
  /\ UNCHANGED <<block, index, big_state, state, roots, pending, scratch, account_refs, phase>>

\* One slot, in the order of the hash map: what becomes zero is deleted from
\* the clone at once, anything else only looked up.
TouchSlot(s) ==
  /\ phase = "touch"
  /\ s \in slots
  /\ LET trie   == scratch.storage_tries[current]
         zero   == StorageDiff(PostState, current).storage[s] = NoValue
         answer == Delete(trie, s)
     IN  IF zero
           THEN /\ phase' = IF answer.result \in {"true", "false"} THEN phase ELSE "panic"
                /\ scratch' = [scratch EXCEPT !.storage_tries[current] = answer.trie]
                /\ storage_refs' = [storage_refs EXCEPT ![current] =
                                      @ \union DeleteTouched(trie, s)]
           ELSE /\ storage_refs' = [storage_refs EXCEPT ![current] = @ \union GetTouched(trie, s)]
                /\ UNCHANGED <<phase, scratch>>
  /\ slots' = slots \ {s}
  /\ UNCHANGED <<block, index, big_state, state, roots, pending, current, account_refs>>

\* Then the account itself; one that is not deleted and has no storage trie is
\* left to touched_state.
TouchAccount ==
  /\ phase = "touch"
  /\ current # NoAddress
  /\ slots = {}
  /\ LET answer == Delete(scratch.state_trie, current)
     IN  IF Some(PostState, current)
           THEN /\ account_refs' = account_refs \union
                     (IF current \in DOMAIN scratch.storage_tries
                        THEN GetTouched(scratch.state_trie, current) ELSE {})
                /\ UNCHANGED <<phase, scratch>>
           ELSE /\ phase' = IF answer.result \in {"true", "false"} THEN phase ELSE "panic"
                /\ account_refs' = account_refs \union DeleteTouched(scratch.state_trie, current)
                /\ scratch' = [scratch EXCEPT !.state_trie = answer.trie]
  /\ pending' = pending \ {current}
  /\ current' = NoAddress
  /\ UNCHANGED <<block, index, big_state, state, roots, slots, storage_refs>>

\* touched_state: the keys the subblock used or modified.
TouchedState ==
  LET requests == block.subblocks[index].requests
  IN  [a \in DOMAIN requests |-> requests[a] \union Modified(PostState, a)]

\* Faulty: only the accounts of the diff.
ReadAccountRefs_DiffOnly == account_refs

\* The second loop of get_touched_nodes, over touched_state.
ReadAccountRefs ==
  account_refs \union UNION {GetTouched(scratch.state_trie, a) : a \in DOMAIN TouchedState}

ReadStorageRefs ==
  LET read(a) == UNION {GetTouched(scratch.storage_tries[a], s) : s \in TouchedState[a]}
      touched == {a \in DOMAIN TouchedState :
                    a \in DOMAIN scratch.storage_tries /\ TouchedState[a] # {}}
  IN  [a \in DOMAIN storage_refs \union touched |->
         (IF a \in DOMAIN storage_refs THEN storage_refs[a] ELSE {})
           \union (IF a \in touched THEN read(a) ELSE {})]

\* Storage tries without marks are not pruned.
Pruned(s, touched_account_refs, touched_storage_refs) ==
  [state_trie    |-> Prune(s.state_trie, touched_account_refs),
   storage_tries |->
     [a \in DOMAIN s.storage_tries |->
        IF a \in DOMAIN touched_storage_refs
          THEN Prune(s.storage_tries[a], touched_storage_refs[a])
          ELSE s.storage_tries[a]]]

\* The assertions of prune(): the roots are what they were.
SameRoots(s, t) ==
  /\ Hash(s.state_trie) = Hash(t.state_trie)
  /\ \A a \in DOMAIN s.storage_tries : Hash(s.storage_tries[a]) = Hash(t.storage_tries[a])

\* A state as the client reads it back from the bytes it is given.
Sent(s) ==
  [state_trie    |-> Serialized(s.state_trie),
   storage_tries |-> [a \in DOMAIN s.storage_tries |-> Serialized(s.storage_tries[a])]]

\* prune() ends, and the state goes to the client.
PruneState ==
  /\ phase = "touch"
  /\ current = NoAddress
  /\ pending = {}
  /\ LET pruned == Pruned(state, ReadAccountRefs, ReadStorageRefs)
     IN  /\ state' = Sent(pruned)
         /\ phase' = IF SameRoots(pruned, state) THEN "client" ELSE "panic"
  /\ pending' = Retained(PostState)
  /\ UNCHANGED <<block, index, big_state, roots, current, slots, refs>>

-----------------------------------------------------------------------------
Updating == phase \in {"verify", "client", "host"}

\* update: the accounts in the order of the hash map; entry().or_default().
UpdateNext ==
  /\ Updating
  /\ current = NoAddress
  /\ \E a \in pending :
       /\ current' = a
       /\ slots' = IF Some(PostState, a) THEN Modified(PostState, a) ELSE {}
       /\ state' =
            IF ~Some(PostState, a) THEN state
            ELSE [state EXCEPT !.storage_tries =
                    Entry(@, a, IF StorageDiff(PostState, a).wiped \/ a \notin DOMAIN @
                                  THEN Null ELSE @[a])]
  /\ UNCHANGED <<block, index, big_state, roots, pending, refs, phase>>

UpdateSlot(s) ==
  /\ Updating
  /\ s \in slots
  /\ LET trie   == state.storage_tries[current]
         value  == StorageDiff(PostState, current).storage[s]
         answer == IF value = NoValue THEN Delete(trie, s) ELSE Insert(trie, s, value)
     IN  /\ state' = [state EXCEPT !.storage_tries[current] = answer.trie]
         /\ phase' = IF answer.result \in {"true", "false"} THEN phase ELSE "panic"
  /\ slots' = slots \ {s}
  /\ UNCHANGED <<block, index, big_state, roots, pending, current, refs>>

\* storage_trie.hash() and the account; a deleted account's storage trie stays.
UpdateAccount ==
  /\ Updating
  /\ current # NoAddress
  /\ slots = {}
  /\ LET account == [info         |-> PostState.accounts[current],
                     storage_root |-> Hash(state.storage_tries[current])]
         answer  == IF Some(PostState, current) THEN Insert(state.state_trie, current, account)
                                           ELSE Delete(state.state_trie, current)
     IN  /\ state' = Hashed([state EXCEPT !.state_trie = answer.trie])
         /\ phase' = IF answer.result \in {"true", "false"} THEN phase ELSE "panic"
  /\ pending' = pending \ {current}
  /\ current' = NoAddress
  /\ UNCHANGED <<block, index, big_state, roots, slots, refs>>

Updated == current = NoAddress /\ pending = {}

\* The next subblock's round of the roots loop, from the state s.
StartRound(next, s) ==
  /\ index' = next
  /\ state' = s
  /\ scratch' = s
  /\ account_refs' = {}
  /\ storage_refs' = << >>
  /\ pending' = DOMAIN block.subblocks[next].post.accounts
  /\ phase' = "touch"

HeaderRoot == WorldRoot(NewWorld(block))

\* The root of mutated_state is compared with the header's.
VerifyStateRoot ==
  /\ phase = "verify"
  /\ Updated
  /\ ~block.whole
  /\ IF Hash(state.state_trie) = HeaderRoot
       THEN StartRound(1, big_state)
       ELSE /\ phase' = "mismatch"
            /\ UNCHANGED <<index, state, refs, pending>>
  /\ UNCHANGED <<block, big_state, roots, current, slots>>

\* execute_variant ends likewise, and the client begins with witness_db.
VerifyWholeBlock ==
  /\ phase = "verify"
  /\ Updated
  /\ block.whole
  /\ phase' = IF /\ Hash(state.state_trie) = HeaderRoot
                 /\ Anchored(Sent(big_state), WorldRoot(block.world))
                THEN "client" ELSE "mismatch"
  /\ state' = IF phase' = "client" THEN Sent(big_state) ELSE state
  /\ pending' = Retained(PostState)
  /\ UNCHANGED <<block, index, big_state, roots, current, slots, refs>>

\* execute_subblock returns its root; the host applies the diff to big_state.
FinishClient ==
  /\ phase = "client"
  /\ Updated
  /\ ~block.whole
  /\ roots' = <<Hash(state.state_trie)>>
  /\ state' = big_state
  /\ pending' = Retained(PostState)
  /\ phase' = "host"
  /\ UNCHANGED <<block, index, big_state, current, slots, refs>>

\* ClientExecutor::execute compares its root with the header's.
FinishWholeBlock ==
  /\ phase = "client"
  /\ Updated
  /\ block.whole
  /\ roots' = <<Hash(state.state_trie)>>
  /\ phase' = IF Hash(state.state_trie) = HeaderRoot THEN "done" ELSE "mismatch"
  /\ UNCHANGED <<block, index, big_state, state, pending, current, slots, refs>>

\* Faulty: the next subblock starts from the parent state again.
FinishHost_Reset ==
  /\ phase = "host"
  /\ Updated
  /\ roots' = Append(roots, Hash(state.state_trie))
  /\ IF index < Len(block.subblocks)
       THEN StartRound(index + 1, big_state)
       ELSE /\ phase' = "done"
            /\ UNCHANGED <<index, state, refs, pending>>
  /\ UNCHANGED <<block, big_state, current, slots>>

FinishHost ==
  /\ phase = "host"
  /\ Updated
  /\ roots' = Append(roots, Hash(state.state_trie))
  /\ big_state' = state
  /\ IF index < Len(block.subblocks)
       THEN StartRound(index + 1, state)
       ELSE /\ phase' = "done"
            /\ UNCHANGED <<index, state, refs, pending>>
  /\ UNCHANGED <<block, current, slots>>

StateNext ==
  \/ TouchNext
  \/ \E s \in slots : TouchSlot(s)
  \/ TouchAccount
  \/ PruneState
  \/ UpdateNext
  \/ \E s \in slots : UpdateSlot(s)
  \/ UpdateAccount
  \/ VerifyStateRoot
  \/ VerifyWholeBlock
  \/ FinishClient
  \/ FinishWholeBlock
  \/ FinishHost

StateSpec == StateInit /\ [][StateNext]_stateVars

-----------------------------------------------------------------------------
\* What TrieDB answers for a slot.
ReadSlot(a, s) == Get(state.storage_tries[a], s)

InfoOf(account) == IF account = NoValue THEN NoValue ELSE account.info

(***************************************************************************)
(* The tries the host builds, and the parts of them it sends to a client,  *)
(* are enough: in whatever order the hash maps are walked through, and     *)
(* whatever the earlier subblocks did to the tries, no operation of host   *)
(* or client meets a truncated node.                                       *)
(***************************************************************************)
PrunedStateSuffices == phase # "panic"

(***************************************************************************)
(* A valid block is verified: whatever the block deletes and inserts, the  *)
(* proofs taken before and after it hold the nodes that become orphans, so *)
(* that the root of the parent state with the block's diff is the header's *)
(* (no StateRootMismatch, no FromProofError, in host or client).           *)
(***************************************************************************)
ValidBlockVerified == phase # "mismatch"

(***************************************************************************)
(* The root of a subblock that the host computes from its own tries is the *)
(* one the client computes from the pruned copy: the proofs of the         *)
(* subblocks chain, although the host put roots into the outputs that no   *)
(* client computed.                                                        *)
(***************************************************************************)
ClientRootIsHosts == Len(roots) = 2 => roots[1] = roots[2]

(***************************************************************************)
(* And the last root is the header's: applying the diffs one by one, each  *)
(* in an order of its own, ends where applying their sum did, also where a *)
(* slot or an account that one subblock deletes is back in a later one.    *)
(***************************************************************************)
OutputRootTrue == phase = "done" => \A i \in DOMAIN roots : roots[i] = HeaderRoot

(***************************************************************************)
(* The client reads from the pruned state what the host read from the      *)
(* database: every account and slot the subblock requested has the value   *)
(* the earlier subblocks left.                                             *)
(***************************************************************************)
ClientReadsTrue ==
  (phase = "client" /\ index > 0 /\ pending = Retained(PostState) /\ current = NoAddress) =>
    LET w == WorldBehind(block, index - 1)
    IN  \A a \in DOMAIN TouchedState :
          /\ InfoOf(Get(state.state_trie, a)) = InfoOf(w[a])
          /\ \A s \in TouchedState[a] :
               w[a] # NoValue =>
                 a \in DOMAIN state.storage_tries /\ ReadSlot(a, s) = SlotValue(w[a], s)

(***************************************************************************)
(* The doc of EthereumState::update, "Mutates state based on diffs", where *)
(* a witness omits the storage trie of an account "when that account's     *)
(* storage was NOT touched during the block": an account whose storage is  *)
(* not in the diff keeps its storage root.                                 *)
(***************************************************************************)
UntouchedStorageKept ==
  (Updating /\ Updated) =>
    \A a \in DOMAIN PostState.accounts :
      (Some(PostState, a) /\ block.world[a] # NoValue /\ a \notin DOMAIN PostState.storages) =>
        Get(state.state_trie, a).storage_root = Root(block.world[a].storage)

(***************************************************************************)
(* The doc of SubblockOutput::output_state_root, "The new state root after *)
(* executing this subblock": it is the root of the world behind the        *)
(* subblock, for every subblock of the block.                              *)
(***************************************************************************)
IntermediateRootsTrue ==
  phase = "host" => roots[1] = WorldRoot(WorldBehind(block, index))
=============================================================================

--------------------------------- MODULE RpcDb ---------------------------------
(***************************************************************************)
(* The database the host executes a block against: a stack of layers over  *)
(* the state of the parent block.  persistent_data holds what the earlier  *)
(* subblocks wrote, cache_data what was fetched from the provider (it is   *)
(* kept in a file for replay), subblock_data what the current subblock     *)
(* read: the state requests of its input are taken from it.  In the        *)
(* witness variant cache_data stands for full_state, the tries of the      *)
(* execution witness: it is complete from the start.                       *)
(*                                                                         *)
(* A slot is a pair <<account, slot>>.  `truth` is the state every read    *)
(* ought to see: the parent's, changed by the diffs of the subblocks done. *)
(***************************************************************************)
EXTENDS Integers, Sequences

CONSTANTS
  Accounts,
  Slots,
  Infos,          \* balance, nonce and code of an account
  Empty,          \* AccountInfo::default()
  Values,
  Zero,
  Parent,         \* the number of the parent block
  Lookback,       \* BLOCKHASH reaches this many blocks back
  MaxSubblocks,   \* bound: subblocks of a run
  MaxRuns,        \* bound: times the host is started
  EIP6780         \* only an account without storage can be destroyed

ASSUME EmptyAssumption == Empty \in Infos /\ Zero \in Values
ASSUME ForkAssumption == EIP6780 \in BOOLEAN
ASSUME HeightAssumption == Parent \in Nat /\ Lookback \in 0..Parent
ASSUME BoundAssumption == MaxSubblocks \in Nat /\ MaxRuns \in Nat

VARIABLES
  variant,
  parent, truth,
  persistent_data, cache_data, subblock_data,
  oldest_ancestor,
  file,
  all_state_requests,
  phase, runs,
  reads,          \* history: what the current subblock read
  asked,          \* history: the block hashes the run asked for
  fetched         \* history: what the run read past persistent_data

rpcVars == <<variant, parent, truth, persistent_data, cache_data, subblock_data,
             oldest_ancestor, file, all_state_requests, phase, runs, reads, asked, fetched>>

Cells == Accounts \X Slots

\* The maps from a part of S to T.
PartialFunctions(S, T) == UNION {[D -> T] : D \in SUBSET S}

Layer == [accounts : PartialFunctions(Accounts, Infos), storage : PartialFunctions(Cells, Values)]

\* The states of a block: an account that does not exist has no storage.
Full ==
  {state \in [accounts : [Accounts -> Infos], storage : [Cells -> Values]] :
     \A c \in Cells : state.accounts[c[1]] = Empty => state.storage[c] = Zero}

Nothing == [accounts |-> [a \in {} |-> Empty], storage |-> [c \in {} |-> Zero]]

Put(f, k, v) == [x \in DOMAIN f \cup {k} |-> IF x = k THEN v ELSE f[x]]

\* g written over f.
Override(f, g) == [x \in DOMAIN f \cup DOMAIN g |-> IF x \in DOMAIN g THEN g[x] ELSE f[x]]

\* The keys of a layer.
Keys(layer) == [accounts |-> DOMAIN layer.accounts, storage |-> DOMAIN layer.storage]

NoKeys == [accounts |-> {}, storage |-> {}]

Covers(keys, some) == some.accounts \subseteq keys.accounts /\ some.storage \subseteq keys.storage

-----------------------------------------------------------------------------

\* load_serde_data: a missing file and one cut short by a crash both give nothing.
LoadFile == IF file.state = "whole" THEN file.data ELSE Nothing

\* store_serde_data: the file is truncated, then written; a crash in between leaves it torn.
StoreFile(data) == file' = [state |-> "whole", data |-> data]
TearFile == file' = [state |-> "torn", data |-> Nothing]

RpcInit ==
  /\ variant \in {"basic", "witness"}
  /\ parent \in Full
  /\ truth = parent
  /\ persistent_data = Nothing
  /\ cache_data = Nothing
  /\ subblock_data = Nothing
  /\ oldest_ancestor = Parent
  /\ file = [state |-> "none", data |-> Nothing]
  /\ all_state_requests = << >>
  /\ phase = "down"
  /\ runs = 0
  /\ reads = NoKeys /\ asked = {} /\ fetched = NoKeys

\* The host is not running: its memory is gone, the file stays.
Down ==
  /\ truth' = parent
  /\ persistent_data' = Nothing
  /\ cache_data' = Nothing
  /\ subblock_data' = Nothing
  /\ oldest_ancestor' = Parent
  /\ all_state_requests' = << >>
  /\ phase' = "down"
  /\ reads' = NoKeys /\ asked' = {} /\ fetched' = NoKeys
  /\ UNCHANGED <<variant, parent>>

\* The host starts: a new database, over what the file holds.
StartRun(data) ==
  /\ phase = "down" /\ runs < MaxRuns
  /\ runs' = runs + 1
  /\ cache_data' = data
  /\ phase' = "executing"
  /\ UNCHANGED <<variant, parent, truth, persistent_data, subblock_data, oldest_ancestor,
                 all_state_requests, reads, asked, fetched>>

NewBasic ==
  /\ variant = "basic"
  /\ StartRun(LoadFile)
  /\ UNCHANGED file

\* The witness variant asks for the witness unless the file has it, and stores it at once.
NewWitness ==
  /\ variant = "witness"
  /\ StartRun(IF file.state = "whole" THEN file.data ELSE parent)
  /\ IF file.state = "whole" THEN UNCHANGED file ELSE StoreFile(parent)

\* The provider does not answer, an error ends the run, or the host is killed.
Stop ==
  /\ phase # "down"
  /\ Down
  /\ UNCHANGED <<file, runs>>

\* Faulty: the cache before the persistent layer.
Lookup_CacheFirst(persistent, cached, provider, k) ==
  IF k \in DOMAIN cached THEN cached[k]
  ELSE IF k \in DOMAIN persistent THEN persistent[k]
  ELSE provider[k]

\* Where a read finds its value; the last resort is the provider, or the witness.
Lookup(persistent, cached, provider, k) ==
  IF k \in DOMAIN persistent THEN persistent[k]
  ELSE IF k \in DOMAIN cached THEN cached[k]
  ELSE provider[k]

\* fetch_account_info, and basic_ref of the witness variant.
FetchAccountInfo(a) ==
  LET persistent == a \in DOMAIN persistent_data.accounts
      cached == a \in DOMAIN cache_data.accounts
      info == Lookup(persistent_data.accounts, cache_data.accounts, parent.accounts, a)
  IN /\ phase = "executing"
     /\ subblock_data' = [subblock_data EXCEPT !.accounts = Put(@, a, info)]
     /\ cache_data' = IF persistent \/ cached THEN cache_data
                      ELSE [cache_data EXCEPT !.accounts = Put(@, a, info)]
     /\ reads' = [reads EXCEPT !.accounts = @ \cup {a}]
     /\ fetched' = IF persistent THEN fetched
                   ELSE [fetched EXCEPT !.accounts = @ \cup {a}]
     /\ UNCHANGED <<variant, parent, truth, persistent_data, oldest_ancestor, file,
                    all_state_requests, phase, runs, asked>>

\* fetch_storage_at, and storage_ref of the witness variant.  The executor reads the slots
\* of an account whose code it runs.
FetchStorageAt(c) ==
  LET persistent == c \in DOMAIN persistent_data.storage
      cached == c \in DOMAIN cache_data.storage
      value == Lookup(persistent_data.storage, cache_data.storage, parent.storage, c)
  IN /\ phase = "executing"
     /\ c[1] \in reads.accounts /\ truth.accounts[c[1]] # Empty
     /\ subblock_data' = [subblock_data EXCEPT !.storage = Put(@, c, value)]
     /\ cache_data' = IF persistent \/ cached THEN cache_data
                      ELSE [cache_data EXCEPT !.storage = Put(@, c, value)]
     /\ reads' = [reads EXCEPT !.storage = @ \cup {c}]
     /\ fetched' = IF persistent THEN fetched
                   ELSE [fetched EXCEPT !.storage = @ \cup {c}]
     /\ UNCHANGED <<variant, parent, truth, persistent_data, oldest_ancestor, file,
                    all_state_requests, phase, runs, asked>>

\* fetch_block_hash with the ancestor it leaves as the oldest.
FetchBlockHashWith(number, oldest) ==
  /\ phase = "executing" /\ variant = "basic"
  /\ oldest_ancestor' = oldest
  /\ asked' = asked \cup {number}
  /\ UNCHANGED <<variant, parent, truth, persistent_data, cache_data, subblock_data, file,
                 all_state_requests, phase, runs, reads, fetched>>

\* Faulty: the number asked for last.
FetchBlockHash_Last(number) == FetchBlockHashWith(number, number)

\* Faulty: one block too far.
FetchBlockHash_Below(number) == FetchBlockHashWith(number, number - 1)

\* fetch_block_hash.
FetchBlockHash(number) ==
  /\ phase = "executing" /\ variant = "basic"
  /\ oldest_ancestor' = IF number < oldest_ancestor THEN number ELSE oldest_ancestor
  /\ asked' = asked \cup {number}
  /\ UNCHANGED <<variant, parent, truth, persistent_data, cache_data, subblock_data, file,
                 all_state_requests, phase, runs, reads, fetched>>

-----------------------------------------------------------------------------

\* External: the bundle state a subblock can leave.  It names accounts that were read,
\* and the slots that were read or that belong to an account that was destroyed (and
\* perhaps created again).  An account without info is destroyed.
Bundle ==
  {d \in [info : PartialFunctions(reads.accounts, Infos),
          destroyed : SUBSET reads.accounts,
          storage : PartialFunctions(Cells, Values)] :
     /\ d.destroyed \subseteq DOMAIN d.info
     /\ \A c \in DOMAIN d.storage :
          /\ c[1] \in DOMAIN d.info /\ d.info[c[1]] # Empty
          /\ c \in reads.storage \/ c[1] \in d.destroyed
     /\ \A a \in DOMAIN d.info : d.info[a] = Empty => a \in d.destroyed \/ truth.accounts[a] = Empty
     /\ EIP6780 => \A a \in d.destroyed, s \in Slots : truth.storage[<<a, s>>] = Zero}

\* External: the state after a bundle.
Applied(state, d) ==
  [accounts |-> Override(state.accounts, d.info),
   storage |-> Override([c \in Cells |-> IF c[1] \in d.destroyed THEN Zero ELSE state.storage[c]],
                        d.storage)]

\* Faulty: the diffs go into the replay cache.
UpdateStateDiffs_Cache(d) ==
  /\ phase = "executing"
  /\ cache_data' = [accounts |-> Override(cache_data.accounts, d.info),
                    storage |-> Override(cache_data.storage, d.storage)]
  /\ truth' = Applied(truth, d)
  /\ phase' = "updated"
  /\ UNCHANGED <<variant, parent, persistent_data, subblock_data, oldest_ancestor, file,
                 all_state_requests, runs, reads, asked, fetched>>

\* update_state_diffs: info None becomes the default info.
UpdateStateDiffs(d) ==
  /\ phase = "executing"
  /\ persistent_data' = [accounts |-> Override(persistent_data.accounts, d.info),
                         storage |-> Override(persistent_data.storage, d.storage)]
  /\ truth' = Applied(truth, d)
  /\ phase' = "updated"
  /\ UNCHANGED <<variant, parent, cache_data, subblock_data, oldest_ancestor, file,
                 all_state_requests, runs, reads, asked, fetched>>

\* Faulty: the addresses without their slots.
StateRequests_NoSlots(layer) ==
  [accounts |-> DOMAIN layer.accounts, storage |-> {},
   bytecodes |-> {layer.accounts[a] : a \in DOMAIN layer.accounts}]

\* The accounts read, with the slots read of each, and the codes of the accounts.
StateRequests(layer) ==
  [accounts |-> DOMAIN layer.accounts \cup {c[1] : c \in DOMAIN layer.storage},
   storage |-> DOMAIN layer.storage,
   bytecodes |-> {layer.accounts[a] : a \in DOMAIN layer.accounts}]

\* state_requests and bytecodes, for the input of the subblock.
CollectRequests ==
  /\ phase = "updated"
  /\ all_state_requests' = Append(all_state_requests, StateRequests(subblock_data))
  /\ phase' = "collected"
  /\ UNCHANGED <<variant, parent, truth, persistent_data, cache_data, subblock_data,
                 oldest_ancestor, file, runs, reads, asked, fetched>>

\* advance_subblock; the loop ends with the transactions.
AdvanceSubblock ==
  /\ phase = "collected"
  /\ subblock_data' = Nothing
  /\ reads' = NoKeys
  /\ phase' \in (IF Len(all_state_requests) < MaxSubblocks THEN {"executing", "finished"}
                                                          ELSE {"finished"})
  /\ UNCHANGED <<variant, parent, truth, persistent_data, cache_data, oldest_ancestor, file,
                 all_state_requests, runs, asked, fetched>>

\* Faulty: what the last subblock read is stored.
StoreCache_Subblock ==
  /\ phase = "finished"
  /\ IF variant = "basic" THEN StoreFile(subblock_data) ELSE UNCHANGED file
  /\ phase' = "stored"
  /\ UNCHANGED <<variant, parent, truth, persistent_data, cache_data, subblock_data,
                 oldest_ancestor, all_state_requests, runs, reads, asked, fetched>>

\* store_cache; nothing in the witness variant.
StoreCache ==
  /\ phase = "finished"
  /\ IF variant = "basic" THEN StoreFile(cache_data) ELSE UNCHANGED file
  /\ phase' = "stored"
  /\ UNCHANGED <<variant, parent, truth, persistent_data, cache_data, subblock_data,
                 oldest_ancestor, all_state_requests, runs, reads, asked, fetched>>

\* The host is killed while it writes the file.
CrashStoring ==
  /\ \/ variant = "basic" /\ phase = "finished" /\ UNCHANGED runs
     \/ variant = "witness" /\ phase = "down" /\ file.state # "whole" /\ runs < MaxRuns
        /\ runs' = runs + 1
  /\ TearFile
  /\ Down

RpcNext ==
  \/ NewBasic \/ NewWitness \/ Stop
  \/ \E a \in Accounts : FetchAccountInfo(a)
  \/ \E c \in Cells : FetchStorageAt(c)
  \/ \E number \in Parent - Lookback .. Parent : FetchBlockHash(number)
  \/ \E d \in Bundle : UpdateStateDiffs(d)
  \/ CollectRequests \/ AdvanceSubblock \/ StoreCache \/ CrashStoring

RpcSpec == RpcInit /\ [][RpcNext]_rpcVars

-----------------------------------------------------------------------------

\* The types of the state.
RpcTypeOK ==
  /\ variant \in {"basic", "witness"}
  /\ parent \in Full /\ truth \in Full
  /\ persistent_data \in Layer /\ cache_data \in Layer /\ subblock_data \in Layer
  /\ oldest_ancestor \in 0..Parent
  /\ file \in [state : {"none", "torn", "whole"}, data : Layer]
  /\ all_state_requests \in Seq([accounts : SUBSET Accounts, storage : SUBSET Cells,
                                 bytecodes : SUBSET Infos])
  /\ phase \in {"down", "executing", "updated", "collected", "finished", "stored"}
  /\ runs \in 0..MaxRuns
  /\ reads \in [accounts : SUBSET Accounts, storage : SUBSET Cells]
  /\ fetched \in [accounts : SUBSET Accounts, storage : SUBSET Cells]
  /\ asked \subseteq 0..Parent

\* A layer holds nothing but values of the state.
Agrees(layer, state) ==
  /\ \A a \in DOMAIN layer.accounts : layer.accounts[a] = state.accounts[a]
  /\ \A c \in DOMAIN layer.storage : layer.storage[c] = state.storage[c]

\* Every account and slot a subblock reads (fetch_account_info, fetch_storage_at) has the
\* value the earlier subblocks of this run left, wherever the layers found it: "the next
\* subblock will see the state changes from the current subblock".
ReadsAreCurrent == phase = "executing" => Agrees(subblock_data, truth)

\* Whatever is written by update_state_diffs, however often the host is killed and started
\* again, the replay cache and its file hold only the state of the parent block: a replay
\* starts from the state the first run started from.
CacheIsParent == Agrees(cache_data, parent) /\ Agrees(file.data, parent)

\* The requests and bytecodes collected for a subblock (state_requests, bytecodes) name every
\* account, slot and code it read, also those that came from an earlier subblock's diff and
\* were never fetched: the client finds them in its pruned state.
RequestsCoverReads ==
  phase = "collected" =>
    LET requests == all_state_requests[Len(all_state_requests)]
    IN /\ Covers(requests, reads)
       /\ \A a \in reads.accounts : subblock_data.accounts[a] \in requests.bytecodes

\* Once the cache is stored, the file answers everything the run read of the parent block: a
\* replay of the block asks the provider for no account and no slot.
ReplayNeedsNoProvider == phase = "stored" => Covers(Keys(file.data), fetched)

\* Every block hash any subblock asked for (fetch_block_hash) is among the ancestors from
\* oldest_ancestor to the parent, which every subblock's input gets.
AncestorsCoverHashes == asked \subseteq oldest_ancestor .. Parent
=============================================================================

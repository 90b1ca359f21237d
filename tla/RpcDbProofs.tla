------------------------------ MODULE RpcDbProofs ------------------------------
(***************************************************************************)
(* What the layers of the host's database guarantee for every set of       *)
(* accounts and slots, every number of subblocks and every number of runs. *)
(*                                                                         *)
(* The invariant behind the reads is Layered: the persistent layer over    *)
(* the parent's state is the state the reads ought to see.  It needs the   *)
(* rule that an account with storage is never destroyed (EIP6780).         *)
(***************************************************************************)
EXTENDS RpcDb, TLAPS

\* persistent_data written over the parent's state is the current state.
Layered ==
  /\ \A a \in Accounts :
       truth.accounts[a] = IF a \in DOMAIN persistent_data.accounts
                             THEN persistent_data.accounts[a] ELSE parent.accounts[a]
  /\ \A c \in Cells :
       truth.storage[c] = IF c \in DOMAIN persistent_data.storage
                            THEN persistent_data.storage[c] ELSE parent.storage[c]

\* The inductive invariant.
RpcInv ==
  /\ RpcTypeOK
  /\ CacheIsParent
  /\ EIP6780 => Layered /\ ReadsAreCurrent
  /\ Covers(Keys(subblock_data), reads)
  /\ Covers(Keys(cache_data), fetched)
  /\ RequestsCoverReads
  /\ phase = "collected" => Len(all_state_requests) > 0
  /\ ReplayNeedsNoProvider
  /\ AncestorsCoverHashes

\* A partial function is one defined on a part of S.
LEMMA PartialFunction ==
  ASSUME NEW S, NEW T, NEW f
  PROVE  f \in PartialFunctions(S, T)
           <=> DOMAIN f \subseteq S /\ f = [x \in DOMAIN f |-> f[x]] /\ \A x \in DOMAIN f : f[x] \in T
<1>1. ASSUME f \in PartialFunctions(S, T)
      PROVE  DOMAIN f \subseteq S /\ f = [x \in DOMAIN f |-> f[x]] /\ \A x \in DOMAIN f : f[x] \in T
  <2>1. PICK D \in SUBSET S : f \in [D -> T]
    BY <1>1 DEF PartialFunctions
  <2> QED  BY <2>1
<1>2. ASSUME DOMAIN f \subseteq S, f = [x \in DOMAIN f |-> f[x]], \A x \in DOMAIN f : f[x] \in T
      PROVE  f \in PartialFunctions(S, T)
  <2>1. f \in [DOMAIN f -> T]
    BY <1>2
  <2> QED  BY <2>1, <1>2 DEF PartialFunctions
<1> QED  BY <1>1, <1>2

\* Put stays a partial function.
LEMMA PutPartial ==
  ASSUME NEW S, NEW T, NEW f \in PartialFunctions(S, T), NEW k \in S, NEW v \in T
  PROVE  Put(f, k, v) \in PartialFunctions(S, T)
<1>1. DOMAIN f \subseteq S /\ \A x \in DOMAIN f : f[x] \in T
  BY PartialFunction
<1>2. DOMAIN Put(f, k, v) = DOMAIN f \cup {k}
  BY DEF Put
<1>3. Put(f, k, v) \in [DOMAIN f \cup {k} -> T]
  BY <1>1 DEF Put
<1> QED  BY <1>1, <1>3 DEF PartialFunctions

\* Override stays a partial function.
LEMMA OverridePartial ==
  ASSUME NEW S, NEW T, NEW f \in PartialFunctions(S, T), NEW g \in PartialFunctions(S, T)
  PROVE  Override(f, g) \in PartialFunctions(S, T)
<1>1. DOMAIN f \subseteq S /\ \A x \in DOMAIN f : f[x] \in T
  BY PartialFunction
<1>2. DOMAIN g \subseteq S /\ \A x \in DOMAIN g : g[x] \in T
  BY PartialFunction
<1>3. Override(f, g) \in [DOMAIN f \cup DOMAIN g -> T]
  BY <1>1, <1>2 DEF Override
<1> QED  BY <1>1, <1>2, <1>3 DEF PartialFunctions

\* The empty layer is a layer without keys.
LEMMA NothingLayer == Nothing \in Layer /\ Keys(Nothing) = NoKeys
<1>1. [a \in {} |-> Empty] \in [{} -> Infos] /\ [c \in {} |-> Zero] \in [{} -> Values]
  OBVIOUS
<1>2. [a \in {} |-> Empty] \in PartialFunctions(Accounts, Infos)
  BY <1>1 DEF PartialFunctions
<1>3. [c \in {} |-> Zero] \in PartialFunctions(Cells, Values)
  BY <1>1 DEF PartialFunctions
<1> QED  BY <1>2, <1>3 DEF Nothing, Layer, Keys, NoKeys

\* The state of a block is a layer that has every account and slot.
LEMMA FullLayer ==
  ASSUME NEW state \in Full
  PROVE  /\ state \in Layer
         /\ state.accounts \in [Accounts -> Infos]
         /\ state.storage \in [Cells -> Values]
         /\ state = [accounts |-> state.accounts, storage |-> state.storage]
<1>1. state \in [accounts : [Accounts -> Infos], storage : [Cells -> Values]]
  BY DEF Full
<1>2. state.accounts \in PartialFunctions(Accounts, Infos) /\ state.storage \in PartialFunctions(Cells, Values)
  BY <1>1 DEF PartialFunctions
<1> QED  BY <1>1, <1>2 DEF Layer

\* Nothing agrees with every state.
LEMMA NothingAgrees == ASSUME NEW state PROVE Agrees(Nothing, state)
BY DEF Agrees, Nothing

\* The invariant holds before the first run.
LEMMA InitInv == RpcInit => RpcInv
<1> SUFFICES ASSUME RpcInit PROVE RpcInv
  OBVIOUS
<1> USE NothingLayer DEF RpcInit
<1>1. RpcTypeOK
  BY EmptyAssumption, HeightAssumption, BoundAssumption DEF RpcTypeOK, NoKeys
<1>2. CacheIsParent
  BY NothingAgrees DEF CacheIsParent
<1>3. Layered /\ ReadsAreCurrent
  BY DEF Layered, ReadsAreCurrent, Nothing
<1> QED
  BY <1>1, <1>2, <1>3 DEF RpcInv, Covers, NoKeys, RequestsCoverReads, ReplayNeedsNoProvider, AncestorsCoverHashes

\* The end of a run, with the file kept or torn, preserves the invariant.
LEMMA DownStep ==
  ASSUME RpcInv, Down, file' = file \/ TearFile, runs' \in 0..MaxRuns
  PROVE  RpcInv'
<1> USE NothingLayer DEF Down, RpcInv
<1>1. file' \in [state : {"none", "torn", "whole"}, data : Layer] /\ Agrees(file.data, parent)'
  <2>1. Agrees(file.data, parent) /\ Agrees(Nothing, parent)
    BY NothingAgrees DEF CacheIsParent
  <2> QED  BY <2>1 DEF RpcTypeOK, TearFile
<1>2. RpcTypeOK'
  BY <1>1, HeightAssumption DEF RpcTypeOK, NoKeys
<1>3. CacheIsParent'
  BY <1>1, NothingAgrees DEF CacheIsParent
<1>4. Layered' /\ ReadsAreCurrent'
  BY DEF Layered, ReadsAreCurrent, Nothing
<1> QED
  BY <1>2, <1>3, <1>4 DEF Covers, NoKeys, RequestsCoverReads, ReplayNeedsNoProvider, AncestorsCoverHashes

\* While the host is down its memory is that of a new database.
Fresh ==
  phase = "down" =>
    /\ truth = parent
    /\ persistent_data = Nothing /\ subblock_data = Nothing
    /\ reads = NoKeys /\ fetched = NoKeys /\ asked = {}

\* In the witness variant the file is the whole witness, and a run has it.
Witnessed ==
  variant = "witness" =>
    /\ file.state = "whole" => file.data = parent
    /\ phase # "down" => file.state = "whole"

\* A host that is down has no memory, and a witness run has its file.
LEMMA FreshInvariant == RpcSpec => [](Fresh /\ Witnessed)
<1>1. RpcInit => Fresh /\ Witnessed
  BY DEF RpcInit, Fresh, Witnessed
<1>2. Fresh /\ Witnessed /\ [RpcNext]_rpcVars => Fresh' /\ Witnessed'
  BY DEF Fresh, Witnessed, StoreFile, TearFile, RpcNext, rpcVars, NewBasic, NewWitness, StartRun, Stop, Down, FetchAccountInfo, FetchStorageAt,
         FetchBlockHash, UpdateStateDiffs, CollectRequests, AdvanceSubblock, StoreCache, CrashStoring
<1> QED
  BY <1>1, <1>2, PTL DEF RpcSpec

\* A run starts over a file that holds parts of the parent's state.
LEMMA StartStep ==
  ASSUME RpcInv, Fresh, NEW data \in Layer, Agrees(data, parent), StartRun(data),
         file' = file \/ StoreFile(parent)
  PROVE  RpcInv'
<1> USE NothingLayer DEF StartRun, RpcInv
<1>1. file' \in [state : {"none", "torn", "whole"}, data : Layer] /\ Agrees(file.data, parent)'
  <2>1. parent \in Layer /\ Agrees(parent, parent)
    BY FullLayer DEF RpcTypeOK, Agrees
  <2> QED  BY <2>1 DEF RpcTypeOK, StoreFile, CacheIsParent
<1>2. RpcTypeOK'
  BY <1>1, BoundAssumption DEF RpcTypeOK
<1>3. CacheIsParent'
  BY <1>1 DEF CacheIsParent
<1>4. Layered' /\ ReadsAreCurrent'
  <2>1. truth' = parent' /\ persistent_data' = Nothing /\ subblock_data' = Nothing
    BY DEF Fresh
  <2> QED  BY <2>1, NothingAgrees DEF Layered, ReadsAreCurrent, Nothing
<1>5. reads' = NoKeys /\ fetched' = NoKeys /\ asked' = {}
  BY DEF Fresh
<1> QED
  BY <1>2, <1>3, <1>4, <1>5 DEF Covers, NoKeys, RequestsCoverReads, ReplayNeedsNoProvider, AncestorsCoverHashes

\* fetch_account_info preserves the invariant, whichever layer answers.
LEMMA FetchAccountStep ==
  ASSUME RpcInv, NEW a \in Accounts, FetchAccountInfo(a)
  PROVE  RpcInv'
<1> DEFINE persistent == a \in DOMAIN persistent_data.accounts
           cached == a \in DOMAIN cache_data.accounts
           info == IF persistent THEN persistent_data.accounts[a]
                   ELSE IF cached THEN cache_data.accounts[a]
                   ELSE parent.accounts[a]
<1>1. /\ phase = "executing"
      /\ subblock_data' = [subblock_data EXCEPT !.accounts = Put(@, a, info)]
      /\ cache_data' = IF persistent \/ cached THEN cache_data
                       ELSE [cache_data EXCEPT !.accounts = Put(@, a, info)]
      /\ reads' = [reads EXCEPT !.accounts = @ \cup {a}]
      /\ fetched' = IF persistent THEN fetched ELSE [fetched EXCEPT !.accounts = @ \cup {a}]
      /\ UNCHANGED <<variant, parent, truth, persistent_data, oldest_ancestor, file,
                     all_state_requests, phase, runs, asked>>
  BY DEF FetchAccountInfo, Lookup
<1>t. /\ subblock_data \in Layer /\ cache_data \in Layer /\ persistent_data \in Layer
      /\ parent.accounts \in [Accounts -> Infos]
      /\ reads \in [accounts : SUBSET Accounts, storage : SUBSET Cells]
      /\ fetched \in [accounts : SUBSET Accounts, storage : SUBSET Cells]
  BY FullLayer DEF RpcInv, RpcTypeOK
<1>2. info \in Infos
  <2>1. /\ persistent_data.accounts \in PartialFunctions(Accounts, Infos)
        /\ cache_data.accounts \in PartialFunctions(Accounts, Infos)
    BY <1>t DEF Layer
  <2>2. /\ \A x \in DOMAIN persistent_data.accounts : persistent_data.accounts[x] \in Infos
        /\ \A x \in DOMAIN cache_data.accounts : cache_data.accounts[x] \in Infos
    BY <2>1, PartialFunction
  <2> QED  BY <2>2, <1>t
<1>3. subblock_data' \in Layer /\ cache_data' \in Layer
  <2>1. /\ Put(subblock_data.accounts, a, info) \in PartialFunctions(Accounts, Infos)
        /\ Put(cache_data.accounts, a, info) \in PartialFunctions(Accounts, Infos)
    <3> HIDE DEF info
    <3> QED  BY <1>2, <1>t, PutPartial DEF Layer
  <2> QED  BY <2>1, <1>1, <1>t DEF Layer
<1>4. RpcTypeOK'
  BY <1>1, <1>3, <1>t DEF RpcInv, RpcTypeOK
<1>5. EIP6780 => info = truth.accounts[a]
  BY DEF RpcInv, Layered, CacheIsParent, Agrees
<1>6. ~persistent /\ ~cached => info = parent.accounts[a]
  OBVIOUS
<1> HIDE DEF info
<1>7. /\ subblock_data'.accounts = Put(subblock_data.accounts, a, info)
      /\ subblock_data'.storage = subblock_data.storage
  BY <1>1, <1>t DEF Layer
<1>8. /\ cache_data'.accounts = IF persistent \/ cached THEN cache_data.accounts
                                ELSE Put(cache_data.accounts, a, info)
      /\ cache_data'.storage = cache_data.storage
  BY <1>1, <1>t DEF Layer
<1>9. CacheIsParent'
  BY <1>1, <1>8, <1>6 DEF RpcInv, CacheIsParent, Agrees, Put
<1>10. EIP6780 => Layered' /\ ReadsAreCurrent'
  <2>1. EIP6780 => Layered'
    BY <1>1 DEF RpcInv, Layered
  <2>2. EIP6780 => ReadsAreCurrent'
    BY <1>1, <1>5, <1>7 DEF RpcInv, ReadsAreCurrent, Agrees, Put
  <2> QED  BY <2>1, <2>2 DEF RpcTypeOK
<1>11. Covers(Keys(subblock_data), reads)'
  BY <1>1, <1>7, <1>t DEF RpcInv, Covers, Keys, Put
<1>12. Covers(Keys(cache_data), fetched)'
  BY <1>1, <1>8, <1>t DEF RpcInv, Covers, Keys, Put
<1> QED
  BY <1>1, <1>4, <1>9, <1>10, <1>11, <1>12
     DEF RpcInv, RequestsCoverReads, ReplayNeedsNoProvider, AncestorsCoverHashes

\* fetch_storage_at preserves the invariant, whichever layer answers.
LEMMA FetchStorageStep ==
  ASSUME RpcInv, NEW c \in Cells, FetchStorageAt(c)
  PROVE  RpcInv'
<1> DEFINE persistent == c \in DOMAIN persistent_data.storage
           cached == c \in DOMAIN cache_data.storage
           value == IF persistent THEN persistent_data.storage[c]
                    ELSE IF cached THEN cache_data.storage[c]
                    ELSE parent.storage[c]
<1>1. /\ phase = "executing"
      /\ subblock_data' = [subblock_data EXCEPT !.storage = Put(@, c, value)]
      /\ cache_data' = IF persistent \/ cached THEN cache_data
                       ELSE [cache_data EXCEPT !.storage = Put(@, c, value)]
      /\ reads' = [reads EXCEPT !.storage = @ \cup {c}]
      /\ fetched' = IF persistent THEN fetched ELSE [fetched EXCEPT !.storage = @ \cup {c}]
      /\ UNCHANGED <<variant, parent, truth, persistent_data, oldest_ancestor, file,
                     all_state_requests, phase, runs, asked>>
  BY DEF FetchStorageAt, Lookup
<1>t. /\ subblock_data \in Layer /\ cache_data \in Layer /\ persistent_data \in Layer
      /\ parent.storage \in [Cells -> Values]
      /\ reads \in [accounts : SUBSET Accounts, storage : SUBSET Cells]
      /\ fetched \in [accounts : SUBSET Accounts, storage : SUBSET Cells]
  BY FullLayer DEF RpcInv, RpcTypeOK
<1>2. value \in Values
  <2>1. /\ persistent_data.storage \in PartialFunctions(Cells, Values)
        /\ cache_data.storage \in PartialFunctions(Cells, Values)
    BY <1>t DEF Layer
  <2>2. /\ \A x \in DOMAIN persistent_data.storage : persistent_data.storage[x] \in Values
        /\ \A x \in DOMAIN cache_data.storage : cache_data.storage[x] \in Values
    BY <2>1, PartialFunction
  <2> QED  BY <2>2, <1>t
<1>3. subblock_data' \in Layer /\ cache_data' \in Layer
  <2>1. /\ Put(subblock_data.storage, c, value) \in PartialFunctions(Cells, Values)
        /\ Put(cache_data.storage, c, value) \in PartialFunctions(Cells, Values)
    <3> HIDE DEF value
    <3> QED  BY <1>2, <1>t, PutPartial DEF Layer
  <2> QED  BY <2>1, <1>1, <1>t DEF Layer
<1>4. RpcTypeOK'
  BY <1>1, <1>3, <1>t DEF RpcInv, RpcTypeOK
<1>5. EIP6780 => value = truth.storage[c]
  BY DEF RpcInv, Layered, CacheIsParent, Agrees
<1>6. ~persistent /\ ~cached => value = parent.storage[c]
  OBVIOUS
<1> HIDE DEF value
<1>7. /\ subblock_data'.storage = Put(subblock_data.storage, c, value)
      /\ subblock_data'.accounts = subblock_data.accounts
  BY <1>1, <1>t DEF Layer
<1>8. /\ cache_data'.storage = IF persistent \/ cached THEN cache_data.storage
                               ELSE Put(cache_data.storage, c, value)
      /\ cache_data'.accounts = cache_data.accounts
  BY <1>1, <1>t DEF Layer
<1>9. CacheIsParent'
  BY <1>1, <1>8, <1>6 DEF RpcInv, CacheIsParent, Agrees, Put
<1>10. EIP6780 => Layered' /\ ReadsAreCurrent'
  <2>1. EIP6780 => Layered'
    BY <1>1 DEF RpcInv, Layered
  <2>2. EIP6780 => ReadsAreCurrent'
    BY <1>1, <1>5, <1>7 DEF RpcInv, ReadsAreCurrent, Agrees, Put
  <2> QED  BY <2>1, <2>2 DEF RpcTypeOK
<1>11. Covers(Keys(subblock_data), reads)'
  BY <1>1, <1>7, <1>t DEF RpcInv, Covers, Keys, Put
<1>12. Covers(Keys(cache_data), fetched)'
  BY <1>1, <1>8, <1>t DEF RpcInv, Covers, Keys, Put
<1> QED
  BY <1>1, <1>4, <1>9, <1>10, <1>11, <1>12
     DEF RpcInv, RequestsCoverReads, ReplayNeedsNoProvider, AncestorsCoverHashes

\* A bundle leaves a state in which an account that does not exist has no storage.
LEMMA AppliedFull ==
  ASSUME RpcInv, NEW d \in Bundle
  PROVE  Applied(truth, d) \in Full
<1>1. /\ truth \in Full /\ truth.accounts \in [Accounts -> Infos] /\ truth.storage \in [Cells -> Values]
      /\ reads.accounts \subseteq Accounts
  BY FullLayer DEF RpcInv, RpcTypeOK
<1>2. /\ d.info \in PartialFunctions(reads.accounts, Infos)
      /\ d.storage \in PartialFunctions(Cells, Values)
      /\ d.destroyed \subseteq DOMAIN d.info
      /\ \A c \in DOMAIN d.storage : c[1] \in DOMAIN d.info /\ d.info[c[1]] # Empty
      /\ \A a \in DOMAIN d.info : d.info[a] = Empty => a \in d.destroyed \/ truth.accounts[a] = Empty
  BY DEF Bundle
<1>3. /\ DOMAIN d.info \subseteq Accounts /\ \A a \in DOMAIN d.info : d.info[a] \in Infos
      /\ DOMAIN d.storage \subseteq Cells /\ \A c \in DOMAIN d.storage : d.storage[c] \in Values
  BY <1>1, <1>2, PartialFunction
<1> DEFINE wiped == [c \in Cells |-> IF c[1] \in d.destroyed THEN Zero ELSE truth.storage[c]]
<1>4. wiped \in [Cells -> Values]
  BY <1>1, EmptyAssumption
<1>5. Override(truth.accounts, d.info) \in [Accounts -> Infos]
  BY <1>1, <1>3 DEF Override
<1>6. Override(wiped, d.storage) \in [Cells -> Values]
  <2> HIDE DEF wiped
  <2> QED  BY <1>3, <1>4 DEF Override
<1>7. ASSUME NEW c \in Cells, Override(truth.accounts, d.info)[c[1]] = Empty
      PROVE  Override(wiped, d.storage)[c] = Zero
  <2>1. c[1] \in Accounts
    BY DEF Cells
  <2>2. c \notin DOMAIN d.storage
    BY <1>2, <1>1, <1>3, <1>7, <2>1 DEF Override
  <2>3. c[1] \in d.destroyed \/ truth.accounts[c[1]] = Empty
    BY <1>2, <1>1, <1>3, <1>7, <2>1 DEF Override
  <2>4. wiped[c] = Zero
    BY <2>3, <1>1 DEF Full
  <2> HIDE DEF wiped
  <2> QED  BY <2>2, <2>4, <1>4 DEF Override
<1> QED
  BY <1>5, <1>6, <1>7 DEF Applied, Full

\* update_state_diffs preserves the invariant: the destroyed accounts had no storage.
LEMMA UpdateStep ==
  ASSUME RpcInv, NEW d \in Bundle, UpdateStateDiffs(d)
  PROVE  RpcInv'
<1>1. /\ phase = "executing" /\ phase' = "updated"
      /\ persistent_data' = [accounts |-> Override(persistent_data.accounts, d.info),
                             storage |-> Override(persistent_data.storage, d.storage)]
      /\ truth' = Applied(truth, d)
      /\ UNCHANGED <<variant, parent, cache_data, subblock_data, oldest_ancestor, file,
                     all_state_requests, runs, reads, asked, fetched>>
  BY DEF UpdateStateDiffs
<1>2. /\ persistent_data \in Layer
      /\ truth.accounts \in [Accounts -> Infos] /\ truth.storage \in [Cells -> Values]
      /\ reads.accounts \subseteq Accounts
  BY FullLayer DEF RpcInv, RpcTypeOK
<1>3. /\ d.info \in PartialFunctions(reads.accounts, Infos)
      /\ d.storage \in PartialFunctions(Cells, Values)
      /\ d.destroyed \subseteq DOMAIN d.info
      /\ EIP6780 => \A a \in d.destroyed, s \in Slots : truth.storage[<<a, s>>] = Zero
  BY DEF Bundle
<1>4. d.info \in PartialFunctions(Accounts, Infos)
  BY <1>2, <1>3 DEF PartialFunctions
<1>5. persistent_data' \in Layer
  <2>1. Override(persistent_data.accounts, d.info) \in PartialFunctions(Accounts, Infos)
    BY <1>2, <1>4, OverridePartial DEF Layer
  <2>2. Override(persistent_data.storage, d.storage) \in PartialFunctions(Cells, Values)
    BY <1>2, <1>3, OverridePartial DEF Layer
  <2> QED  BY <1>1, <2>1, <2>2 DEF Layer
<1>6. RpcTypeOK'
  BY <1>1, <1>5, AppliedFull DEF RpcInv, RpcTypeOK
<1>7. DOMAIN d.info \subseteq Accounts /\ DOMAIN d.storage \subseteq Cells
  BY <1>3, <1>4, PartialFunction
<1>8. ASSUME EIP6780 PROVE Layered'
  <2>1. Layered
    BY <1>8 DEF RpcInv
  <2>2. ASSUME NEW a \in Accounts
        PROVE  truth'.accounts[a] = IF a \in DOMAIN persistent_data'.accounts
                                      THEN persistent_data'.accounts[a] ELSE parent'.accounts[a]
    <3>1. truth'.accounts = Override(truth.accounts, d.info)
      BY <1>1 DEF Applied
    <3>2. persistent_data'.accounts = Override(persistent_data.accounts, d.info)
      BY <1>1
    <3> QED  BY <1>1, <1>2, <2>1, <3>1, <3>2 DEF Layered, Override
  <2>3. ASSUME NEW c \in Cells
        PROVE  truth'.storage[c] = IF c \in DOMAIN persistent_data'.storage
                                     THEN persistent_data'.storage[c] ELSE parent'.storage[c]
    <3> DEFINE wiped == [x \in Cells |-> IF x[1] \in d.destroyed THEN Zero ELSE truth.storage[x]]
    <3>1. wiped[c] = truth.storage[c]
      <4>1. PICK a \in Accounts, s \in Slots : c = <<a, s>>
        BY DEF Cells
      <4>2. CASE c[1] \in d.destroyed
        <5>1. a \in d.destroyed
          BY <4>1, <4>2
        <5> QED  BY <1>3, <1>8, <4>1, <4>2, <5>1
      <4>3. CASE c[1] \notin d.destroyed
        BY <4>3
      <4> QED  BY <4>2, <4>3
    <3>2. DOMAIN wiped = Cells
      OBVIOUS
    <3>3. truth'.storage = Override(wiped, d.storage)
      BY <1>1 DEF Applied
    <3>4. persistent_data'.storage = Override(persistent_data.storage, d.storage)
      BY <1>1
    <3> HIDE DEF wiped
    <3>5. truth'.storage[c] = IF c \in DOMAIN d.storage THEN d.storage[c] ELSE truth.storage[c]
      BY <3>1, <3>2, <3>3 DEF Override
    <3>6. truth.storage[c] = IF c \in DOMAIN persistent_data.storage
                               THEN persistent_data.storage[c] ELSE parent.storage[c]
      BY <2>1 DEF Layered
    <3> QED  BY <1>1, <3>4, <3>5, <3>6 DEF Override
  <2> QED  BY <2>2, <2>3 DEF Layered
<1> QED
  BY <1>1, <1>6, <1>8
     DEF RpcInv, CacheIsParent, ReadsAreCurrent, RequestsCoverReads, ReplayNeedsNoProvider, AncestorsCoverHashes

\* The requests collected cover the reads of the subblock.
LEMMA CollectStep ==
  ASSUME RpcInv, CollectRequests
  PROVE  RpcInv'
<1> USE DEF CollectRequests
<1> DEFINE R == [accounts : SUBSET Accounts, storage : SUBSET Cells, bytecodes : SUBSET Infos]
           r == StateRequests(subblock_data)
<1>1. /\ subblock_data \in Layer /\ all_state_requests \in Seq(R)
      /\ Covers(Keys(subblock_data), reads)
      /\ reads \in [accounts : SUBSET Accounts, storage : SUBSET Cells]
  BY DEF RpcInv, RpcTypeOK
<1>2. r \in R
  <2>1. /\ DOMAIN subblock_data.accounts \subseteq Accounts
        /\ \A a \in DOMAIN subblock_data.accounts : subblock_data.accounts[a] \in Infos
        /\ DOMAIN subblock_data.storage \subseteq Cells
    BY <1>1, PartialFunction DEF Layer
  <2>2. {c[1] : c \in DOMAIN subblock_data.storage} \subseteq Accounts
    BY <2>1 DEF Cells
  <2>3. {subblock_data.accounts[a] : a \in DOMAIN subblock_data.accounts} \subseteq Infos
    BY <2>1
  <2> QED  BY <2>1, <2>2, <2>3 DEF StateRequests
<1>3. Covers(r, reads) /\ \A a \in reads.accounts : subblock_data.accounts[a] \in r.bytecodes
  <2>1. reads.accounts \subseteq DOMAIN subblock_data.accounts /\ reads.storage \subseteq DOMAIN subblock_data.storage
    BY <1>1 DEF Covers, Keys
  <2> QED  BY <2>1 DEF Covers, StateRequests
<1> HIDE DEF R, r
<1>4. /\ all_state_requests' = Append(all_state_requests, r)
      /\ all_state_requests' \in Seq(R) /\ Len(all_state_requests') > 0
      /\ all_state_requests'[Len(all_state_requests')] = r
  BY <1>1, <1>2 DEF r
<1>5. RpcTypeOK'
  BY <1>4 DEF RpcInv, RpcTypeOK, R
<1>6. RequestsCoverReads'
  BY <1>3, <1>4 DEF RequestsCoverReads, Covers
<1> QED
  BY <1>4, <1>5, <1>6
     DEF RpcInv, CacheIsParent, Layered, ReadsAreCurrent, ReplayNeedsNoProvider, AncestorsCoverHashes

\* Every step of the database preserves the invariant.
LEMMA RpcStep == RpcInv /\ Fresh /\ Witnessed /\ [RpcNext]_rpcVars => RpcInv'
<1> SUFFICES ASSUME RpcInv, Fresh, Witnessed, [RpcNext]_rpcVars PROVE RpcInv'
  OBVIOUS
<1>1. CASE NewBasic
  <2>1. LoadFile \in Layer /\ Agrees(LoadFile, parent)
    BY NothingLayer, NothingAgrees DEF RpcInv, RpcTypeOK, CacheIsParent, LoadFile
  <2> QED  BY <1>1, <2>1, StartStep DEF NewBasic
<1>2. CASE NewWitness
  <2> DEFINE data == IF file.state = "whole" THEN file.data ELSE parent
  <2>1. data \in Layer /\ Agrees(data, parent)
    BY FullLayer DEF RpcInv, RpcTypeOK, CacheIsParent, Agrees
  <2>2. StartRun(data) /\ (file' = file \/ StoreFile(parent))
    BY <1>2 DEF NewWitness
  <2> HIDE DEF data
  <2> QED  BY <2>1, <2>2, StartStep
<1>3. CASE Stop
  BY <1>3, DownStep DEF Stop, RpcInv, RpcTypeOK
<1>4. ASSUME NEW a \in Accounts, FetchAccountInfo(a) PROVE RpcInv'
  BY <1>4, FetchAccountStep
<1>5. ASSUME NEW c \in Cells, FetchStorageAt(c) PROVE RpcInv'
  BY <1>5, FetchStorageStep
<1>6. ASSUME NEW number \in Parent - Lookback .. Parent, FetchBlockHash(number) PROVE RpcInv'
  <2> USE <1>6 DEF FetchBlockHash, RpcInv
  <2>1. number \in 0..Parent /\ oldest_ancestor \in 0..Parent
    BY HeightAssumption DEF RpcTypeOK
  <2>2. oldest_ancestor' \in 0..Parent /\ oldest_ancestor' <= oldest_ancestor /\ oldest_ancestor' <= number
    BY <2>1, HeightAssumption
  <2>3. RpcTypeOK'
    BY <2>1, <2>2 DEF RpcTypeOK
  <2>4. AncestorsCoverHashes'
    <3>1. asked \subseteq oldest_ancestor .. Parent
      BY DEF AncestorsCoverHashes
    <3>2. SUFFICES ASSUME NEW n \in asked' PROVE n \in oldest_ancestor' .. Parent
      BY DEF AncestorsCoverHashes
    <3>3. n \in asked \/ n = number
      OBVIOUS
    <3> QED  BY <3>1, <3>3, <2>1, <2>2, HeightAssumption
  <2> QED
    BY <2>3, <2>4 DEF CacheIsParent, Layered, ReadsAreCurrent, RequestsCoverReads, ReplayNeedsNoProvider
<1>7. ASSUME NEW d \in Bundle, UpdateStateDiffs(d) PROVE RpcInv'
  BY <1>7, UpdateStep
<1>8. CASE CollectRequests
  BY <1>8, CollectStep
<1>9. CASE AdvanceSubblock
  <2> USE <1>9, NothingLayer DEF AdvanceSubblock, RpcInv
  <2>1. phase' \in {"executing", "finished"}
    OBVIOUS
  <2>2. RpcTypeOK'
    BY <2>1 DEF RpcTypeOK, NoKeys
  <2>3. ReadsAreCurrent'
    BY NothingAgrees DEF ReadsAreCurrent
  <2>4. Covers(Keys(subblock_data), reads)'
    BY DEF Covers
  <2> QED
    BY <2>1, <2>2, <2>3, <2>4
       DEF CacheIsParent, Layered, RequestsCoverReads, ReplayNeedsNoProvider, AncestorsCoverHashes
<1>10. CASE StoreCache
  <2> USE <1>10 DEF StoreCache, RpcInv
  <2>1. CASE variant = "basic"
    <3>1. file' = [state |-> "whole", data |-> cache_data]
      BY <2>1 DEF StoreFile
    <3>2. RpcTypeOK'
      BY <3>1 DEF RpcTypeOK
    <3>3. CacheIsParent' /\ ReplayNeedsNoProvider'
      BY <3>1 DEF CacheIsParent, ReplayNeedsNoProvider
    <3> QED
      BY <3>2, <3>3 DEF Layered, ReadsAreCurrent, RequestsCoverReads, AncestorsCoverHashes
  <2>2. CASE variant = "witness"
    <3>1. file' = file /\ file.data = parent
      BY <2>2 DEF Witnessed
    <3>2. DOMAIN parent.accounts = Accounts /\ DOMAIN parent.storage = Cells
      BY FullLayer DEF RpcTypeOK
    <3>3. ReplayNeedsNoProvider'
      BY <3>1, <3>2 DEF ReplayNeedsNoProvider, Covers, Keys, RpcTypeOK
    <3>4. RpcTypeOK'
      BY <3>1 DEF RpcTypeOK
    <3> QED
      BY <3>1, <3>3, <3>4 DEF CacheIsParent, Layered, ReadsAreCurrent, RequestsCoverReads, AncestorsCoverHashes
  <2> QED  BY <2>1, <2>2 DEF RpcTypeOK
<1>11. CASE CrashStoring
  <2>1. runs' \in 0..MaxRuns
    BY <1>11, BoundAssumption DEF CrashStoring, RpcInv, RpcTypeOK
  <2> QED  BY <1>11, <2>1, DownStep DEF CrashStoring
<1>12. CASE UNCHANGED rpcVars
  BY <1>12 DEF rpcVars, RpcInv, RpcTypeOK, CacheIsParent, Layered, ReadsAreCurrent, RequestsCoverReads,
               ReplayNeedsNoProvider, AncestorsCoverHashes
<1> QED
  BY <1>1, <1>2, <1>3, <1>4, <1>5, <1>6, <1>7, <1>8, <1>9, <1>10, <1>11, <1>12 DEF RpcNext

\* The inductive invariant holds over all runs of the host.
LEMMA RpcInvariant == RpcSpec => []RpcInv
BY InitInv, RpcStep, FreshInvariant, PTL DEF RpcSpec

\* The state of the database has its types in every reachable state.
THEOREM RpcTypeCorrect == RpcSpec => []RpcTypeOK
<1>1. RpcInv => RpcTypeOK
  BY DEF RpcInv
<1> QED  BY <1>1, RpcInvariant, PTL

\* Where an account with storage is never destroyed, every read of fetch_account_info and
\* fetch_storage_at sees what the earlier subblocks left, for any number of them.
THEOREM RpcReadsCurrent == RpcSpec => [](EIP6780 => ReadsAreCurrent)
<1>1. RpcInv => (EIP6780 => ReadsAreCurrent)
  BY DEF RpcInv
<1> QED  BY <1>1, RpcInvariant, PTL

\* The diffs of the subblocks never reach the replay cache or its file, whenever the host is
\* killed: update_state_diffs writes only the persistent layer.
THEOREM RpcCacheIsParent == RpcSpec => []CacheIsParent
<1>1. RpcInv => CacheIsParent
  BY DEF RpcInv
<1> QED  BY <1>1, RpcInvariant, PTL

\* The requests of a subblock's input name all it read, and its bytecodes are there.
THEOREM RpcRequestsCover == RpcSpec => []RequestsCoverReads
<1>1. RpcInv => RequestsCoverReads
  BY DEF RpcInv
<1> QED  BY <1>1, RpcInvariant, PTL

\* A stored cache is enough to replay the block without the provider.
THEOREM RpcReplay == RpcSpec => []ReplayNeedsNoProvider
<1>1. RpcInv => ReplayNeedsNoProvider
  BY DEF RpcInv
<1> QED  BY <1>1, RpcInvariant, PTL

\* The ancestors from oldest_ancestor on include every block hash that was asked for.
THEOREM RpcAncestors == RpcSpec => []AncestorsCoverHashes
<1>1. RpcInv => AncestorsCoverHashes
  BY DEF RpcInv
<1> QED  BY <1>1, RpcInvariant, PTL
=============================================================================

-------------------------- MODULE HostBinaryProofs --------------------------
(***************************************************************************)
(* Proofs about HostBinary, for every set of accounts, block number, chunk *)
(* size and number of retries, subblocks and faults, and for everything an *)
(* execution may make of its reads: what the files hold was verified       *)
(* wherever the runs were cut off, a finished dump is of one output, and   *)
(* the proofs are complete.                                                *)
(***************************************************************************)
EXTENDS HostBinary, SequenceTheorems, TLAPS

BlocksAt(height) == {height} \X Forks

\* Outputs whose block is built on the previous one and whose reads led to the
\* diff of the block; one of the subblock binaries has a subblock.
Verified ==
  {o \in Outputs : /\ o.previous = ParentOf(o.block)
                   /\ DiffRight(o)
                   /\ o.kind = Kind("subblock") => o.count > 0}

\* The ancestors are of that chain, too.
OfOneFork == {o \in Verified : Linked(o)}

-----------------------------------------------------------------------------
(* Where a run is: without proofs yet, with a block, with its parent, with *)
(* subblocks, with an output, dumping it, behind its validation.           *)
NoProofsYet == {"off", "load", "block", "previous", "db", "split", "execute"}
Subblocks == {"execute", "store", "proofs", "ask", "verify", "header", "ancestors"}
WithParent == {"db", "split"} \union Subblocks
WithBlock == {"previous"} \union WithParent
Validated == {"agg_input", "aggregator", "final", "done"}
Dumped == {"validate"} \union Validated
WithOutput == {"cache", "emulate", "dump"} \union Dumped

TypesInv ==
  /\ pc \in {"off", "load", "block"} \union WithBlock \union WithOutput
  /\ binary \in {"subblock", "witness", "rsp"}
  /\ chain \in Forks
  /\ dumped \in Nat
  /\ fetched = [block |-> fetched.block, previous |-> fetched.previous,
                reads |-> fetched.reads, ancestors |-> fetched.ancestors,
                count |-> fetched.count]
  /\ fetched.ancestors \in Seq(Hashes)
  /\ fetched.count \in 0..MaxSubblocks
  /\ disk = [f \in Files |-> disk[f]]
  /\ stdins = [i \in 0..(MaxSubblocks - 1) |-> stdins[i]]

\* What this run has fetched, and has compared.
FetchedInv ==
  /\ pc \in WithBlock => fetched.block \in BlocksAt(Number)
  /\ pc \in WithParent => fetched.previous \in BlocksAt(Number - 1)
  /\ pc \in Subblocks /\ binary # "rsp" => fetched.count > 0
  /\ pc \in {"header", "ancestors"} => RootMayMatch
  /\ pc = "ancestors" => fetched.previous = ParentOf(fetched.block)

\* The output is a verified one of the binary's kind; while the witness is
\* written it holds that.
OutputInv ==
  /\ pc \in WithOutput => output \in Verified /\ output.kind = Kind(binary)
  /\ pc \in {"dump"} \union Dumped => binary # "rsp"
  /\ pc \in Validated => output \in OfOneFork
  /\ pc = "db" /\ open => binary = "witness" /\ output \in BlocksAt(Number)
  /\ open => pc = "db" \/ Writing

\* The files that this run has written.
DumpInv ==
  /\ pc \notin {"dump"} \union Dumped => dumped = 0
  /\ pc = "dump" => dumped < output.count /\ \A i \in 0..(dumped - 1) : stdins[i] = output
  /\ pc \in Dumped => \A i \in 0..(output.count - 1) : stdins[i] = output
  /\ pc \in {"final", "done"} => disk["aggregator"] = output
  /\ pc = "done" => disk["final"] = output

\* The files that any run has written.
DiskInv ==
  /\ disk["cache"] \in Verified \union {Missing, Damaged}
  /\ disk["aggregator"] \in OfOneFork \union {Missing, Damaged}
  /\ disk["final"] \in OfOneFork \union {Missing, Damaged}
  /\ disk["witness"] \in BlocksAt(Number) \union {Missing, Damaged}

\* The tasks are those of a chunk, whose proofs have not been joined yet.
TasksOf(chunk) ==
  /\ chunk \subseteq Accounts \ entries
  /\ DOMAIN tasks = chunk \X {"before", "after"}
  /\ DOMAIN after_proofs = Accounts \ (entries \union chunk)
  /\ DOMAIN before_proofs =
       IF joining = "before" THEN Accounts \ (entries \union chunk) ELSE Accounts \ entries

\* Each account waits, is in the chunk under way, or has its proofs.
ProofsInv ==
  /\ entries \subseteq Accounts
  /\ pc \in NoProofsYet => FetchInit
  /\ pc \in {"store", "proofs"} =>
       /\ joining = "none" => TasksOf({})
       /\ joining # "none" => \E chunk : TasksOf(chunk)
  /\ joining \in {"none", "before", "after"}
  /\ pc = "ask" =>
       /\ DOMAIN after_proofs = Accounts \ entries
       /\ \/ DOMAIN before_proofs = DOMAIN after_proofs
          \/ \E a \in entries : DOMAIN before_proofs = DOMAIN after_proofs \union {a}
  /\ ProofsComplete

\* Reads are of accounts of the block, and all of them are known once it is
\* executed.  Nothing is said of the fork they are from.
Reads == UNION {[accounts -> Hashes] : accounts \in SUBSET Accounts}
AfterExecute == {"store", "proofs", "ask", "verify", "header", "ancestors"}

ReadsInv ==
  /\ fetched.reads \in Reads
  /\ disk["rpc"] \in Reads \union {Missing, Damaged}
  /\ pc \in AfterExecute => fetched.reads \in [Accounts -> Hashes]

BinaryInv == TypesInv /\ FetchedInv /\ OutputInv /\ DumpInv /\ DiskInv /\ ProofsInv

-----------------------------------------------------------------------------
USE DEF NoProofsYet, Subblocks, WithParent, WithBlock, Validated, Dumped, WithOutput

(* A block, its parent and what is read from a state are hashes. *)
LEMMA BlockTypes ==
  /\ \A f \in Forks, h \in Int : Block(f, h) \in BlocksAt(h)
  /\ \A h \in Int : BlocksAt(h) \subseteq Hashes
  /\ \A b \in Hashes : ParentOf(b) \in Hashes
  /\ \A a, b : b \in Hashes => Value(a, b) \in Hashes
  <1>1. 1 \in Forks /\ 2 \in Forks
    BY DEF Forks
  <1>2. \A f \in Forks, h \in Int : Block(f, h) \in BlocksAt(h)
    BY <1>1 DEF Block, BlocksAt
  <1>3. \A h \in Int : BlocksAt(h) \subseteq Hashes
    BY DEF BlocksAt, Hashes
  <1>4. \A b \in Hashes : ParentOf(b) \in Hashes
    BY <1>1 DEF ParentOf, Block, Hashes
  <1>5. \A a, b : b \in Hashes => Value(a, b) \in Hashes
    BY <1>1 DEF Value, Hashes
  <1> QED
    BY <1>2, <1>3, <1>4, <1>5

(* The forks stay what they are: a reorganisation moves the provider only. *)
LEMMA ForksStay ==
  ASSUME UNCHANGED <<fork_at, shared>>
  PROVE  /\ Verified' = Verified
         /\ OfOneFork' = OfOneFork
         /\ \A b : ParentOf(b)' = ParentOf(b)
         /\ \A o : DiffRight(o)' = DiffRight(o)
  <1>1. \A b : ParentOf(b)' = ParentOf(b)
    BY DEF ParentOf, Block
  <1>2. \A a, b : Value(a, b)' = Value(a, b)
    BY DEF Value
  <1>3. \A o : DiffRight(o)' = DiffRight(o)
    BY DEF DiffRight, StateReads, Value, ParentOf, Block
  <1>4. \A o : Linked(o)' = Linked(o)
    BY <1>1 DEF Linked
  <1>5. Verified' = Verified
    BY <1>1, <1>3, Zenon DEF Verified
  <1>6. OfOneFork' = OfOneFork
    BY <1>4, <1>5 DEF OfOneFork
  <1> QED
    BY <1>1, <1>3, <1>5, <1>6

\* Nor does anything change in the comparison of the root as long as the block,
\* the previous block and the reads are the same.
LEMMA RootStays ==
  ASSUME UNCHANGED <<fork_at, shared>>,
         UNCHANGED <<fetched.block, fetched.previous, fetched.reads>>
  PROVE  /\ RootMayMatch' = RootMayMatch
         /\ ParentOf(fetched.block)' = ParentOf(fetched.block)
  <1>1. ParentOf(fetched.block)' = ParentOf(fetched.block)
    BY DEF ParentOf, Block
  <1>2. /\ StateRoot(fetched.previous)' = StateRoot(fetched.previous)
        /\ StateRoot(ParentOf(fetched.block))' = StateRoot(ParentOf(fetched.block))
    BY <1>1 DEF StateRoot
  <1>3. DiffRight(fetched)' = DiffRight(fetched)
    BY DEF DiffRight, StateReads, Value, ParentOf, Block
  <1> QED
    BY <1>1, <1>2, <1>3 DEF RootMayMatch

\* Nothing is fetched, written or verified when the first run begins.
LEMMA BinaryInitInv ==
  ASSUME BinaryInit
  PROVE  BinaryInv
  <1>1. TypesInv
    BY SubblocksAssumption DEF BinaryInit, ProviderInit, Forks, TypesInv, NothingFetched
  <1>2. FetchedInv /\ OutputInv /\ DumpInv
    BY DEF BinaryInit, FetchedInv, OutputInv, DumpInv
  <1>3. DiskInv
    BY DEF BinaryInit, DiskInv, Files
  <1>4. ProofsInv
    BY DEF BinaryInit, ProofsInv, FetchInit, ProofsComplete
  <1> QED
    BY <1>1, <1>2, <1>3, <1>4 DEF BinaryInv

(* A run that ends, however it does, leaves only its files. *)
LEMMA StopInv ==
  ASSUME BinaryInv, Stop, UNCHANGED <<fork_at, shared>>, chain' \in Forks
  PROVE  BinaryInv'
  <1>1. TypesInv'
    BY SubblocksAssumption DEF BinaryInv, Stop, files, TypesInv, NothingFetched
  <1>2. FetchedInv' /\ OutputInv' /\ DumpInv'
    BY DEF Stop, FetchedInv, OutputInv, DumpInv
  <1>3. DiskInv'
    BY ForksStay DEF BinaryInv, Stop, files, DiskInv
  <1>4. ProofsInv'
    BY DEF Stop, FetchReset, ProofsInv, FetchInit, ProofsComplete
  <1> QED
    BY <1>1, <1>2, <1>3, <1>4 DEF BinaryInv

(* Steps that only move on, with nothing fetched or written. *)
LEMMA StartInv ==
  ASSUME BinaryInv, Start
  PROVE  BinaryInv'
  <1>0. /\ UNCHANGED <<binary, fetched, output, open, dumped, disk, stdins>>
        /\ UNCHANGED <<chain, fork_at, shared>>
        /\ UNCHANGED <<entries, tasks, joining, before_proofs, after_proofs>>
        /\ pc = "off" /\ pc' = "load"
    BY DEF Start, files, providerVars, fetchVars
  <1>1. TypesInv'
    BY <1>0 DEF BinaryInv, TypesInv
  <1>2. FetchedInv' /\ OutputInv' /\ DumpInv'
    BY <1>0 DEF BinaryInv, FetchedInv, OutputInv, DumpInv, Writing
  <1>3. DiskInv'
    BY <1>0, ForksStay DEF BinaryInv, DiskInv
  <1>4. ProofsInv'
    BY <1>0 DEF BinaryInv, ProofsInv, FetchInit, ProofsComplete
  <1> QED
    BY <1>1, <1>2, <1>3, <1>4 DEF BinaryInv

(* Another run, of either binary, takes over the files only. *)
LEMMA StartOtherInv ==
  ASSUME BinaryInv, NEW b \in {"subblock", "witness", "rsp"}, StartOther(b)
  PROVE  BinaryInv'
  <1>0. /\ UNCHANGED <<open, disk, stdins>>
        /\ UNCHANGED <<chain, fork_at, shared>>
        /\ pc \in {"off", "done"} /\ pc' = "load" /\ binary' = b
    BY DEF StartOther, files
  <1>1. TypesInv'
    BY <1>0, SubblocksAssumption DEF BinaryInv, TypesInv, StartOther, NothingFetched
  <1>2. FetchedInv' /\ OutputInv' /\ DumpInv'
    BY <1>0 DEF BinaryInv, FetchedInv, OutputInv, DumpInv, Writing, StartOther
  <1>3. DiskInv'
    BY <1>0, ForksStay DEF BinaryInv, DiskInv
  <1>4. ProofsInv'
    BY <1>0 DEF StartOther, FetchReset, ProofsInv, FetchInit, ProofsComplete
  <1> QED
    BY <1>1, <1>2, <1>3, <1>4 DEF BinaryInv

(***************************************************************************)
(* A run that finds the cache has an output that was verified, although by *)
(* an earlier run; a run that does not begins to ask.                      *)
(***************************************************************************)
LEMMA LoadInputInv ==
  ASSUME BinaryInv, LoadInput
  PROVE  BinaryInv'
  <1>0. /\ pc = "load" /\ UNCHANGED <<binary, fetched, open, dumped, stdins>>
        /\ UNCHANGED <<chain, fork_at, shared>>
        /\ UNCHANGED <<entries, tasks, joining, before_proofs, after_proofs>>
    BY DEF LoadInput, LoadMiss, Goto, files, providerVars, fetchVars
  <1>1. CASE Whole("cache") /\ disk["cache"].kind = Kind(binary)
    <2>0. /\ pc' = AfterCache /\ output' = disk["cache"] /\ UNCHANGED disk
          /\ output' \in Verified /\ output'.kind = Kind(binary)
      BY <1>1 DEF LoadInput, files, Whole, BinaryInv, DiskInv
    <2>1. output' \in Verified' /\ (binary # "rsp" => output'.count \in Nat /\ output'.count > 0)
      BY <2>0, <1>0, ForksStay DEF Verified, Outputs, Kind
    <2>2. TypesInv'
      BY <2>0, <1>0 DEF BinaryInv, TypesInv, AfterCache
    <2>3. FetchedInv'
      BY <2>0, <1>0 DEF BinaryInv, FetchedInv, AfterCache
    <2>4. OutputInv'
      BY <2>0, <2>1, <1>0 DEF BinaryInv, OutputInv, AfterCache, Writing
    <2>5. DumpInv'
      BY <2>0, <2>1, <1>0 DEF BinaryInv, DumpInv, AfterCache
    <2>6. DiskInv'
      BY <2>0, <1>0, ForksStay DEF BinaryInv, DiskInv
    <2>7. ProofsInv'
      BY <2>0, <1>0 DEF BinaryInv, ProofsInv, ProofsComplete, AfterCache
    <2> QED
      BY <2>2, <2>3, <2>4, <2>5, <2>6, <2>7 DEF BinaryInv
  <1>2. CASE ~(Whole("cache") /\ disk["cache"].kind = Kind(binary))
    <2>0. /\ pc' = "block" /\ UNCHANGED output
          /\ disk' = disk \/ disk' = [disk EXCEPT !["cache"] = Missing]
      BY <1>2 DEF LoadInput, LoadMiss, Goto
    <2>1. TypesInv' /\ DiskInv'
      BY <2>0, <1>0, ForksStay DEF BinaryInv, TypesInv, DiskInv, Files
    <2>2. FetchedInv' /\ OutputInv' /\ DumpInv'
      BY <2>0, <1>0 DEF BinaryInv, FetchedInv, OutputInv, DumpInv, Writing
    <2>3. ProofsInv'
      BY <2>0, <1>0 DEF BinaryInv, ProofsInv, FetchInit, ProofsComplete
    <2> QED
      BY <2>1, <2>2, <2>3 DEF BinaryInv
  <1> QED
    BY <1>1, <1>2

(***************************************************************************)
(* Steps from question to question: of the state they change what is       *)
(* fetched, the proofs are not begun, and no file is written.              *)
(***************************************************************************)
LEMMA FetchPhaseInv ==
  ASSUME BinaryInv, pc \in NoProofsYet, pc' \in NoProofsYet,
         UNCHANGED <<binary, output, open, dumped, disk, stdins>>,
         UNCHANGED <<chain, fork_at, shared>>, UNCHANGED fetchVars,
         TypesInv', FetchedInv', open => pc' = "db" /\ pc = "db"
  PROVE  BinaryInv'
  <1>1. OutputInv' /\ DumpInv'
    BY DEF BinaryInv, OutputInv, DumpInv
  <1>2. DiskInv'
    BY ForksStay DEF BinaryInv, DiskInv
  <1>3. ProofsInv'
    BY DEF BinaryInv, ProofsInv, FetchInit, ProofsComplete, fetchVars
  <1> QED
    BY <1>1, <1>2, <1>3 DEF BinaryInv

(* The block is asked for by its number. *)
LEMMA FetchBlockInv ==
  ASSUME BinaryInv, FetchBlock
  PROVE  BinaryInv'
  <1>1. /\ pc = "block" /\ pc' = "previous" /\ UNCHANGED <<binary, output, open, dumped>>
        /\ UNCHANGED <<disk, stdins, chain, fork_at, shared>> /\ UNCHANGED fetchVars
        /\ fetched' = [fetched EXCEPT !.block = BlockAt(Number)]
    BY DEF FetchBlock, Goto, files, providerVars
  <1>2. BlockAt(Number) \in BlocksAt(Number)
    BY BlockTypes, NumberAssumption DEF BinaryInv, TypesInv, BlockAt
  <1>3. TypesInv' /\ fetched'.block = BlockAt(Number)
    BY <1>1 DEF BinaryInv, TypesInv
  <1>4. FetchedInv'
    BY <1>1, <1>2, <1>3 DEF FetchedInv
  <1>5. ~open
    BY <1>1 DEF BinaryInv, OutputInv, Writing
  <1> QED
    BY <1>1, <1>3, <1>4, <1>5, FetchPhaseInv

(* The block before it is asked for by number, too. *)
LEMMA FetchPreviousInv ==
  ASSUME BinaryInv, FetchPrevious
  PROVE  BinaryInv'
  <1>1. /\ pc = "previous" /\ pc' = "db" /\ UNCHANGED <<binary, output, open, dumped>>
        /\ UNCHANGED <<disk, stdins, chain, fork_at, shared>> /\ UNCHANGED fetchVars
        /\ fetched' = [fetched EXCEPT !.previous = BlockAt(Number - 1)]
    BY DEF FetchPrevious, Goto, files, providerVars
  <1>2. BlockAt(Number - 1) \in BlocksAt(Number - 1)
    BY BlockTypes, NumberAssumption DEF BinaryInv, TypesInv, BlockAt
  <1>3. /\ TypesInv' /\ fetched'.block = fetched.block
        /\ fetched'.previous = BlockAt(Number - 1)
    BY <1>1 DEF BinaryInv, TypesInv
  <1>4. FetchedInv'
    BY <1>1, <1>2, <1>3 DEF BinaryInv, FetchedInv
  <1>5. ~open
    BY <1>1 DEF BinaryInv, OutputInv, Writing
  <1> QED
    BY <1>1, <1>3, <1>4, <1>5, FetchPhaseInv

(* The reads of an earlier run are not trusted: nothing is said of them. *)
LEMMA OpenBasicDbInv ==
  ASSUME BinaryInv, OpenBasicDb
  PROVE  BinaryInv'
  <1>1. PICK r : /\ pc = "db" /\ binary # "witness"
                 /\ pc' = IF binary = "rsp" THEN "execute" ELSE "split"
                 /\ UNCHANGED <<binary, output, open, dumped>>
                 /\ UNCHANGED <<disk, stdins, chain, fork_at, shared>> /\ UNCHANGED fetchVars
                 /\ fetched' = [fetched EXCEPT !.reads = r]
    BY DEF OpenBasicDb, Goto, files, providerVars
  <1>2. /\ TypesInv' /\ fetched'.block = fetched.block
        /\ fetched'.previous = fetched.previous
    BY <1>1 DEF BinaryInv, TypesInv
  <1>3. FetchedInv'
    BY <1>1, <1>2 DEF BinaryInv, FetchedInv
  <1>4. ~open
    BY <1>1 DEF BinaryInv, OutputInv
  <1> QED
    BY <1>1, <1>2, <1>3, <1>4, FetchPhaseInv

(* The ancestors that come with a witness are headers of its fork. *)
LEMMA WitnessAncestors ==
  ASSUME NEW w \in BlocksAt(Number)
  PROVE  Ancestors(w) \in Seq(Hashes)
  <1>1. Number - OldestAncestor \in Nat /\ Number \in Int /\ w[2] \in Forks
    BY NumberAssumption DEF BlocksAt
  <1>2. \A i \in 1..(Number - OldestAncestor) : Block(w[2], Number - i) \in Hashes
    BY <1>1, BlockTypes
  <1>3. Ancestors(w) \in [1..(Number - OldestAncestor) -> Hashes]
    BY <1>2 DEF Ancestors
  <1> QED
    BY <1>1, <1>3

(* A witness that does not fit the previous block ends the run. *)
LEMMA OpenWitnessDbInv ==
  ASSUME BinaryInv, OpenWitnessDb
  PROVE  BinaryInv'
  <1>1. /\ pc = "db" /\ binary = "witness" /\ ~open
        /\ disk["witness"] \in BlocksAt(Number)
        /\ UNCHANGED <<chain, fork_at, shared>>
    BY DEF OpenWitnessDb, Whole, providerVars, BinaryInv, DiskInv
  <1>2. CASE Stop
    BY <1>1, <1>2, StopInv DEF BinaryInv, TypesInv
  <1>3. CASE ~Stop
    <2>1. PICK r : /\ pc' = "split" /\ UNCHANGED <<binary, output, open, dumped>>
                   /\ UNCHANGED <<disk, stdins>> /\ UNCHANGED fetchVars
                   /\ fetched' = [fetched EXCEPT !.reads = r,
                                                 !.ancestors = Ancestors(disk["witness"])]
      BY <1>3 DEF OpenWitnessDb, Goto, files
    <2>2. Ancestors(disk["witness"]) \in Seq(Hashes)
      BY <1>1, WitnessAncestors
    <2>3. /\ TypesInv' /\ fetched'.block = fetched.block
          /\ fetched'.previous = fetched.previous
      BY <1>1, <2>1, <2>2 DEF BinaryInv, TypesInv
    <2>4. FetchedInv'
      BY <1>1, <2>1, <2>3 DEF BinaryInv, FetchedInv
    <2> QED
      BY <1>1, <2>1, <2>3, <2>4, FetchPhaseInv
  <1> QED
    BY <1>2, <1>3

(* A witness is stored in two steps; in between the file is damaged. *)
LEMMA CreateWitnessInv ==
  ASSUME BinaryInv, CreateWitness
  PROVE  BinaryInv'
  <1>1. /\ pc = "db" /\ pc' = "db" /\ binary = "witness"
        /\ UNCHANGED <<binary, fetched, dumped, stdins, chain, fork_at, shared>>
        /\ UNCHANGED <<entries, tasks, joining, before_proofs, after_proofs>>
        /\ output' = BlockAt(Number) /\ disk' = [disk EXCEPT !["witness"] = Damaged]
    BY DEF CreateWitness, providerVars, fetchVars
  <1>2. output' \in BlocksAt(Number)
    BY <1>1, BlockTypes, NumberAssumption DEF BinaryInv, TypesInv, BlockAt
  <1>3. TypesInv' /\ FetchedInv' /\ DumpInv'
    BY <1>1 DEF BinaryInv, TypesInv, FetchedInv, DumpInv
  <1>4. OutputInv'
    BY <1>1, <1>2 DEF OutputInv
  <1>5. DiskInv'
    BY <1>1, ForksStay DEF BinaryInv, TypesInv, DiskInv, Files
  <1>6. ProofsInv'
    BY <1>1 DEF BinaryInv, ProofsInv, FetchInit, ProofsComplete
  <1> QED
    BY <1>3, <1>4, <1>5, <1>6 DEF BinaryInv

(* The file then holds the block that was answered, on either fork. *)
LEMMA WriteWitnessInv ==
  ASSUME BinaryInv, WriteWitness
  PROVE  BinaryInv'
  <1>1. /\ pc = "db" /\ pc' = "db" /\ ~open'
        /\ UNCHANGED <<binary, fetched, dumped, stdins, chain, fork_at, shared>>
        /\ UNCHANGED <<entries, tasks, joining, before_proofs, after_proofs>>
        /\ disk' = [disk EXCEPT !["witness"] = output] /\ output \in BlocksAt(Number)
    BY DEF WriteWitness, providerVars, fetchVars, BinaryInv, OutputInv
  <1>2. TypesInv' /\ FetchedInv' /\ DumpInv'
    BY <1>1 DEF BinaryInv, TypesInv, FetchedInv, DumpInv
  <1>3. OutputInv'
    BY <1>1 DEF OutputInv
  <1>4. DiskInv'
    BY <1>1, ForksStay DEF BinaryInv, TypesInv, DiskInv, Files
  <1>5. ProofsInv'
    BY <1>1 DEF BinaryInv, ProofsInv, FetchInit, ProofsComplete
  <1> QED
    BY <1>2, <1>3, <1>4, <1>5 DEF BinaryInv

(* The split gives a subblock at least, or fails on receipts of another fork. *)
LEMMA SplitBlockInv ==
  ASSUME BinaryInv, SplitBlock
  PROVE  BinaryInv'
  <1>1. pc = "split" /\ UNCHANGED <<chain, fork_at, shared>>
    BY DEF SplitBlock, providerVars
  <1>2. CASE Stop
    BY <1>1, <1>2, StopInv DEF BinaryInv, TypesInv
  <1>3. CASE ~Stop
    <2>1. PICK n \in 1..MaxSubblocks :
            /\ pc' = "execute" /\ UNCHANGED <<binary, output, open, dumped>>
            /\ UNCHANGED <<disk, stdins>> /\ UNCHANGED fetchVars
            /\ fetched' = [fetched EXCEPT !.count = n]
      BY <1>3 DEF SplitBlock, Goto, files
    <2>2. n \in 0..MaxSubblocks /\ n > 0
      BY SubblocksAssumption
    <2>3. /\ TypesInv' /\ fetched'.block = fetched.block
          /\ fetched'.previous = fetched.previous /\ fetched'.count = n
      BY <1>1, <2>1, <2>2 DEF BinaryInv, TypesInv
    <2>4. FetchedInv'
      BY <1>1, <2>1, <2>2, <2>3 DEF BinaryInv, FetchedInv
    <2>5. ~open
      BY <1>1 DEF BinaryInv, OutputInv, Writing
    <2> QED
      BY <1>1, <2>1, <2>3, <2>4, <2>5, FetchPhaseInv
  <1> QED
    BY <1>2, <1>3

(* A read is answered from whichever fork the provider is on. *)
LEMMA ReadAccountInv ==
  ASSUME BinaryInv, NEW a \in Accounts, ReadAccount(a)
  PROVE  BinaryInv'
  <1>1. PICK r : /\ pc = "execute" /\ pc' = "execute"
                 /\ UNCHANGED <<binary, output, open, dumped>>
                 /\ UNCHANGED <<disk, stdins, chain, fork_at, shared>> /\ UNCHANGED fetchVars
                 /\ fetched' = [fetched EXCEPT !.reads = r]
    BY DEF ReadAccount, files, providerVars
  <1>2. /\ TypesInv' /\ fetched'.block = fetched.block
        /\ fetched'.previous = fetched.previous /\ fetched'.count = fetched.count
    BY <1>1 DEF BinaryInv, TypesInv
  <1>3. FetchedInv'
    BY <1>1, <1>2 DEF BinaryInv, FetchedInv
  <1>4. ~open
    BY <1>1 DEF BinaryInv, OutputInv, Writing
  <1> QED
    BY <1>1, <1>2, <1>3, <1>4, FetchPhaseInv

(* Every account waits for its proofs, or the witness brought them. *)
LEMMA ExecutedInv ==
  ASSUME BinaryInv, Executed
  PROVE  BinaryInv'
  <1>1. /\ pc = "execute" /\ UNCHANGED <<binary, fetched, output, open, dumped>>
        /\ UNCHANGED <<disk, stdins, chain, fork_at, shared>>
        /\ UNCHANGED <<tasks, joining, before_proofs, after_proofs>>
        /\ pc' = CASE binary = "subblock" -> "store" [] binary = "witness" -> "verify"
                   [] OTHER -> "ask"
        /\ pc' = "verify" => binary = "witness"
        /\ pc' \in {"store", "verify", "ask"}
        /\ entries' = IF binary = "witness" THEN {} ELSE Accounts
        /\ pc' # "verify" => entries' = Accounts
    <2>1. binary \in {"subblock", "witness", "rsp"}
      BY DEF BinaryInv, TypesInv
    <2> QED
      BY <2>1 DEF Executed, Goto, files, providerVars
  <1>2. TypesInv' /\ FetchedInv'
    BY <1>1 DEF BinaryInv, TypesInv, FetchedInv
  <1>3. OutputInv' /\ DumpInv'
    BY <1>1 DEF BinaryInv, OutputInv, DumpInv, Writing
  <1>4. DiskInv'
    BY <1>1, ForksStay DEF BinaryInv, DiskInv
  <1>5. ProofsInv'
    <2>1. FetchInit
      BY <1>1 DEF BinaryInv, ProofsInv
    <2>2. /\ DOMAIN before_proofs' = {} /\ DOMAIN after_proofs' = {}
          /\ DOMAIN tasks' = {} /\ joining' = "none"
      BY <2>1, <1>1 DEF FetchInit, Empty
    <2>3. pc' = "store" => TasksOf({})'
      BY <2>2, <1>1 DEF TasksOf
    <2> QED
      BY <2>2, <2>3, <1>1 DEF ProofsInv, ProofsComplete
  <1> QED
    BY <1>2, <1>3, <1>4, <1>5 DEF BinaryInv

-----------------------------------------------------------------------------
(* A chunk is taken from the accounts that wait. *)
LEMMA StartChunkTasks ==
  ASSUME entries \subseteq Accounts, TasksOf({}), StartChunk
  PROVE  /\ entries' \subseteq Accounts /\ joining' = "before"
         /\ \E chunk : TasksOf(chunk)'
  <1>1. PICK chunk \in SUBSET entries :
          /\ entries' = entries \ chunk
          /\ tasks' = [t \in chunk \X {"before", "after"} |-> [attempts |-> 0, proof |-> NoProof]]
    BY DEF StartChunk
  <1>2. joining' = "before" /\ joining = "none" /\ UNCHANGED <<before_proofs, after_proofs>>
    BY DEF StartChunk
  <1>3. DOMAIN tasks' = chunk \X {"before", "after"}
    BY <1>1
  <1>4. entries' \union chunk = entries /\ chunk \subseteq Accounts \ entries'
    BY <1>1
  <1>5. DOMAIN before_proofs' = Accounts \ entries /\ DOMAIN after_proofs' = Accounts \ entries
    BY <1>2 DEF TasksOf
  <1>6. TasksOf(chunk)'
    BY <1>2, <1>3, <1>4, <1>5 DEF TasksOf
  <1> QED
    BY <1>1, <1>2, <1>6

(* An attempt, answered or not, changes no task's address. *)
LEMMA AttemptTasks ==
  ASSUME NEW chunk, TasksOf(chunk), NEW t, GetProof(t) \/ FailProof(t)
  PROVE  TasksOf(chunk)' /\ UNCHANGED <<entries, joining>>
  <1>1. UNCHANGED <<entries, joining, before_proofs, after_proofs>> /\ DOMAIN tasks' = DOMAIN tasks
    BY DEF GetProof, FailProof
  <1> QED
    BY <1>1 DEF TasksOf

(* The tasks of one side of a chunk are one for each of its accounts. *)
LEMMA SideAccounts ==
  ASSUME NEW chunk, TasksOf(chunk), NEW side \in {"before", "after"}
  PROVE  {t[1] : t \in Side(side)} = chunk
  <1>1. Side(side) = {t \in chunk \X {"before", "after"} : t[2] = side}
    BY DEF TasksOf, Side
  <1>2. ASSUME NEW a \in chunk
        PROVE  <<a, side>> \in Side(side) /\ <<a, side>>[1] = a
    BY <1>1
  <1>3. \A t \in Side(side) : t[1] \in chunk
    BY <1>1
  <1> QED
    BY <1>2, <1>3

(* Joined tasks add the proofs of their chunk. *)
LEMMA JoinTasks ==
  ASSUME NEW chunk, TasksOf(chunk)
  PROVE  /\ JoinBefore => TasksOf(chunk)' /\ joining' = "after" /\ UNCHANGED entries
         /\ JoinAfter => TasksOf({})' /\ joining' = "none" /\ UNCHANGED entries
  <1>1. ASSUME NEW proofs, NEW side \in {"before", "after"}
        PROVE  DOMAIN Joined(proofs, side) = DOMAIN proofs \union chunk
    BY SideAccounts DEF Joined
  <1>2. chunk \subseteq Accounts \ entries
    BY DEF TasksOf
  <1>3. ASSUME JoinBefore
        PROVE  TasksOf(chunk)' /\ joining' = "after" /\ UNCHANGED entries
    <2>1. /\ joining = "before" /\ joining' = "after"
          /\ UNCHANGED <<entries, tasks, after_proofs>>
          /\ before_proofs' = Joined(before_proofs, "before")
      BY <1>3 DEF JoinBefore
    <2>2. DOMAIN before_proofs' = DOMAIN before_proofs \union chunk
      BY <2>1, <1>1
    <2>3. DOMAIN before_proofs' = Accounts \ entries
      BY <2>1, <2>2, <1>2 DEF TasksOf
    <2> QED
      BY <2>1, <2>3 DEF TasksOf
  <1>4. ASSUME JoinAfter
        PROVE  TasksOf({})' /\ joining' = "none" /\ UNCHANGED entries
    <2>1. /\ joining = "after" /\ joining' = "none"
          /\ UNCHANGED <<entries, before_proofs>> /\ tasks' = Empty
          /\ after_proofs' = Joined(after_proofs, "after")
      BY <1>4 DEF JoinAfter
    <2>2. DOMAIN after_proofs' = DOMAIN after_proofs \union chunk
      BY <2>1, <1>1
    <2>3. DOMAIN after_proofs' = Accounts \ entries /\ DOMAIN before_proofs' = Accounts \ entries
      BY <2>1, <2>2, <1>2 DEF TasksOf
    <2>4. DOMAIN tasks' = {}
      BY <2>1 DEF Empty
    <2> QED
      BY <2>1, <2>3, <2>4 DEF TasksOf
  <1> QED
    BY <1>3, <1>4

(***************************************************************************)
(* Whatever order the tasks of a chunk end in, and however often they were *)
(* tried, no account is lost between the chunks.                           *)
(***************************************************************************)
LEMMA FetchProofsInv ==
  ASSUME BinaryInv, FetchProofs \/ FailAttempt
  PROVE  BinaryInv'
  <1>1. /\ pc = "proofs" /\ UNCHANGED <<pc, binary, fetched, output, open, dumped>>
        /\ UNCHANGED <<disk, stdins, chain, fork_at, shared>>
    BY DEF FetchProofs, FailAttempt, runVars, files, providerVars
  <1>2. /\ StartChunk \/ JoinBefore \/ JoinAfter
           \/ (\E t \in DOMAIN tasks : GetProof(t) \/ FailProof(t))
    BY DEF FetchProofs, FailAttempt
  <1>3. /\ entries \subseteq Accounts /\ joining \in {"none", "before", "after"}
        /\ joining = "none" => TasksOf({})
        /\ joining # "none" => \E chunk : TasksOf(chunk)
    BY <1>1 DEF BinaryInv, ProofsInv
  <1>4. /\ entries' \subseteq Accounts /\ joining' \in {"none", "before", "after"}
        /\ joining' = "none" => TasksOf({})'
        /\ joining' # "none" => \E chunk : TasksOf(chunk)'
    <2>1. CASE StartChunk
      <3>1. TasksOf({})
        BY <2>1, <1>3 DEF StartChunk
      <3> QED
        BY <3>1, <2>1, <1>3, StartChunkTasks
    <2>2. CASE JoinBefore \/ JoinAfter
      <3>1. PICK chunk : TasksOf(chunk)
        BY <2>2, <1>3 DEF JoinBefore, JoinAfter
      <3> QED
        BY <3>1, <2>2, <1>3, JoinTasks
    <2>3. CASE \E t \in DOMAIN tasks : GetProof(t) \/ FailProof(t)
      <3>1. PICK t : GetProof(t) \/ FailProof(t)
        BY <2>3
      <3>2. \A chunk : TasksOf(chunk) => TasksOf(chunk)' /\ UNCHANGED <<entries, joining>>
        BY <3>1, AttemptTasks
      <3>3. UNCHANGED <<entries, joining>>
        BY <3>1 DEF GetProof, FailProof
      <3> QED
        BY <3>2, <3>3, <1>3
    <2> QED
      BY <2>1, <2>2, <2>3, <1>2
  <1>5. ProofsInv'
    BY <1>1, <1>4 DEF ProofsInv, ProofsComplete
  <1>6. TypesInv' /\ FetchedInv'
    BY <1>1 DEF BinaryInv, TypesInv, FetchedInv
  <1>7. OutputInv' /\ DumpInv'
    BY <1>1 DEF BinaryInv, OutputInv, DumpInv, Writing
  <1>8. DiskInv'
    BY <1>1, ForksStay DEF BinaryInv, DiskInv
  <1> QED
    BY <1>5, <1>6, <1>7, <1>8 DEF BinaryInv

(* Behind the last chunk there is a pair of proofs for every account. *)
LEMMA ProofsFetchedInv ==
  ASSUME BinaryInv, ProofsFetched
  PROVE  BinaryInv'
  <1>1. /\ pc = "proofs" /\ pc' = "verify" /\ UNCHANGED <<binary, fetched, output, open, dumped>>
        /\ UNCHANGED <<disk, stdins, chain, fork_at, shared>>
        /\ UNCHANGED <<entries, tasks, joining, before_proofs, after_proofs>>
        /\ joining = "none" /\ entries = {}
    BY DEF ProofsFetched, Fetched, Goto, files, providerVars, fetchVars
  <1>2. DOMAIN before_proofs = Accounts /\ DOMAIN after_proofs = Accounts
    BY <1>1 DEF BinaryInv, ProofsInv, TasksOf
  <1>3. ProofsInv'
    BY <1>1, <1>2 DEF ProofsInv, ProofsComplete
  <1>4. TypesInv' /\ FetchedInv'
    BY <1>1 DEF BinaryInv, TypesInv, FetchedInv
  <1>5. OutputInv' /\ DumpInv'
    BY <1>1 DEF BinaryInv, OutputInv, DumpInv, Writing
  <1>6. DiskInv'
    BY <1>1, ForksStay DEF BinaryInv, DiskInv
  <1> QED
    BY <1>3, <1>4, <1>5, <1>6 DEF BinaryInv

(* rsp asks for the two proofs of an account before it takes the next. *)
LEMMA AskProofInv ==
  ASSUME BinaryInv, NEW a \in Accounts, AskProof(a)
  PROVE  BinaryInv'
  <1>1. /\ pc = "ask" /\ pc' = IF entries' = {} THEN "verify" ELSE "ask"
        /\ UNCHANGED <<binary, fetched, output, open, dumped>>
        /\ UNCHANGED <<disk, stdins, chain, fork_at, shared>>
        /\ a \in entries /\ UNCHANGED joining
        /\ \A x \in entries \intersect DOMAIN before_proofs : x = a
    BY DEF AskProof, files, providerVars
  <1>2. /\ entries \subseteq Accounts /\ DOMAIN after_proofs = Accounts \ entries
        /\ joining \in {"none", "before", "after"}
        /\ \/ DOMAIN before_proofs = DOMAIN after_proofs
           \/ \E x \in entries : DOMAIN before_proofs = DOMAIN after_proofs \union {x}
    BY <1>1 DEF BinaryInv, ProofsInv
  <1>3. /\ entries' \subseteq Accounts /\ DOMAIN after_proofs' = Accounts \ entries'
        /\ \/ DOMAIN before_proofs' = DOMAIN after_proofs'
           \/ \E x \in entries' : DOMAIN before_proofs' = DOMAIN after_proofs' \union {x}
    <2>1. CASE a \notin DOMAIN before_proofs
      <3>1. /\ UNCHANGED <<entries, after_proofs>>
            /\ DOMAIN before_proofs' = DOMAIN before_proofs \union {a}
        BY <2>1 DEF AskProof
      <3>2. DOMAIN before_proofs = DOMAIN after_proofs
        BY <2>1, <1>1, <1>2
      <3> QED
        BY <3>1, <3>2, <1>1, <1>2
    <2>2. CASE a \in DOMAIN before_proofs
      <3>1. /\ entries' = entries \ {a} /\ UNCHANGED before_proofs
            /\ DOMAIN after_proofs' = DOMAIN after_proofs \union {a}
        BY <2>2 DEF AskProof
      <3>2. DOMAIN before_proofs = DOMAIN after_proofs \union {a}
        BY <2>2, <1>1, <1>2
      <3> QED
        BY <3>1, <3>2, <1>1, <1>2
    <2> QED
      BY <2>1, <2>2
  <1>4. ProofsInv'
    BY <1>1, <1>2, <1>3 DEF ProofsInv, ProofsComplete
  <1>5. TypesInv' /\ FetchedInv'
    BY <1>1 DEF BinaryInv, TypesInv, FetchedInv
  <1>6. OutputInv' /\ DumpInv'
    BY <1>1 DEF BinaryInv, OutputInv, DumpInv, Writing
  <1>7. DiskInv'
    BY <1>1, ForksStay DEF BinaryInv, DiskInv
  <1> QED
    BY <1>4, <1>5, <1>6, <1>7 DEF BinaryInv

-----------------------------------------------------------------------------
(* With the root of the header the reads are those of the parent's state. *)
LEMMA VerifyRootInv ==
  ASSUME BinaryInv, VerifyRoot
  PROVE  BinaryInv'
  <1>1. pc = "verify" /\ UNCHANGED <<chain, fork_at, shared>>
    BY DEF VerifyRoot, providerVars
  <1>2. CASE Stop
    BY <1>1, <1>2, StopInv DEF BinaryInv, TypesInv
  <1>3. CASE ~Stop
    <2>1. /\ pc' = "header" /\ UNCHANGED <<binary, fetched, output, open, dumped, disk, stdins>>
          /\ UNCHANGED <<entries, joining>> /\ RootMayMatch
      BY <1>3 DEF VerifyRoot, Goto, files, fetchVars
    <2>2. RootMayMatch'
      BY <2>1, <1>1, RootStays
    <2>3. TypesInv' /\ FetchedInv'
      BY <2>1, <2>2, <1>1 DEF BinaryInv, TypesInv, FetchedInv
    <2>4. OutputInv' /\ DumpInv'
      BY <2>1, <1>1 DEF BinaryInv, OutputInv, DumpInv, Writing
    <2>5. DiskInv'
      BY <2>1, <1>1, ForksStay DEF BinaryInv, DiskInv
    <2>6. ProofsInv'
      BY <2>1, <1>1 DEF BinaryInv, ProofsInv, ProofsComplete
    <2> QED
      BY <2>3, <2>4, <2>5, <2>6 DEF BinaryInv
  <1> QED
    BY <1>2, <1>3

(* With its hash in the header the previous block is the parent. *)
LEMMA DeriveHeaderInv ==
  ASSUME BinaryInv, DeriveHeader
  PROVE  BinaryInv'
  <1>1. pc = "header" /\ UNCHANGED <<chain, fork_at, shared>>
    BY DEF DeriveHeader, providerVars
  <1>2. CASE Stop
    BY <1>1, <1>2, StopInv DEF BinaryInv, TypesInv
  <1>3. CASE ~Stop
    <2>1. /\ pc' = "ancestors" /\ UNCHANGED <<binary, fetched, output, open, dumped>>
          /\ UNCHANGED <<disk, stdins, entries, joining>>
          /\ fetched.previous = ParentOf(fetched.block)
      BY <1>3 DEF DeriveHeader, Goto, files, fetchVars
    <2>2. RootMayMatch' /\ fetched'.previous = ParentOf(fetched.block)'
      BY <2>1, <1>1, RootStays DEF BinaryInv, FetchedInv
    <2>3. TypesInv' /\ FetchedInv'
      BY <2>1, <2>2, <1>1 DEF BinaryInv, TypesInv, FetchedInv
    <2>4. OutputInv' /\ DumpInv'
      BY <2>1, <1>1 DEF BinaryInv, OutputInv, DumpInv, Writing
    <2>5. DiskInv'
      BY <2>1, <1>1, ForksStay DEF BinaryInv, DiskInv
    <2>6. ProofsInv'
      BY <2>1, <1>1 DEF BinaryInv, ProofsInv, ProofsComplete
    <2> QED
      BY <2>3, <2>4, <2>5, <2>6 DEF BinaryInv
  <1> QED
    BY <1>2, <1>3

(* An ancestor is a header of the fork the provider is on by now. *)
LEMMA FetchAncestorInv ==
  ASSUME BinaryInv, FetchAncestor
  PROVE  BinaryInv'
  <1>1. PICK b : /\ b = BlockAt(Number - 1 - Len(fetched.ancestors))
                 /\ fetched' = [fetched EXCEPT !.ancestors = Append(fetched.ancestors, b)]
    BY DEF FetchAncestor
  <1>2. /\ pc = "ancestors" /\ pc' = "ancestors" /\ UNCHANGED <<binary, output, open, dumped>>
        /\ UNCHANGED <<disk, stdins, chain, fork_at, shared, entries, joining>>
    BY DEF FetchAncestor, files, providerVars, fetchVars
  <1>3. b \in Hashes
    <2>1. chain \in Forks /\ fetched.ancestors \in Seq(Hashes)
      BY DEF BinaryInv, TypesInv
    <2>2. Number - 1 - Len(fetched.ancestors) \in Int
      BY <2>1, NumberAssumption
    <2> QED
      BY <2>1, <2>2, <1>1, BlockTypes DEF BlockAt
  <1>4. /\ TypesInv' /\ fetched'.block = fetched.block /\ fetched'.reads = fetched.reads
        /\ fetched'.previous = fetched.previous /\ fetched'.count = fetched.count
    <2>1. PICK longer \in Seq(Hashes) : longer = Append(fetched.ancestors, b)
      BY <1>3, AppendProperties DEF BinaryInv, TypesInv
    <2>2. fetched' = [fetched EXCEPT !.ancestors = longer]
      BY <2>1, <1>1
    <2> QED
      BY <2>2, <1>2 DEF BinaryInv, TypesInv
  <1>5. RootMayMatch' /\ fetched'.previous = ParentOf(fetched.block)'
    BY <1>2, <1>4, RootStays DEF BinaryInv, FetchedInv
  <1>6. FetchedInv'
    BY <1>2, <1>4, <1>5 DEF BinaryInv, FetchedInv
  <1>7. OutputInv' /\ DumpInv'
    BY <1>2 DEF BinaryInv, OutputInv, DumpInv, Writing
  <1>8. DiskInv'
    BY <1>2, ForksStay DEF BinaryInv, DiskInv
  <1>9. ProofsInv'
    BY <1>2 DEF BinaryInv, ProofsInv, ProofsComplete
  <1> QED
    BY <1>4, <1>6, <1>7, <1>8, <1>9 DEF BinaryInv

(* What is returned was verified: on the state of the parent, which the    *)
(* previous block has turned out to be, the root told the diff.            *)
LEMMA ReturnOutputInv ==
  ASSUME BinaryInv, ReadsInv, ReturnOutput
  PROVE  BinaryInv'
  <1>1. /\ pc = "ancestors" /\ pc' = "cache" /\ UNCHANGED <<binary, open, dumped>>
        /\ UNCHANGED <<disk, stdins, chain, fork_at, shared>>
        /\ fetched' = NothingFetched /\ entries' = {} /\ joining' = "none"
        /\ output' = [kind |-> Kind(binary), block |-> fetched.block,
                      previous |-> fetched.previous, reads |-> fetched.reads,
                      ancestors |-> fetched.ancestors, count |-> fetched.count]
    BY DEF ReturnOutput, files, providerVars, FetchReset
  <1>2. /\ fetched.block \in Hashes /\ fetched.previous \in Hashes
        /\ fetched.ancestors \in Seq(Hashes) /\ fetched.count \in 0..MaxSubblocks
        /\ fetched.previous = ParentOf(fetched.block) /\ DiffRight(fetched)
        /\ binary # "rsp" => fetched.count > 0
    BY <1>1, BlockTypes, NumberAssumption DEF BinaryInv, TypesInv, FetchedInv, RootMayMatch
  <1>3. fetched.reads \in [Accounts -> Hashes]
    BY <1>1 DEF ReadsInv, AfterExecute
  <1>4. output' \in Outputs
    BY <1>1, <1>2, <1>3 DEF Outputs, Kind
  <1>5. output' \in Verified
    BY <1>1, <1>2, <1>4 DEF Verified, DiffRight, Kind
  <1>6. OutputInv'
    BY <1>1, <1>5, ForksStay DEF BinaryInv, OutputInv, Writing
  <1>7. TypesInv'
    BY <1>1, SubblocksAssumption DEF BinaryInv, TypesInv, NothingFetched
  <1>8. FetchedInv' /\ DumpInv'
    BY <1>1 DEF BinaryInv, FetchedInv, DumpInv
  <1>9. DiskInv'
    BY <1>1, ForksStay DEF BinaryInv, DiskInv
  <1>10. ProofsInv'
    BY <1>1 DEF ProofsInv, ProofsComplete
  <1> QED
    BY <1>6, <1>7, <1>8, <1>9, <1>10 DEF BinaryInv

-----------------------------------------------------------------------------
(* The file of a step, for a step that is not the dump of a subblock. *)
FileOf(step) == IF step = "store" THEN "rpc" ELSE step

(* The output of a run that dumps has a subblock, and not too many. *)
LEMMA DumpCount ==
  ASSUME BinaryInv, pc \in {"dump"} \union Dumped
  PROVE  output.count \in 1..MaxSubblocks
  <1>1. output \in Verified /\ output.kind = Kind("subblock")
    BY DEF BinaryInv, OutputInv, Kind
  <1>2. output.count \in 0..MaxSubblocks /\ output.count > 0
    BY <1>1 DEF Verified, Outputs
  <1> QED
    BY <1>2, SubblocksAssumption

(* The next stdin file is one of the files, and those before it are there. *)
LEMMA DumpIndex ==
  ASSUME BinaryInv, pc = "dump", NEW content,
         stdins' = [stdins EXCEPT ![dumped] = content]
  PROVE  /\ output.count \in 1..MaxSubblocks /\ dumped \in Nat /\ dumped < output.count
         /\ stdins' = [i \in 0..(MaxSubblocks - 1) |-> stdins'[i]]
         /\ \A i \in 0..(dumped - 1) : stdins'[i] = output
         /\ stdins'[dumped] = content
  <1>1. output.count \in 1..MaxSubblocks
    BY DumpCount
  <1>2. /\ dumped \in Nat /\ dumped < output.count
        /\ \A i \in 0..(dumped - 1) : stdins[i] = output
    BY DEF BinaryInv, TypesInv, DumpInv
  <1>3. dumped \in 0..(MaxSubblocks - 1)
    BY <1>1, <1>2, SubblocksAssumption
  <1>4. stdins = [i \in 0..(MaxSubblocks - 1) |-> stdins[i]]
    BY DEF BinaryInv, TypesInv
  <1>5. stdins' = [i \in 0..(MaxSubblocks - 1) |-> IF i = dumped THEN content ELSE stdins[i]]
    BY <1>4
  <1>6. ASSUME NEW i \in 0..(dumped - 1)
        PROVE  i \in 0..(MaxSubblocks - 1) /\ i # dumped
    BY <1>2, <1>3, SubblocksAssumption
  <1> QED
    BY <1>1, <1>2, <1>3, <1>5, <1>6

\* A file that is created is damaged until it is written; a whole one of an
\* earlier run is lost, and no other is touched.
LEMMA CreateFileInv ==
  ASSUME BinaryInv, CreateFile
  PROVE  BinaryInv'
  <1>1. /\ Writing /\ Writing' /\ UNCHANGED <<pc, binary, fetched, output, dumped>>
        /\ UNCHANGED <<chain, fork_at, shared>>
        /\ UNCHANGED <<entries, tasks, joining, before_proofs, after_proofs>>
    BY DEF CreateFile, Writing, providerVars, fetchVars
  <1>2. IF pc = "dump" THEN stdins' = [stdins EXCEPT ![dumped] = Damaged] /\ UNCHANGED disk
                       ELSE disk' = [disk EXCEPT ![FileOf(pc)] = Damaged] /\ UNCHANGED stdins
    BY DEF CreateFile, Holds, FileOf
  <1>3. TypesInv'
    BY <1>1, <1>2 DEF BinaryInv, TypesInv
  <1>4. FetchedInv' /\ OutputInv'
    BY <1>1, ForksStay DEF BinaryInv, FetchedInv, OutputInv, Writing
  <1>5. DiskInv'
    BY <1>1, <1>2, ForksStay DEF BinaryInv, TypesInv, DiskInv, Files
  <1>6. DumpInv'
    <2>1. CASE pc = "dump"
      <3>1. /\ dumped \in Nat /\ dumped < output.count /\ UNCHANGED disk
            /\ \A i \in 0..(dumped - 1) : stdins'[i] = output
        BY <2>1, <1>2, DumpIndex
      <3> QED
        BY <3>1, <2>1, <1>1 DEF DumpInv
    <2>2. CASE pc # "dump"
      BY <2>2, <1>1, <1>2 DEF BinaryInv, TypesInv, DumpInv, Writing, Files, FileOf
    <2> QED
      BY <2>1, <2>2
  <1>7. ProofsInv'
    <2>1. \A chunk : TasksOf(chunk)' = TasksOf(chunk)
      BY <1>1 DEF TasksOf
    <2> QED
      BY <2>1, <1>1 DEF BinaryInv, ProofsInv, FetchInit, ProofsComplete, Writing
  <1> QED
    BY <1>3, <1>4, <1>5, <1>6, <1>7 DEF BinaryInv

(* The reads are stored, and no other file is. *)
LEMMA WriteStoreInv ==
  ASSUME BinaryInv, WriteFile, pc = "store"
  PROVE  BinaryInv'
  <1>1. /\ pc' = "proofs" /\ ~open' /\ UNCHANGED <<binary, fetched, output, dumped, stdins>>
        /\ UNCHANGED <<chain, fork_at, shared>>
        /\ UNCHANGED <<entries, tasks, joining, before_proofs, after_proofs>>
        /\ disk' = [disk EXCEPT !["rpc"] = fetched.reads]
    BY DEF WriteFile, AfterWrite, Holds, providerVars, fetchVars
  <1>2. TypesInv' /\ FetchedInv' /\ OutputInv' /\ DumpInv'
    BY <1>1 DEF BinaryInv, TypesInv, FetchedInv, OutputInv, DumpInv
  <1>3. DiskInv'
    BY <1>1, ForksStay DEF BinaryInv, TypesInv, DiskInv, Files
  <1>4. ProofsInv'
    <2>1. \A chunk : TasksOf(chunk)' = TasksOf(chunk)
      BY <1>1 DEF TasksOf
    <2> QED
      BY <2>1, <1>1 DEF BinaryInv, ProofsInv, ProofsComplete
  <1> QED
    BY <1>2, <1>3, <1>4 DEF BinaryInv

(* A stdin file of a subblock: the dump goes on behind the last of them. *)
LEMMA WriteSubblockInv ==
  ASSUME BinaryInv, WriteFile, pc = "dump"
  PROVE  BinaryInv'
  <1>1. /\ ~open' /\ UNCHANGED <<binary, fetched, output, disk>>
        /\ UNCHANGED <<chain, fork_at, shared>> /\ UNCHANGED <<entries, joining>>
        /\ pc' = IF dumped + 1 < output.count THEN "dump" ELSE "validate"
        /\ dumped' = dumped + 1
        /\ stdins' = [stdins EXCEPT ![dumped] = output]
    BY DEF WriteFile, AfterWrite, Holds, providerVars, fetchVars
  <1>2. /\ output.count \in 1..MaxSubblocks /\ dumped \in Nat /\ dumped < output.count
        /\ stdins' = [i \in 0..(MaxSubblocks - 1) |-> stdins'[i]]
        /\ \A i \in 0..(dumped - 1) : stdins'[i] = output
        /\ stdins'[dumped] = output
    BY <1>1, DumpIndex
  <1>3. \A i \in 0..dumped : stdins'[i] = output
    BY <1>2
  <1>4. TypesInv'
    BY <1>1, <1>2 DEF BinaryInv, TypesInv
  <1>5. FetchedInv' /\ OutputInv'
    BY <1>1, ForksStay DEF BinaryInv, FetchedInv, OutputInv
  <1>6. DumpInv'
    BY <1>1, <1>2, <1>3 DEF DumpInv
  <1>7. DiskInv' /\ ProofsInv'
    BY <1>1, ForksStay DEF BinaryInv, DiskInv, ProofsInv, ProofsComplete
  <1> QED
    BY <1>4, <1>5, <1>6, <1>7 DEF BinaryInv

(* The input cache and the files of the aggregator. *)
LEMMA WriteOutputInv ==
  ASSUME BinaryInv, WriteFile, pc \in {"cache", "agg_input", "aggregator", "final"}
  PROVE  BinaryInv'
  <1>1. /\ ~open' /\ UNCHANGED <<binary, fetched, output, dumped, stdins>>
        /\ UNCHANGED <<chain, fork_at, shared>> /\ UNCHANGED <<entries, joining>>
        /\ disk' = [disk EXCEPT ![pc] = output]
        /\ pc = "cache" => pc' = IF binary = "rsp" THEN "emulate" ELSE "dump"
        /\ pc = "agg_input" => pc' = "aggregator"
        /\ pc = "aggregator" => pc' = "final"
        /\ pc = "final" => pc' = "done"
    BY DEF WriteFile, AfterWrite, AfterCache, Holds, providerVars, fetchVars
  <1>2. /\ output \in Verified /\ output.kind = Kind(binary)
        /\ pc # "cache" => output \in OfOneFork
    BY DEF BinaryInv, OutputInv
  <1>3. disk' = [f \in Files |-> IF f = pc THEN output ELSE disk[f]]
    BY <1>1 DEF BinaryInv, TypesInv
  <1>4. binary # "rsp" => output.count \in Nat /\ 0 < output.count
    BY <1>2 DEF Verified, Outputs, Kind
  <1>5. TypesInv' /\ FetchedInv'
    BY <1>1, <1>3 DEF BinaryInv, TypesInv, FetchedInv
  <1>6. OutputInv'
    BY <1>1, <1>2, ForksStay DEF BinaryInv, OutputInv
  <1>7. DumpInv'
    BY <1>1, <1>3, <1>4 DEF BinaryInv, DumpInv, TypesInv, Files
  <1>8. DiskInv'
    BY <1>1, <1>2, <1>3, ForksStay DEF BinaryInv, DiskInv, Files
  <1>9. ProofsInv'
    BY <1>1 DEF BinaryInv, ProofsInv, ProofsComplete
  <1> QED
    BY <1>5, <1>6, <1>7, <1>8, <1>9 DEF BinaryInv

\* A file that is written.
LEMMA WriteFileInv ==
  ASSUME BinaryInv, WriteFile
  PROVE  BinaryInv'
  <1>1. pc \in {"store", "dump", "cache", "agg_input", "aggregator", "final"}
    BY DEF WriteFile, Writing
  <1> QED
    BY <1>1, WriteStoreInv, WriteSubblockInv, WriteOutputInv

(* An aggregation input that could not be written is done without. *)
LEMMA SkipAggInputInv ==
  ASSUME BinaryInv, SkipAggInput
  PROVE  BinaryInv'
  <1>1. /\ pc = "agg_input" /\ pc' = "aggregator" /\ ~open'
        /\ UNCHANGED <<binary, fetched, output, dumped, disk, stdins>>
        /\ UNCHANGED <<chain, fork_at, shared>> /\ UNCHANGED <<entries, joining>>
    BY DEF SkipAggInput, files, fetchVars
  <1>2. TypesInv' /\ FetchedInv' /\ DumpInv'
    BY <1>1 DEF BinaryInv, TypesInv, FetchedInv, DumpInv
  <1>3. OutputInv'
    BY <1>1, ForksStay DEF BinaryInv, OutputInv
  <1>4. DiskInv' /\ ProofsInv'
    BY <1>1, ForksStay DEF BinaryInv, DiskInv, ProofsInv, ProofsComplete
  <1> QED
    BY <1>2, <1>3, <1>4 DEF BinaryInv

(* Only what the aggregation accepts goes on to its stdin files. *)
LEMMA ValidateInv ==
  ASSUME BinaryInv, Validate
  PROVE  BinaryInv'
  <1>1. pc = "validate" /\ UNCHANGED <<chain, fork_at, shared>>
    BY DEF Validate, providerVars
  <1>2. CASE Stop
    BY <1>1, <1>2, StopInv DEF BinaryInv, TypesInv
  <1>3. CASE ~Stop
    <2>1. /\ pc' = "agg_input" /\ UNCHANGED <<binary, fetched, output, open, dumped>>
          /\ UNCHANGED <<disk, stdins>> /\ UNCHANGED <<entries, joining>>
          /\ Linked(output)
      BY <1>3 DEF Validate, Accepts, Goto, files, fetchVars
    <2>2. output \in OfOneFork
      BY <2>1, <1>1 DEF OfOneFork, BinaryInv, OutputInv
    <2>3. TypesInv' /\ FetchedInv' /\ DumpInv'
      BY <2>1, <1>1 DEF BinaryInv, TypesInv, FetchedInv, DumpInv
    <2>4. OutputInv'
      BY <2>1, <2>2, <1>1, ForksStay DEF BinaryInv, OutputInv, Writing
    <2>5. DiskInv' /\ ProofsInv'
      BY <2>1, <1>1, ForksStay DEF BinaryInv, DiskInv, ProofsInv, ProofsComplete
    <2> QED
      BY <2>3, <2>4, <2>5 DEF BinaryInv
  <1> QED
    BY <1>2, <1>3

(* A reorganisation between any two steps changes no answer already given. *)
LEMMA ReorgInv ==
  ASSUME BinaryInv, chain' \in Forks, UNCHANGED <<fork_at, shared>>,
         UNCHANGED <<runVars, files, fetchVars>>
  PROVE  BinaryInv'
  <1>1. /\ UNCHANGED <<pc, binary, fetched, output, open, dumped, disk, stdins>>
        /\ UNCHANGED <<entries, tasks, joining, before_proofs, after_proofs>>
    BY DEF runVars, files, fetchVars
  <1>2. RootMayMatch' = RootMayMatch /\ ParentOf(fetched.block)' = ParentOf(fetched.block)
    BY <1>1, RootStays
  <1>3. TypesInv' /\ FetchedInv'
    BY <1>1, <1>2 DEF BinaryInv, TypesInv, FetchedInv
  <1>4. OutputInv' /\ DumpInv'
    BY <1>1, ForksStay DEF BinaryInv, OutputInv, DumpInv, Writing
  <1>5. DiskInv'
    BY <1>1, ForksStay DEF BinaryInv, DiskInv
  <1>6. ProofsInv'
    <2>1. \A chunk : TasksOf(chunk)' = TasksOf(chunk)
      BY <1>1 DEF TasksOf
    <2> QED
      BY <2>1, <1>1 DEF BinaryInv, ProofsInv, FetchInit, ProofsComplete
  <1> QED
    BY <1>3, <1>4, <1>5, <1>6 DEF BinaryInv

-----------------------------------------------------------------------------
(***************************************************************************)
(* What the reads are, on whichever fork.  Most steps leave them and the   *)
(* file of them alone, or end the run.                                     *)
(***************************************************************************)
KeepsReads ==
  /\ fetched'.reads = fetched.reads \/ fetched'.reads = NoReads
  /\ disk'["rpc"] = disk["rpc"]
  /\ pc' \in AfterExecute => pc \in AfterExecute /\ fetched'.reads = fetched.reads

\* No account is read yet, and all that are read have a hash.
LEMMA NoReadsTypes == NoReads \in Reads /\ [Accounts -> Hashes] \subseteq Reads
  <1>1. NoReads \in [{} -> Hashes]
    BY DEF NoReads
  <1> QED
    BY <1>1 DEF Reads

LEMMA ReadsInitInv ==
  ASSUME BinaryInit
  PROVE  ReadsInv
  BY NoReadsTypes DEF BinaryInit, ReadsInv, NothingFetched, AfterExecute, Files

LEMMA KeptReads ==
  ASSUME ReadsInv, KeepsReads
  PROVE  ReadsInv'
  BY NoReadsTypes DEF ReadsInv, KeepsReads

(* A run that ends forgets its reads, and leaves the file of them. *)
LEMMA StopReads ==
  ASSUME Stop
  PROVE  KeepsReads
  BY DEF Stop, NothingFetched, files, KeepsReads, AfterExecute

(* A read is answered with a hash; the reads of the file of an earlier run *)
(* and the state of a witness are hashes, too.                             *)
LEMMA MoreReads ==
  ASSUME BinaryInv, ReadsInv, OpenBasicDb \/ OpenWitnessDb \/ \E a \in Accounts : ReadAccount(a)
  PROVE  ReadsInv'
  <1>1. CASE OpenBasicDb
    <2>1. /\ fetched'.reads \in {disk["rpc"], NoReads} /\ UNCHANGED disk
          /\ pc' \in {"execute", "split"}
          /\ fetched'.reads = disk["rpc"] => disk["rpc"] \in Reads
      <3>1. fetched' = [fetched EXCEPT !.reads = IF binary = "subblock" /\ Whole("rpc")
                                                   THEN disk["rpc"] ELSE NoReads]
        BY <1>1 DEF OpenBasicDb
      <3>2. fetched'.reads = IF binary = "subblock" /\ Whole("rpc") THEN disk["rpc"] ELSE NoReads
        BY <3>1 DEF BinaryInv, TypesInv
      <3>3. Whole("rpc") => disk["rpc"] \in Reads
        BY DEF ReadsInv, Whole
      <3> QED
        BY <3>2, <3>3, <1>1, NoReadsTypes DEF OpenBasicDb, Goto, files
    <2> QED
      BY <2>1, NoReadsTypes DEF ReadsInv, AfterExecute
  <1>2. CASE OpenWitnessDb
    <2>1. CASE Stop
      BY <2>1, StopReads, KeptReads
    <2>2. CASE ~Stop
      <3>1. PICK w : w = disk["witness"]
        OBVIOUS
      <3>2. w \in BlocksAt(Number)
        BY <1>2, <3>1 DEF OpenWitnessDb, Whole, BinaryInv, DiskInv
      <3>3. ParentOf(w) \in Hashes
        BY <3>2, BlockTypes, NumberAssumption
      <3>4. StateReads(ParentOf(w)) \in [Accounts -> Hashes]
        BY <3>3, BlockTypes DEF StateReads
      <3>5. /\ fetched' = [fetched EXCEPT !.reads = StateReads(ParentOf(w)),
                                          !.ancestors = Ancestors(w)]
            /\ pc' = "split" /\ UNCHANGED disk
        BY <1>2, <2>2, <3>1 DEF OpenWitnessDb, Goto, files
      <3>6. fetched'.reads = StateReads(ParentOf(w))
        BY <3>5 DEF BinaryInv, TypesInv
      <3> QED
        BY <3>4, <3>5, <3>6, NoReadsTypes DEF ReadsInv, AfterExecute
    <2> QED
      BY <2>1, <2>2
  <1>3. ASSUME NEW a \in Accounts, ReadAccount(a)
        PROVE  ReadsInv'
    <2>1. PICK known \in SUBSET Accounts : fetched.reads \in [known -> Hashes]
      BY DEF ReadsInv, Reads
    <2>2. PICK h : h = Value(a, BlockAt(Number - 1))
      OBVIOUS
    <2>3. h \in Hashes
      <3>1. BlockAt(Number - 1) \in Hashes
        BY BlockTypes, NumberAssumption DEF BlockAt, BinaryInv, TypesInv
      <3> QED
        BY <3>1, <2>2, BlockTypes
    <2>4. fetched' = [fetched EXCEPT !.reads =
                        [x \in DOMAIN fetched.reads \union {a} |->
                           IF x = a THEN h ELSE fetched.reads[x]]]
      BY <1>3, <2>2 DEF ReadAccount
    <2>5. fetched'.reads = [x \in DOMAIN fetched.reads \union {a} |->
                              IF x = a THEN h ELSE fetched.reads[x]]
      BY <2>4 DEF BinaryInv, TypesInv
    <2>6. DOMAIN fetched.reads = known /\ \A x \in known : fetched.reads[x] \in Hashes
      BY <2>1
    <2>7. fetched'.reads \in [known \union {a} -> Hashes] /\ known \union {a} \in SUBSET Accounts
      BY <2>3, <2>5, <2>6
    <2>8. pc' = "execute" /\ UNCHANGED disk
      BY <1>3 DEF ReadAccount, files
    <2>9. fetched'.reads \in Reads
      BY <2>7 DEF Reads
    <2> QED
      BY <2>8, <2>9 DEF ReadsInv, AfterExecute
  <1> QED
    BY <1>1, <1>2, <1>3

(* All accounts of an executed block are read. *)
LEMMA ExecutedReads ==
  ASSUME ReadsInv, Executed
  PROVE  ReadsInv'
  <1>1. fetched.reads \in [Accounts -> Hashes]
    <2>1. PICK known \in SUBSET Accounts : fetched.reads \in [known -> Hashes]
      BY DEF ReadsInv, Reads
    <2>2. known = Accounts
      BY <2>1 DEF Executed
    <2> QED
      BY <2>1, <2>2
  <1> QED
    BY <1>1 DEF Executed, files, ReadsInv

(* The file of the reads holds those of this run, or is damaged. *)
LEMMA StoredReads ==
  ASSUME BinaryInv, ReadsInv, CreateFile \/ WriteFile
  PROVE  ReadsInv'
  <1>1. /\ UNCHANGED fetched /\ Writing
        /\ pc' \in AfterExecute => pc \in AfterExecute
    BY DEF CreateFile, WriteFile, Writing, AfterWrite, AfterCache, AfterExecute
  <1>2. disk' = disk \/ \E f \in Files : /\ f = "rpc" => pc = "store"
                                         /\ \E c : /\ disk' = [disk EXCEPT ![f] = c]
                                                   /\ pc = "store" => c \in {Damaged, fetched.reads}
    <2>1. CASE pc = "dump"
      BY <2>1 DEF CreateFile, WriteFile, Holds
    <2>2. CASE pc = "store"
      <3>1. disk' = [disk EXCEPT !["rpc"] = Damaged] \/ disk' = [disk EXCEPT !["rpc"] = fetched.reads]
        BY <2>2 DEF CreateFile, WriteFile, Holds
      <3> QED
        BY <3>1, <2>2 DEF Files
    <2>3. CASE pc \notin {"dump", "store"}
      <3>1. \E c : disk' = [disk EXCEPT ![pc] = c]
        BY <2>3 DEF CreateFile, WriteFile, Holds
      <3>2. pc \in Files /\ pc # "rpc"
        BY <2>3, <1>1 DEF Writing, Files
      <3> QED
        BY <3>1, <3>2, <2>3
    <2> QED
      BY <2>1, <2>2, <2>3
  <1>3. disk'["rpc"] \in {disk["rpc"], Damaged, fetched.reads}
    BY <1>2 DEF BinaryInv, TypesInv, Files
  <1> QED
    BY <1>1, <1>3 DEF ReadsInv

(* All steps. *)
LEMMA ReadsStep ==
  ASSUME BinaryInv, ReadsInv, [BinaryNext]_binaryVars
  PROVE  ReadsInv'
  <1>0. /\ disk = [f \in Files |-> disk[f]]
        /\ fetched = [block |-> fetched.block, previous |-> fetched.previous,
                      reads |-> fetched.reads, ancestors |-> fetched.ancestors,
                      count |-> fetched.count]
    BY DEF BinaryInv, TypesInv
  <1>1. CASE UNCHANGED binaryVars
    BY <1>1, KeptReads DEF binaryVars, runVars, files, KeepsReads
  <1>2. CASE RunStep
    <2>1. ASSUME ExecutionError \/ ProofsPanic \/ Emulate
          PROVE  ReadsInv'
      BY <2>1, StopReads, KeptReads DEF ExecutionError, ProofsPanic, Emulate
    <2>2. ASSUME Start \/ FetchBlock \/ FetchPrevious
          PROVE  KeepsReads
      BY <2>2, <1>0 DEF Start, FetchBlock, FetchPrevious, Goto, files, KeepsReads, AfterExecute
    <2>3. ASSUME LoadInput
          PROVE  KeepsReads
      BY <2>3, <1>0 DEF LoadInput, LoadMiss, AfterCache, Goto, files, KeepsReads, AfterExecute, Files
    <2>4. ASSUME CreateWitness \/ WriteWitness
          PROVE  KeepsReads
      BY <2>4, <1>0 DEF CreateWitness, WriteWitness, KeepsReads, AfterExecute, Files
    <2>5. ASSUME SplitBlock
          PROVE  KeepsReads
      BY <2>5, <1>0, StopReads DEF SplitBlock, Goto, files, KeepsReads, AfterExecute
    <2>6. ASSUME FetchProofs \/ ProofsFetched
          PROVE  KeepsReads
      BY <2>6 DEF FetchProofs, ProofsFetched, Goto, runVars, files, KeepsReads, AfterExecute
    <2>7. ASSUME \E a \in Accounts : AskProof(a)
          PROVE  KeepsReads
      BY <2>7 DEF AskProof, files, KeepsReads, AfterExecute
    <2>8. ASSUME VerifyRoot \/ DeriveHeader \/ Validate
          PROVE  KeepsReads
      BY <2>8, StopReads DEF VerifyRoot, DeriveHeader, Validate, Goto, files, KeepsReads,
                             AfterExecute
    <2>9. ASSUME FetchAncestor \/ ReturnOutput
          PROVE  KeepsReads
      BY <2>9, <1>0 DEF FetchAncestor, ReturnOutput, NothingFetched, files, KeepsReads,
                        AfterExecute
    <2>10. ASSUME \/ OpenBasicDb \/ OpenWitnessDb \/ \E a \in Accounts : ReadAccount(a)
                  \/ Executed \/ CreateFile \/ WriteFile
           PROVE  ReadsInv'
      BY <2>10, MoreReads, ExecutedReads, StoredReads
    <2> QED
      BY <2>1, <2>2, <2>3, <2>4, <2>5, <2>6, <2>7, <2>8, <2>9, <2>10, <1>2, KeptReads DEF RunStep
  <1>3. CASE FaultStep
    <2>1. ASSUME Reorg, UNCHANGED <<runVars, files, fetchVars>>
          PROVE  KeepsReads
      BY <2>1 DEF runVars, files, KeepsReads
    <2>2. ASSUME Crash \/ FailRequest
          PROVE  KeepsReads
      BY <2>2, StopReads DEF Crash, FailRequest
    <2>3. ASSUME FailAttempt \/ SkipAggInput
          PROVE  KeepsReads
      BY <2>3 DEF FailAttempt, SkipAggInput, runVars, files, KeepsReads, AfterExecute
    <2>4. ASSUME \E b \in {"subblock", "witness", "rsp"} : StartOther(b)
          PROVE  KeepsReads
      BY <2>4 DEF StartOther, NothingFetched, files, KeepsReads, AfterExecute
    <2> QED
      BY <2>1, <2>2, <2>3, <2>4, <1>3, KeptReads DEF FaultStep
  <1> QED
    BY <1>1, <1>2, <1>3 DEF BinaryNext

(* Every step of a run, of the provider and of the operator. *)
LEMMA BinaryStep ==
  ASSUME BinaryInv, ReadsInv, [BinaryNext]_binaryVars
  PROVE  BinaryInv'
  <1>0. chain \in Forks
    BY DEF BinaryInv, TypesInv
  <1>1. CASE UNCHANGED binaryVars
    BY <1>0, <1>1, ReorgInv DEF binaryVars, providerVars
  <1>2. CASE RunStep
    <2>1. ASSUME ExecutionError \/ ProofsPanic \/ Emulate
          PROVE  BinaryInv'
      BY <2>1, <1>0, StopInv DEF ExecutionError, ProofsPanic, Emulate, providerVars
    <2>2. ASSUME Start \/ LoadInput \/ FetchBlock \/ FetchPrevious
          PROVE  BinaryInv'
      BY <2>2, StartInv, LoadInputInv, FetchBlockInv, FetchPreviousInv
    <2>3. ASSUME OpenBasicDb \/ OpenWitnessDb \/ CreateWitness \/ WriteWitness
          PROVE  BinaryInv'
      BY <2>3, OpenBasicDbInv, OpenWitnessDbInv, CreateWitnessInv, WriteWitnessInv
    <2>4. ASSUME \/ SplitBlock \/ Executed \/ FetchProofs \/ ProofsFetched
                 \/ \E a \in Accounts : ReadAccount(a)
                 \/ \E a \in Accounts : AskProof(a)
          PROVE  BinaryInv'
      BY <2>4, SplitBlockInv, ExecutedInv, FetchProofsInv, ProofsFetchedInv, ReadAccountInv,
         AskProofInv
    <2>5. ASSUME VerifyRoot \/ DeriveHeader \/ FetchAncestor \/ ReturnOutput
          PROVE  BinaryInv'
      BY <2>5, VerifyRootInv, DeriveHeaderInv, FetchAncestorInv, ReturnOutputInv
    <2>6. ASSUME CreateFile \/ WriteFile \/ Validate
          PROVE  BinaryInv'
      BY <2>6, CreateFileInv, WriteFileInv, ValidateInv
    <2> QED
      BY <2>1, <2>2, <2>3, <2>4, <2>5, <2>6, <1>2 DEF RunStep
  <1>3. CASE FaultStep
    <2>1. ASSUME Reorg, UNCHANGED <<runVars, files, fetchVars>>
          PROVE  BinaryInv'
      BY <2>1, ReorgInv DEF Reorg
    <2>2. ASSUME Crash \/ FailRequest
          PROVE  BinaryInv'
      BY <2>2, <1>0, StopInv DEF Crash, FailRequest
    <2>3. ASSUME FailAttempt \/ SkipAggInput
          PROVE  BinaryInv'
      BY <2>3, FetchProofsInv, SkipAggInputInv
    <2>4. ASSUME \E b \in {"subblock", "witness", "rsp"} : StartOther(b)
          PROVE  BinaryInv'
      BY <2>4, StartOtherInv
    <2> QED
      BY <2>1, <2>2, <2>3, <2>4, <1>3 DEF FaultStep
  <1> QED
    BY <1>1, <1>2, <1>3 DEF BinaryNext

\* The inductive invariant holds throughout every sequence of runs.
LEMMA BinaryInvariant == BinarySpec => [](BinaryInv /\ ReadsInv)
  BY BinaryInitInv, ReadsInitInv, BinaryStep, ReadsStep, PTL DEF BinarySpec

-----------------------------------------------------------------------------
(***************************************************************************)
(* An input cache that can be read was verified: its block is built on the *)
(* previous block, and the clients come to the diff the host came to,      *)
(* whatever the diff depends on, whichever fork the host's reads are from, *)
(* whichever of the binaries wrote the file and wherever crashes and       *)
(* reorganisations fell.                                                   *)
(***************************************************************************)
THEOREM BinaryCacheVerified == BinarySpec => []CacheVerified
  <1>1. BinaryInv => CacheVerified
    <2> SUFFICES ASSUME BinaryInv, Whole("cache"), NEW o, o = disk["cache"]
                 PROVE  /\ o.previous = ParentOf(o.block)
                        /\ Diff(o.block, o.reads) = Diff(o.block, StateReads(o.previous))
      BY DEF CacheVerified
    <2>1. o \in Verified
      BY DEF BinaryInv, DiskInv, Whole
    <2>2. o.previous = ParentOf(o.block) /\ DiffRight(o)
      BY <2>1 DEF Verified
    <2> QED
      BY <2>2 DEF DiffRight
  <1> QED
    BY <1>1, BinaryInvariant, PTL

(***************************************************************************)
(* A stdin file of the aggregator that can be read holds one chain of      *)
(* block, previous block and ancestor headers, although these go into the  *)
(* cache unchecked and may come with a witness of another fork.            *)
(***************************************************************************)
THEOREM BinaryAggregator == BinarySpec => []AggregatorOfOneFork
  <1>1. BinaryInv => AggregatorOfOneFork
    <2> SUFFICES ASSUME BinaryInv, NEW f \in {"aggregator", "final"}, Whole(f)
                 PROVE  OneFork(disk[f])
      BY DEF AggregatorOfOneFork
    <2>1. disk[f] \in OfOneFork
      BY DEF BinaryInv, DiskInv, Whole
    <2> QED
      BY <2>1 DEF OfOneFork, Verified, OneFork
  <1> QED
    BY <1>1, BinaryInvariant, PTL

(***************************************************************************)
(* A run of subblock that ended has left stdin files that are whole and    *)
(* all of one output, whatever was in the directory before.                *)
(***************************************************************************)
THEOREM BinaryDump == BinarySpec => []DumpConsistent
  <1>1. BinaryInv => DumpConsistent
    <2> SUFFICES ASSUME BinaryInv, pc = "done"
                 PROVE  /\ Whole("final")
                        /\ disk["aggregator"] = disk["final"]
                        /\ \A i \in 0..(disk["final"].count - 1) : stdins[i] = disk["final"]
      BY DEF DumpConsistent
    <2>1. output \in Outputs
      BY DEF BinaryInv, OutputInv, Verified
    <2>2. /\ disk["final"] = output /\ disk["aggregator"] = output
          /\ \A i \in 0..(output.count - 1) : stdins[i] = output
      BY DEF BinaryInv, DumpInv
    <2> QED
      BY <2>1, <2>2, FilesAssumption DEF Whole
  <1> QED
    BY <1>1, BinaryInvariant, PTL

(***************************************************************************)
(* The parent state is built from both proofs of every account, for every  *)
(* chunk size, number of retries and order in which the tasks end.         *)
(***************************************************************************)
THEOREM BinaryProofs == BinarySpec => []ProofsComplete
  <1>1. BinaryInv => ProofsComplete
    BY DEF BinaryInv, ProofsInv
  <1> QED
    BY <1>1, BinaryInvariant, PTL
=============================================================================

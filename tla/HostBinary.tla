----------------------------- MODULE HostBinary -----------------------------
(***************************************************************************)
(* The host binaries: subblock (bin/host/src/subblock.rs, with either      *)
(* variant of execute_subblock) and rsp (bin/host/src/main.rs, with        *)
(* execute_block).  A run loads the client input from the cache or makes   *)
(* it from what the provider answers, stores it, and subblock then dumps   *)
(* the stdin files of the proofs.  An operator starts a run again when one *)
(* ended, and may run either binary, for the same block number and the     *)
(* same directories.                                                       *)
(*                                                                         *)
(* What is computed from the answers is abstracted to where they came      *)
(* from: an output is [kind, block, previous, reads, ancestors, count], a  *)
(* file is an output, a map of reads, a block (a witness), Missing or      *)
(* Damaged.  bincode finds out that a file is damaged, or of the other     *)
(* kind.  What the execution makes of its reads is any function of them    *)
(* and the block (Diff): it may depend on all of them or on none.  The     *)
(* process keeps nothing but its files when it ends.                       *)
(***************************************************************************)
EXTENDS ProofFetch, Sequences

CONSTANTS
  Missing,
  Damaged,
  MaxSubblocks,    \* bound: subblocks a block is split into
  Diff(_, _)       \* what a block changes in the state if these are its reads

ASSUME SubblocksAssumption == MaxSubblocks \in Nat \ {0}

\* A block, and what is read from the state of one.
Hashes == Int \X Forks

\* SubblockHostOutput and ClientExecutorInput.
Outputs ==
  [kind : {"ClientExecutorInput", "SubblockHostOutput"}, block : Hashes, previous : Hashes,
   reads : [Accounts -> Hashes], ancestors : Seq(Hashes), count : 0..MaxSubblocks]

ASSUME FilesAssumption == Missing \notin Outputs /\ Damaged \notin Outputs

VARIABLES
  pc,
  binary,          \* subblock, witness (subblock --execution_witness) or rsp
  fetched,         \* what this run has got: [block, previous, reads, ancestors, count]
  output,          \* SubblockHostOutput or ClientExecutorInput, or Missing
  open,            \* a file was created and is not written yet
  dumped,          \* subblock_stdin_builder files written
  disk,            \* what the files hold
  stdins           \* what subblock_stdin_builder_<i>.bin hold

runVars == <<pc, binary, fetched, output, open, dumped>>
files == <<disk, stdins>>
binaryVars == <<runVars, files, providerVars, fetchVars>>

\* The caches of the input, of the reads and of the witness, and the dump.
Files == {"cache", "rpc", "witness", "agg_input", "aggregator", "final"}

Whole(f) == disk[f] \notin {Missing, Damaged}
Kind(b) == IF b = "rsp" THEN "ClientExecutorInput" ELSE "SubblockHostOutput"

NoReads == [x \in {} |-> Missing]
NothingFetched == [block |-> Missing, previous |-> Missing, reads |-> NoReads,
                   ancestors |-> << >>, count |-> 0]

BinaryInit ==
  /\ ProviderInit
  /\ FetchInit
  /\ pc = "off"
  /\ binary = "subblock"
  /\ fetched = NothingFetched
  /\ output = Missing
  /\ open = FALSE
  /\ dumped = 0
  /\ disk = [f \in Files |-> Missing]
  /\ stdins = [i \in 0..(MaxSubblocks - 1) |-> Missing]

\* The process is gone: an error is returned, a panic, a crash, or the end.
Stop ==
  /\ pc' = "off"
  /\ binary' = "subblock"
  /\ fetched' = NothingFetched
  /\ output' = Missing
  /\ open' = FALSE
  /\ dumped' = 0
  /\ FetchReset
  /\ UNCHANGED files

Goto(next) ==
  /\ pc' = next
  /\ UNCHANGED <<binary, output, open, dumped>>

Start ==
  /\ pc = "off"
  /\ pc' = "load"
  /\ UNCHANGED <<binary, fetched, output, open, dumped, files, providerVars, fetchVars>>

\* The operator runs another binary in between, or a run that is not needed.
StartOther(b) ==
  /\ pc \in {"off", "done"}
  /\ Fault
  /\ pc' = "load"
  /\ binary' = b
  /\ fetched' = NothingFetched
  /\ output' = Missing
  /\ dumped' = 0
  /\ FetchReset
  /\ UNCHANGED <<open, files, chain, fork_at, shared>>

Crash ==
  /\ pc \notin {"off", "done"}
  /\ Fault
  /\ Stop
  /\ UNCHANGED <<chain, fork_at, shared>>

\* A provider's error: ? in execute_subblock and expect() in main.
FailRequest ==
  /\ pc \in {"block", "previous", "db", "split", "execute", "ask", "ancestors"}
  /\ Fault
  /\ Stop
  /\ UNCHANGED <<chain, fork_at, shared>>

-----------------------------------------------------------------------------
\* Faulty: a file that cannot be read is an error.
LoadMiss_Error ==
  IF disk["cache"] = Missing
    THEN /\ Goto("block")
         /\ UNCHANGED <<fetched, files, fetchVars>>
    ELSE Stop

\* try_load_input_from_cache without a result; subblock deletes the bad file.
LoadMiss ==
  /\ Goto("block")
  /\ disk' = IF binary = "rsp" THEN disk ELSE [disk EXCEPT !["cache"] = Missing]
  /\ UNCHANGED <<fetched, stdins, fetchVars>>

AfterCache == IF binary = "rsp" THEN "emulate" ELSE "dump"

LoadInput ==
  /\ pc = "load"
  /\ IF Whole("cache") /\ disk["cache"].kind = Kind(binary)
       THEN /\ pc' = AfterCache
            /\ output' = disk["cache"]
            /\ UNCHANGED <<binary, fetched, open, dumped, files, fetchVars>>
       ELSE LoadMiss
  /\ UNCHANGED providerVars

FetchBlock ==
  /\ pc = "block"
  /\ fetched' = [fetched EXCEPT !.block = BlockAt(Number)]
  /\ Goto("previous")
  /\ UNCHANGED <<files, providerVars, fetchVars>>

FetchPrevious ==
  /\ pc = "previous"
  /\ fetched' = [fetched EXCEPT !.previous = BlockAt(Number - 1)]
  /\ Goto("db")
  /\ UNCHANGED <<files, providerVars, fetchVars>>

\* BasicRpcDb::new: the reads of an earlier run, if the file can be read.  rsp
\* has no such file.
OpenBasicDb ==
  /\ pc = "db"
  /\ binary # "witness"
  /\ fetched' = [fetched EXCEPT !.reads = IF binary = "subblock" /\ Whole("rpc")
                                            THEN disk["rpc"] ELSE NoReads]
  /\ Goto(IF binary = "rsp" THEN "execute" ELSE "split")
  /\ UNCHANGED <<files, providerVars, fetchVars>>

\* What is read from the state of a block.
StateReads(b) == [a \in Accounts |-> Value(a, b)]

Ancestors(b) == [i \in 1..(Number - OldestAncestor) |-> Block(b[2], Number - i)]

\* ExecutionWitnessRpcDb::new, once the witness is in its file; the tries must
\* have the state root of the previous block (unwrap).
OpenWitnessDb ==
  /\ pc = "db"
  /\ binary = "witness"
  /\ Whole("witness")
  /\ ~open
  /\ LET w == disk["witness"]
     IN  IF StateRoot(ParentOf(w)) = StateRoot(fetched.previous)
           THEN /\ fetched' = [fetched EXCEPT !.reads = StateReads(ParentOf(w)),
                                              !.ancestors = Ancestors(w)]
                /\ Goto("split")
                /\ UNCHANGED <<files, fetchVars>>
           ELSE Stop
  /\ UNCHANGED providerVars

\* Otherwise the witness is asked for and stored; the answer is kept while the
\* file is written.
CreateWitness ==
  /\ pc = "db"
  /\ binary = "witness"
  /\ ~Whole("witness")
  /\ ~open
  /\ open' = TRUE
  /\ output' = BlockAt(Number)
  /\ disk' = [disk EXCEPT !["witness"] = Damaged]
  /\ UNCHANGED <<pc, binary, fetched, dumped, stdins, providerVars, fetchVars>>

WriteWitness ==
  /\ pc = "db"
  /\ open
  /\ open' = FALSE
  /\ disk' = [disk EXCEPT !["witness"] = output]
  /\ output' = Missing
  /\ UNCHANGED <<pc, binary, fetched, dumped, stdins, providerVars, fetchVars>>

\* compute_subblock_gas_limits: the receipts may be those of the other fork, and
\* then an assertion may fail.
SplitBlock ==
  /\ pc = "split"
  /\ \/ /\ \E n \in 1..MaxSubblocks : fetched' = [fetched EXCEPT !.count = n]
        /\ Goto("execute")
        /\ UNCHANGED <<files, fetchVars>>
     \/ /\ BlockAt(Number) # fetched.block
        /\ Stop
  /\ UNCHANGED providerVars

-----------------------------------------------------------------------------
\* The executor reads an account that is in no cache.
ReadAccount(a) ==
  /\ pc = "execute"
  /\ a \notin DOMAIN fetched.reads
  /\ fetched' = [fetched EXCEPT !.reads =
                   [x \in DOMAIN @ \union {a} |->
                      IF x = a THEN Value(a, BlockAt(Number - 1)) ELSE @[x]]]
  /\ UNCHANGED <<pc, binary, output, open, dumped, files, providerVars, fetchVars>>

\* The block is executed.  The basic variant stores its reads and asks for
\* proofs; the state of a witness is there already.
Executed ==
  /\ pc = "execute"
  /\ DOMAIN fetched.reads = Accounts
  /\ Goto(CASE binary = "subblock" -> "store" [] binary = "witness" -> "verify"
            [] OTHER -> "ask")
  /\ entries' = IF binary = "witness" THEN {} ELSE Accounts
  /\ UNCHANGED <<fetched, files, providerVars, tasks, joining, before_proofs, after_proofs>>

\* A block executed on the state of another one may be invalid (BlockExecutionError,
\* or validate_block_post_execution in rsp).
ExecutionError ==
  /\ pc = "execute"
  /\ \E a \in DOMAIN fetched.reads : fetched.reads[a] # Value(a, ParentOf(fetched.block))
  /\ Stop
  /\ UNCHANGED providerVars

FetchProofs ==
  /\ pc = "proofs"
  /\ \/ StartChunk
     \/ \E t \in DOMAIN tasks : GetProof(t)
     \/ JoinBefore
     \/ JoinAfter
  /\ UNCHANGED <<runVars, files, providerVars>>

ProofsFetched ==
  /\ pc = "proofs"
  /\ Fetched
  /\ Goto("verify")
  /\ UNCHANGED <<fetched, files, providerVars, fetchVars>>

FailAttempt ==
  /\ pc = "proofs"
  /\ \E t \in DOMAIN tasks : FailProof(t)
  /\ Fault
  /\ UNCHANGED <<runVars, files, chain, fork_at, shared>>

\* The panic of a task ends the run.
ProofsPanic ==
  /\ pc = "proofs"
  /\ joining # "none"
  /\ JoinPanics
  /\ Stop
  /\ UNCHANGED providerVars

\* execute_variant of rsp asks for one proof after the other, without a retry.
AskProof(a) ==
  /\ pc = "ask"
  /\ a \in entries
  /\ \A x \in entries \intersect DOMAIN before_proofs : x = a
  /\ \/ /\ a \notin DOMAIN before_proofs
        /\ before_proofs' = [x \in DOMAIN before_proofs \union {a} |->
                               IF x = a THEN BlockAt(Number - 1) ELSE before_proofs[x]]
        /\ UNCHANGED <<entries, after_proofs>>
     \/ /\ a \in DOMAIN before_proofs
        /\ after_proofs' = [x \in DOMAIN after_proofs \union {a} |->
                              IF x = a THEN BlockAt(Number) ELSE after_proofs[x]]
        /\ entries' = entries \ {a}
        /\ UNCHANGED before_proofs
  /\ pc' = IF entries' = {} THEN "verify" ELSE pc
  /\ UNCHANGED <<binary, fetched, output, open, dumped, files, providerVars, tasks, joining>>

-----------------------------------------------------------------------------
\* The reads are those of the state the block was built on, or the execution
\* came to the same diff with others.
ReadsRight(got) == got.reads = StateReads(ParentOf(got.block))
DiffRight(got) == Diff(got.block, got.reads) = Diff(got.block, StateReads(ParentOf(got.block)))

\* The tries have the state root of the previous block only if a proof they are
\* built from does.
MayBuildState ==
  binary = "witness" \/ \E a \in DOMAIN before_proofs :
                           StateRoot(before_proofs[a]) = StateRoot(fetched.previous)

\* With proofs of one fork they surely do, and nothing in them is missing.
BuildsState ==
  /\ \A a \in DOMAIN before_proofs : StateRoot(before_proofs[a]) = StateRoot(fetched.previous)
  /\ \A a \in DOMAIN after_proofs : after_proofs[a] = fetched.block

\* The root of the previous state with the diff is the one in the header:
\* surely if that is the state and the diff of the block,
RootMatches ==
  StateRoot(fetched.previous) = StateRoot(ParentOf(fetched.block)) /\ DiffRight(fetched)

\* Faulty: the root is not compared with the block's.
RootMayMatch_Any == TRUE

\* not on that state with another diff; on another state it is open, as the diff
\* may write over what is different.
RootMayMatch ==
  StateRoot(fetched.previous) = StateRoot(ParentOf(fetched.block)) => DiffRight(fetched)

VerifyRoot ==
  /\ pc = "verify"
  /\ \/ /\ MayBuildState
        /\ RootMayMatch
        /\ Goto("header")
        /\ UNCHANGED <<fetched, files, fetchVars>>
     \/ /\ ~(BuildsState /\ RootMatches)
        /\ Stop
  /\ UNCHANGED providerVars

\* HeaderMismatch: the previous block is not the parent, or after wrong reads the
\* logs may be others.
DeriveHeader ==
  /\ pc = "header"
  /\ \/ /\ fetched.previous = ParentOf(fetched.block)
        /\ Goto("ancestors")
        /\ UNCHANGED <<fetched, files, fetchVars>>
     \/ /\ ~(fetched.previous = ParentOf(fetched.block) /\ ReadsRight(fetched))
        /\ Stop
  /\ UNCHANGED providerVars

\* One header of the ancestors; a witness brought its own.
FetchAncestor ==
  /\ pc = "ancestors"
  /\ Len(fetched.ancestors) < Number - OldestAncestor
  /\ fetched' = [fetched EXCEPT !.ancestors =
                   Append(@, BlockAt(Number - 1 - Len(@)))]
  /\ UNCHANGED <<pc, binary, output, open, dumped, files, providerVars, fetchVars>>

\* The roots of the subblocks are computed, and the output is returned.
ReturnOutput ==
  /\ pc = "ancestors"
  /\ Len(fetched.ancestors) = Number - OldestAncestor
  /\ output' = [kind |-> Kind(binary), block |-> fetched.block,
                previous |-> fetched.previous, reads |-> fetched.reads,
                ancestors |-> fetched.ancestors, count |-> fetched.count]
  /\ pc' = "cache"
  /\ fetched' = NothingFetched
  /\ FetchReset
  /\ UNCHANGED <<binary, open, dumped, files, providerVars>>

-----------------------------------------------------------------------------
\* The file of this step holds `content`.
Holds(content) ==
  IF pc = "dump"
    THEN /\ stdins' = [stdins EXCEPT ![dumped] = content]
         /\ UNCHANGED disk
    ELSE /\ disk' = [disk EXCEPT ![IF pc = "store" THEN "rpc" ELSE pc] = content]
         /\ UNCHANGED stdins

Writing == pc \in {"store", "cache", "dump", "agg_input", "aggregator", "final"}

\* File::create leaves an empty file,
CreateFile ==
  /\ Writing
  /\ ~open
  /\ open' = TRUE
  /\ Holds(Damaged)
  /\ UNCHANGED <<pc, binary, fetched, output, dumped, providerVars, fetchVars>>

\* Faulty: the loop over the subblocks ends one too early.
AfterWrite_OneShort ==
  CASE pc = "store"      -> "proofs"
    [] pc = "cache"      -> AfterCache
    [] pc = "dump"       -> IF dumped + 2 < output.count THEN "dump" ELSE "validate"
    [] pc = "agg_input"  -> "aggregator"
    [] pc = "aggregator" -> "final"
    [] pc = "final"      -> "done"

AfterWrite ==
  CASE pc = "store"      -> "proofs"
    [] pc = "cache"      -> AfterCache
    [] pc = "dump"       -> IF dumped + 1 < output.count THEN "dump" ELSE "validate"
    [] pc = "agg_input"  -> "aggregator"
    [] pc = "aggregator" -> "final"
    [] pc = "final"      -> "done"

\* and serialize_into fills it.
WriteFile ==
  /\ Writing
  /\ open
  /\ open' = FALSE
  /\ Holds(IF pc = "store" THEN fetched.reads ELSE output)
  /\ dumped' = IF pc = "dump" THEN dumped + 1 ELSE dumped
  /\ pc' = AfterWrite
  /\ UNCHANGED <<binary, fetched, output, providerVars, fetchVars>>

\* An error of dump_agg_stdin_to_files is ignored.
SkipAggInput ==
  /\ pc = "agg_input"
  /\ Fault
  /\ pc' = "aggregator"
  /\ open' = FALSE
  /\ UNCHANGED <<binary, fetched, output, dumped, files, chain, fork_at, shared, fetchVars>>

\* Each ancestor is the parent of the header before it.
Linked(o) ==
  \A i \in DOMAIN o.ancestors :
    o.ancestors[i] = ParentOf(IF i = 1 THEN o.block ELSE o.ancestors[i - 1])

\* Faulty: the dump is not validated.
Accepts_Any(o) == TRUE

\* execute_aggregation on the public values; after wrong reads it may also refuse
\* the receipts.
Accepts(o) == Linked(o)

Validate ==
  /\ pc = "validate"
  /\ \/ /\ Accepts(output)
        /\ Goto("agg_input")
        /\ UNCHANGED <<fetched, files, fetchVars>>
     \/ /\ ~(Accepts(output) /\ ReadsRight(output))
        /\ Stop
  /\ UNCHANGED providerVars

\* rsp executes the program, which panics or not, and ends.
Emulate ==
  /\ pc = "emulate"
  /\ Stop
  /\ UNCHANGED providerVars

RunStep ==
  \/ Start
  \/ LoadInput
  \/ FetchBlock
  \/ FetchPrevious
  \/ OpenBasicDb
  \/ OpenWitnessDb
  \/ CreateWitness
  \/ WriteWitness
  \/ SplitBlock
  \/ \E a \in Accounts : ReadAccount(a)
  \/ Executed
  \/ ExecutionError
  \/ FetchProofs
  \/ ProofsFetched
  \/ ProofsPanic
  \/ \E a \in Accounts : AskProof(a)
  \/ VerifyRoot
  \/ DeriveHeader
  \/ FetchAncestor
  \/ ReturnOutput
  \/ CreateFile
  \/ WriteFile
  \/ Validate
  \/ Emulate

FaultStep ==
  \/ Reorg /\ UNCHANGED <<runVars, files, fetchVars>>
  \/ Crash
  \/ FailRequest
  \/ FailAttempt
  \/ SkipAggInput
  \/ \E b \in {"subblock", "witness", "rsp"} : StartOther(b)

BinaryNext == RunStep \/ FaultStep

BinarySpec == BinaryInit /\ [][BinaryNext]_binaryVars
FairBinarySpec == BinarySpec /\ WF_binaryVars(RunStep)

-----------------------------------------------------------------------------
OneFork(o) == o.previous = ParentOf(o.block) /\ Linked(o)

(***************************************************************************)
(* What is in the input cache can be used by a later run that has no       *)
(* provider: the block is built on the previous block, and the clients,    *)
(* who read from the tries of the previous block, come to the diff the     *)
(* host came to, although the host's reads were answered by number, some   *)
(* of them in an earlier run and on another fork.  Nothing compares the    *)
(* reads themselves: a wrong one stays if the diff does not depend on it.  *)
(***************************************************************************)
CacheVerified ==
  Whole("cache") =>
    LET o == disk["cache"]
    IN  /\ o.previous = ParentOf(o.block)
        /\ Diff(o.block, o.reads) = Diff(o.block, StateReads(o.previous))

(***************************************************************************)
(* A stdin file of the aggregator that can be read was made from an output *)
(* whose block, previous block and ancestor headers are one chain,         *)
(* whatever runs crashed or failed before and after: the headers are       *)
(* fetched last and by number, and go into the cache unchecked.            *)
(***************************************************************************)
AggregatorOfOneFork ==
  \A f \in {"aggregator", "final"} : Whole(f) => OneFork(disk[f])

(***************************************************************************)
(* When a run of subblock has ended, the stdin files are there, whole and  *)
(* all of the same output, whatever an earlier run with other subblocks    *)
(* left in the directory.                                                  *)
(***************************************************************************)
DumpConsistent ==
  pc = "done" =>
    LET o == disk["final"]
    IN  /\ Whole("final")
        /\ disk["aggregator"] = o
        /\ \A i \in 0..(o.count - 1) : stdins[i] = o

(***************************************************************************)
(* The parent state is built from a proof before and a proof after for     *)
(* every account the block used, in however many chunks, and in whichever  *)
(* order the tasks of a chunk end.                                         *)
(***************************************************************************)
ProofsComplete ==
  (pc = "verify" /\ binary # "witness") =>
    DOMAIN before_proofs = Accounts /\ DOMAIN after_proofs = Accounts

\* A file may make every further run fail: the cached input is not linked or was
\* made from wrong reads, or what was stored of the provider's answers is not of
\* the fork it is on.
Poisoned ==
  \/ /\ Whole("cache")
     /\ disk["cache"].kind = Kind("subblock")
     /\ ~(Linked(disk["cache"]) /\ ReadsRight(disk["cache"]))
  \/ /\ Whole("rpc")
     /\ \E a \in DOMAIN disk["rpc"] : disk["rpc"][a] # Value(a, BlockAt(Number - 1))

(***************************************************************************)
(* Crashes, failing requests, files damaged half-way and the other binary  *)
(* overwriting the cache do not keep the operator from getting the dump:   *)
(* only a reorganisation can, by way of one of the two caches.             *)
(***************************************************************************)
DumpFinishes == []<>(pc = "done" \/ Poisoned)
=============================================================================

----------------------------- MODULE ProofFetch -----------------------------
(***************************************************************************)
(* How the host asks for the proofs of the accounts a block used: in       *)
(* chunks, two tasks for each account of a chunk (at the parent block and  *)
(* at the block), each retrying up to MAX_PROOF_RETRIES times.  The tasks  *)
(* of a chunk run together; the before tasks are joined first, then the    *)
(* after tasks, then comes the next chunk.                                 *)
(*                                                                         *)
(* A proof stands for the block it was answered for.                       *)
(***************************************************************************)
EXTENDS Provider, FiniteSets

CONSTANTS
  MaxProofRetries,  \* MAX_PROOF_RETRIES
  ChunkSize,        \* entries.chunks(10)
  NoProof

ASSUME RetriesAssumption == MaxProofRetries \in Nat \ {0}
ASSUME ChunkAssumption == ChunkSize \in Nat \ {0}

VARIABLES
  entries,          \* accounts no chunk has taken yet
  tasks,            \* [attempts, proof] of the tasks of this chunk
  joining,          \* the set of tasks that is waited for: before, after, none
  before_proofs,    \* before_storage_proofs, by address
  after_proofs      \* after_storage_proofs, by address

fetchVars == <<entries, tasks, joining, before_proofs, after_proofs>>

Height(side) == IF side = "before" THEN Number - 1 ELSE Number

Empty == [x \in {} |-> NoProof]

FetchInit ==
  /\ entries = {}
  /\ tasks = Empty
  /\ joining = "none"
  /\ before_proofs = Empty
  /\ after_proofs = Empty

FetchReset ==
  /\ entries' = {}
  /\ tasks' = Empty
  /\ joining' = "none"
  /\ before_proofs' = Empty
  /\ after_proofs' = Empty

\* The next chunk, in the order of a hash map.
IsChunk(chunk) ==
  \/ Cardinality(chunk) = ChunkSize
  \/ chunk = entries /\ Cardinality(chunk) < ChunkSize

StartChunk ==
  /\ joining = "none"
  /\ \E chunk \in SUBSET entries \ {{}} :
       /\ IsChunk(chunk)
       /\ entries' = entries \ chunk
       /\ tasks' = [t \in chunk \X {"before", "after"} |-> [attempts |-> 0, proof |-> NoProof]]
  /\ joining' = "before"
  /\ UNCHANGED <<before_proofs, after_proofs>>

Running(t) == tasks[t].proof = NoProof /\ tasks[t].attempts < MaxProofRetries
Panicked(t) == tasks[t].attempts >= MaxProofRetries

\* One attempt of get_proof is answered.
GetProof(t) ==
  /\ Running(t)
  /\ tasks' = [tasks EXCEPT ![t].proof = BlockAt(Height(t[2]))]
  /\ UNCHANGED <<entries, joining, before_proofs, after_proofs>>

\* One attempt fails; the last one is the task's panic (unwrap).
FailProof(t) ==
  /\ Running(t)
  /\ tasks' = [tasks EXCEPT ![t].attempts = @ + 1]
  /\ UNCHANGED <<entries, joining, before_proofs, after_proofs>>

Side(side) == {t \in DOMAIN tasks : t[2] = side}

\* join_all panics as soon as it meets a task that did.
JoinPanics == \E t \in Side(joining) : Panicked(t)

\* The proofs so far and those of the tasks just joined, by address.
Joined(proofs, side) ==
  [a \in DOMAIN proofs \union {t[1] : t \in Side(side)} |->
     IF a \in DOMAIN proofs THEN proofs[a] ELSE tasks[<<a, side>>].proof]

JoinBefore ==
  /\ joining = "before"
  /\ \A t \in Side("before") : tasks[t].proof # NoProof
  /\ before_proofs' = Joined(before_proofs, "before")
  /\ joining' = "after"
  /\ UNCHANGED <<entries, tasks, after_proofs>>

JoinAfter ==
  /\ joining = "after"
  /\ \A t \in Side("after") : tasks[t].proof # NoProof
  /\ after_proofs' = Joined(after_proofs, "after")
  /\ joining' = "none"
  /\ tasks' = Empty
  /\ UNCHANGED <<entries, before_proofs>>

\* Faulty: entries.chunks_exact, a last chunk that is not full is left out.
Fetched_ChunksExact == joining = "none" /\ Cardinality(entries) < ChunkSize

\* Behind the loop over the chunks.
Fetched == joining = "none" /\ entries = {}
=============================================================================

------------------------------- MODULE MptStore -------------------------------
(***************************************************************************)
(* A trie in use: any sequence of inserts, deletes, hash computations,     *)
(* clears and truncations, next to the map it is meant to hold.  `contents`*)
(* maps each key to its value, NoValue if it is absent.                    *)
(***************************************************************************)
EXTENDS Mpt

LOCAL INSTANCE SequencesExt

CONSTANTS Values

ASSUME ValuesAssumption == NoValue \notin Values

VARIABLES
  trie,
  contents,    \* history: what was inserted and not deleted
  readable,    \* history: the keys whose nodes every pruning kept, and those used since
  outcome      \* the last insert or delete: its result, whether contents changed,
               \* and whether its key was readable

storeVars == <<trie, contents, readable, outcome>>

NoOutcome == [result |-> "none", changes |-> FALSE, of_readable |-> FALSE]

StoreInit ==
  /\ trie = Null
  /\ contents = [k \in Keys |-> NoValue]
  /\ readable = Keys
  /\ outcome = NoOutcome

\* An operation that answered an error has no effect on contents.
Record(answer, key, value) ==
  /\ trie' = answer.trie
  /\ IF answer.result \in {"true", "false"}
       THEN /\ contents' = [contents EXCEPT ![key] = value]
            /\ readable' = readable \union {key}
       ELSE UNCHANGED <<contents, readable>>
  /\ outcome' = [result      |-> answer.result,
                 changes     |-> contents[key] # value,
                 of_readable |-> key \in readable]

InsertKey(key, value) == Record(Insert(trie, key, value), key, value)

DeleteKey(key) == Record(Delete(trie, key), key, NoValue)

\* hash() fills the caches.
ComputeHash ==
  /\ trie' = WithReferences(trie)
  /\ outcome' = NoOutcome
  /\ UNCHANGED <<contents, readable>>

Clear ==
  /\ trie' = Null
  /\ contents' = [k \in Keys |-> NoValue]
  /\ readable' = Keys
  /\ outcome' = NoOutcome

\* prune_unmarked_nodes with the nodes on the way to some keys.
Truncate ==
  /\ \E kept \in SUBSET Keys :
       /\ trie' = Prune(trie, UNION {GetTouched(trie, k) : k \in kept})
       /\ readable' = readable \intersect kept
  /\ outcome' = NoOutcome
  /\ UNCHANGED contents

StoreNext ==
  \/ \E key \in Keys, value \in Values : InsertKey(key, value)
  \/ \E key \in Keys : DeleteKey(key)
  \/ ComputeHash
  \/ Clear
  \/ Truncate

StoreSpec == StoreInit /\ [][StoreNext]_storeVars

-----------------------------------------------------------------------------
\* A branch has two children at least, an extension leads to a branch or a
\* digest, and every other node is below a branch or an extension.
WellFormedAt(t, p) ==
  LET below == {q \in DOMAIN t : IsStrictPrefix(p, q)}
      child == p \o t[p].data.nibs
  IN  CASE Kind(t, p) = "Branch" ->
             /\ \E i, j \in Children(t, p) : i # j
             /\ \A q \in below : SubSeq(q, 1, Len(p) + 1) \in DOMAIN t
        [] Kind(t, p) = "Extension" ->
             /\ child \in below
             /\ Kind(t, child) \in {"Branch", "Digest"}
             /\ \A q \in below : IsPrefix(child, q)
        [] OTHER -> below = {}

WellFormed(t) ==
  t # Null => << >> \in DOMAIN t /\ \A p \in DOMAIN t : WellFormedAt(t, p)

(***************************************************************************)
(* The nodes keep their shape: as the comments of delete_internal say,     *)
(* there is always a remaining child, and "an extension can only point to  *)
(* a branch or a digest".                                                  *)
(***************************************************************************)
TrieWellFormed == WellFormed(trie)

\* What a trie stands for is proper if its extensions lead to branches.  Only a
\* delete whose orphan is a digest can make an improper one: the digest goes
\* under an extension, whatever it is the digest of.
Proper(root) ==
  \A p \in DOMAIN root :
    root[p].kind = "Extension" => root[p \o root[p].nibs].kind = "Branch"

(***************************************************************************)
(* Whatever the order of inserts, deletes and truncations, and whenever    *)
(* hashes were computed and cached in between, hash() is the root of the   *)
(* contents: it does not depend on the history, no cached reference is     *)
(* stale, and what a truncated trie does not show is still committed to.   *)
(***************************************************************************)
RootIsContents ==
  Proper(Hash(trie)) \/ (\A p \in DOMAIN trie : Kind(trie, p) # "Digest")
    => Hash(trie) = Root(contents)

(***************************************************************************)
(* Nothing but an update that changes the contents changes the root:       *)
(* hash() itself does not, a failed or idle insert or delete does not, and *)
(* truncation does not, which prune() asserts.                             *)
(***************************************************************************)
OnlyUpdatesChangeRoot == [][contents' = contents => Hash(trie') = Hash(trie)]_storeVars

(***************************************************************************)
(* insert answers true exactly if it adds or changes the value, delete     *)
(* exactly if the key was there, and neither fails: on a whole trie, and   *)
(* on a truncated one for the keys whose nodes were kept, whatever was     *)
(* inserted and deleted since.                                             *)
(***************************************************************************)
ResultsTruthful ==
  outcome.of_readable => outcome.result = (IF outcome.changes THEN "true" ELSE "false")

(***************************************************************************)
(* get never returns a wrong value, and it misses none that is readable.   *)
(***************************************************************************)
GetTruthful ==
  \A k \in Keys : Get(trie, k) \in {contents[k]} \union (IF k \in readable THEN {} ELSE {NoValue})
=============================================================================

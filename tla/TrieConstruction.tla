-------------------------- MODULE TrieConstruction --------------------------
(***************************************************************************)
(* Tries built from what a provider answers: from the EIP-1186 proofs of   *)
(* a transition (transition_proofs_to_tries) or from an execution witness  *)
(* (build_validated_tries).                                                *)
(*                                                                         *)
(* A proof is the sequence of the references of its nodes, and a node      *)
(* store (a map from references to nodes in the code) a set of references: *)
(* a reference determines its node.                                        *)
(***************************************************************************)
EXTENDS Mpt

LOCAL INSTANCE SequencesExt

\* The reference of the node at p of what a reference stands for.
Subreference(reference, p) ==
  [s \in {Drop(q, Len(p)) : q \in {r \in DOMAIN reference : IsPrefix(p, r)}} |->
     reference[p \o s]]

\* A trie that is known by its digest only.
DigestTrie(reference) == [p \in {<< >>} |-> Node(Digest(reference))]

node_from_digest(root) == IF root = EmptyRoot THEN Null ELSE DigestTrie(root)

\* The positions of the children of the root node.
ChildPositions(reference) ==
  {p \in DOMAIN reference \ {<< >>} :
     \A q \in DOMAIN reference \ {<< >>} : ~IsStrictPrefix(q, p)}

\* The answer of eth_getProof for one key: the nodes on its way from the root.
ProofOf(root, key) ==
  LET upto[n \in 0..Len(key)] ==
        LET p    == SubSeq(key, 1, n)
            node == IF p \in DOMAIN root THEN <<Subreference(root, p)>> ELSE << >>
        IN  IF n = 0 THEN node ELSE upto[n - 1] \o node
  IN  upto[Len(key)]

\* mpt_from_proof: each node takes the place of the first digest of it in the
\* node before (FromProofError if there is none, which no honest proof meets).
\* MptNode::decode knows the children of a node by their digests only.
MptFromProof(proof) ==
  LET at[i \in 1..Len(proof)] ==
        IF i = 1 THEN << >>
        ELSE LET found == {p \in ChildPositions(proof[i - 1]) :
                             Subreference(proof[i - 1], p) = proof[i]}
                 first == CHOOSE p \in found : \A q \in found : p[1] <= q[1]
             IN  at[i - 1] \o first
      nodes == {at[i] : i \in 1..Len(proof)}
      whole == IF proof = << >> THEN Null ELSE proof[1]
      children(i) == {at[i] \o p : p \in ChildPositions(proof[i])}
      digests == UNION {children(i) : i \in 1..Len(proof)} \ nodes
  IN  [p \in nodes \union digests |->
         IF p \in nodes THEN Node(whole[p]) ELSE Node(Digest(Subreference(whole, p)))]

is_not_included(key, proof) == Get(MptFromProof(proof), key) = NoValue

\* resolve_nodes, from the root: the digests that are in the store are resolved.
ResolveNodes(root, store) ==
  LET resolved == {p \in DOMAIN root : Subreference(root, p) \in store}
      reached  == {p \in DOMAIN root : \A q \in DOMAIN root \ resolved : ~IsStrictPrefix(q, p)}
  IN  [p \in reached |->
         Node(IF p \in resolved THEN root[p] ELSE Digest(Subreference(root, p)))]

\* A leaf or an extension with the first n nibbles of its path left out.
Shortened(reference, n) ==
  [p \in {<< >>} \union {Drop(q, n) : q \in DOMAIN reference \ {<< >>}} |->
     IF p = << >> THEN [reference[p] EXCEPT !.nibs = Drop(@, n)]
     ELSE reference[SubSeq(reference[<< >>].nibs, 1, n) \o p]]

\* Faulty: the node as it is and no shorter one.
ShortenNodePath_Unchanged(reference) == {reference}

\* shorten_node_path: a deletion may have made the path longer, so every
\* shorter form may be the node that was there before.  An extension without a
\* nibble, the last of the code's forms, is no node of any trie.
ShortenNodePath(reference) ==
  CASE reference[<< >>].kind = "Leaf" ->
         {Shortened(reference, n) : n \in 0..Len(reference[<< >>].nibs)}
    [] reference[<< >>].kind = "Extension" ->
         {Shortened(reference, n) : n \in 0..(Len(reference[<< >>].nibs) - 1)}
    [] OTHER -> {}

\* What add_orphaned_leafs puts in the store.
OrphanedLeafs(key, proof) ==
  IF proof # << >> /\ is_not_included(key, proof)
    THEN ShortenNodePath(proof[Len(proof)])
    ELSE {}

\* The trie of proofs[k] for the keys k before a transition; after[k] are the
\* proofs of the keys it modified.  The root is the first node of a proof.
TrieFromProofs(proofs, after) ==
  LET store == UNION {ToSet(proofs[k]) : k \in DOMAIN proofs}
                 \union UNION {OrphanedLeafs(k, after[k]) : k \in DOMAIN after}
      roots == {proofs[k][1] : k \in {x \in DOMAIN proofs : proofs[x] # << >>}}
  IN  IF roots = {} THEN Null ELSE ResolveNodes(CHOOSE r \in roots : TRUE, store)

-----------------------------------------------------------------------------
\* for_each_leaves: the [key, value] of every leaf that is there.
Leaves(trie) ==
  {[key |-> p \o trie[p].data.nibs, value |-> trie[p].data.value] :
     p \in {q \in DOMAIN trie : Kind(trie, q) = "Leaf"}}

\* A trie whose root may or may not be among the nodes of the witness.
TrieFromWitness(root, witness) ==
  IF root \in witness THEN ResolveNodes(root, witness) ELSE DigestTrie(root)

\* The nodes on the way to a key.
NodesOnWay(root, key) == {Subreference(root, p) : p \in {q \in DOMAIN root : IsPrefix(q, key)}}

\* The references of a trie and of all its nodes.
NodesOf(reference) == {Subreference(reference, p) : p \in DOMAIN reference}
=============================================================================

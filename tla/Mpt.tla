--------------------------------- MODULE Mpt ---------------------------------
(***************************************************************************)
(* The sparse Merkle Patricia trie of crates/mpt: insert, delete, get,     *)
(* hash and prune on MptNode.                                              *)
(*                                                                         *)
(* A trie is a function from positions to nodes.  The position of a node   *)
(* is the nibbles that lead to it from the root, so the children of a      *)
(* branch at p are at Append(p, i) and the child of an extension at p is   *)
(* at p \o nibs; what a node holds besides its children is its data and    *)
(* its cached_reference.  The empty trie (MptNodeData::Null) has no        *)
(* position.  The recursion of the code along a key passes through the     *)
(* positions that are prefixes of the key; a split or a collapse leaves    *)
(* what is below it where it is.                                           *)
(*                                                                         *)
(* keccak is taken to be injective, so a reference is what it stands for:  *)
(* the data of the nodes from some position on, with the digests           *)
(* replaced.  A node other than a leaf encodes to 32 bytes or more (two    *)
(* hashed keys would have to agree in all but a few nibbles otherwise), so *)
(* its reference is a digest and a Digest node stands for it.  Encoded     *)
(* paths are the nibbles they encode.                                      *)
(***************************************************************************)
EXTENDS Integers, Sequences

LOCAL INSTANCE SequencesExt

CONSTANTS
  Nibbles,
  Keys          \* the hashes that are keys: sequences of nibbles of one length

ASSUME KeysAssumption ==
  \A k, l \in Keys : k \in Seq(Nibbles) /\ Len(k) = Len(l)

NoValue == << >>                \* None, what get returns for an absent key

Null == [p \in {} |-> p]        \* the empty trie
EmptyRoot == Null               \* EMPTY_ROOT, the hash of the empty trie
NoReference == Null             \* an empty cached_reference

\* A node that was just built or whose reference was invalidated.
Node(data) == [data |-> data, cached_reference |-> NoReference]

Leaf(nibs, value) == [kind |-> "Leaf", nibs |-> nibs, value |-> value]
Extension(nibs) == [kind |-> "Extension", nibs |-> nibs]
Branch == [kind |-> "Branch"]
Digest(digest) == [kind |-> "Digest", digest |-> digest]

Kind(trie, p) == trie[p].data.kind

Drop(s, n) == SubSeq(s, n + 1, Len(s))

\* The length of the common prefix of two paths.
lcp(a, b) ==
  CHOOSE n \in 0..Len(a) :
    /\ n <= Len(b)
    /\ SubSeq(a, 1, n) = SubSeq(b, 1, n)
    /\ n < Len(a) /\ n < Len(b) => a[n + 1] # b[n + 1]

\* The trie with one node put in a place or taken away.
Put(trie, p, data) ==
  [q \in DOMAIN trie \union {p} |-> IF q = p THEN Node(data) ELSE trie[q]]
Without(trie, p) == [q \in DOMAIN trie \ {p} |-> trie[q]]

\* The nodes on the way to a key, and the one where the way ends.
Path(trie, key) == {p \in DOMAIN trie : IsPrefix(p, key)}
Deepest(trie, key) ==
  CHOOSE p \in Path(trie, key) : \A q \in Path(trie, key) : Len(q) <= Len(p)

-----------------------------------------------------------------------------
\* The nodes from which on the reference is known without a look at what is
\* below: it is cached, or the node is a digest.
Known(trie, p) == trie[p].cached_reference # NoReference \/ Kind(trie, p) = "Digest"

KnownReference(trie, p) ==
  IF trie[p].cached_reference # NoReference THEN trie[p].cached_reference
                                            ELSE trie[p].data.digest

\* reference() and calc_reference(): a cached reference is returned unseen.
Reference(trie, p) ==
  LET below == {q \in DOMAIN trie : IsPrefix(p, q)}
      known == {q \in below : Known(trie, q)}
      tops  == {q \in known : ~\E r \in known : IsStrictPrefix(r, q)}
      open  == {q \in below : ~\E r \in tops : IsPrefix(r, q)}
      of(q) == CHOOSE r \in tops : IsPrefix(r, q)
      all   == open \union UNION {{r \o s : s \in DOMAIN KnownReference(trie, r)} : r \in tops}
  IN  [s \in {Drop(q, Len(p)) : q \in all} |->
         IF p \o s \in open THEN trie[p \o s].data
         ELSE KnownReference(trie, of(p \o s))[Drop(p \o s, Len(of(p \o s)))]]

\* What calling hash() leaves in the caches: encoding a node asks for the
\* references of its children.
WithReferences(trie) ==
  [p \in DOMAIN trie |->
     IF \E q \in Path(trie, p) : trie[q].cached_reference # NoReference
       THEN trie[p]
       ELSE [data |-> trie[p].data, cached_reference |-> Reference(trie, p)]]

\* hash().
Hash(trie) == IF trie = Null THEN EmptyRoot ELSE Reference(trie, << >>)

\* Serialization skips the caches.
Serialized(trie) == [p \in DOMAIN trie |-> Node(trie[p].data)]

-----------------------------------------------------------------------------
\* Faulty: a leaf answers for every key that leads to it.
Get_AnyLeaf(trie, key) ==
  IF trie = Null THEN NoValue
  ELSE LET p == Deepest(trie, key)
       IN  IF Kind(trie, p) = "Leaf" THEN trie[p].data.value ELSE NoValue

\* get_internal(): a truncated part answers None.
Get(trie, key) ==
  IF trie = Null THEN NoValue
  ELSE LET p == Deepest(trie, key)
       IN  IF Kind(trie, p) = "Leaf" /\ trie[p].data.nibs = Drop(key, Len(p))
             THEN trie[p].data.value ELSE NoValue

\* Faulty: only the root is marked.
GetTouched_Shallow(trie, key) ==
  {Reference(trie, p) : p \in {q \in Path(trie, key) : q = << >> /\ Kind(trie, q) # "Digest"}}

\* get_internal_with_touched(): the references met on the way.
GetTouched(trie, key) ==
  IF trie = Null THEN {EmptyRoot}
  ELSE {Reference(trie, p) : p \in {q \in Path(trie, key) : Kind(trie, q) # "Digest"}}

-----------------------------------------------------------------------------
\* insert and delete return Ok(true), Ok(false) or an error.
Changed(trie) == [result |-> "true", trie |-> trie]
Same(trie) == [result |-> "false", trie |-> trie]
Failed(error, trie) == [result |-> error, trie |-> trie]

\* Faulty: the references on the way stay.
Invalidated_Not(trie, key) == trie

\* On its way back a change invalidates the references of the nodes it passes;
\* Ok(false) and errors return before that.
Invalidated(trie, key) ==
  [p \in DOMAIN trie |-> IF IsPrefix(p, key) THEN Node(trie[p].data) ELSE trie[p]]

\* The branch that separates the leaf of a new key from what is at p, under an
\* extension for what their paths have in common.  The old node moves below it
\* with a shorter path, and an extension of one nibble is not needed any more.
Split(trie, p, key, value) ==
  LET old    == trie[p].data
      n      == lcp(old.nibs, Drop(key, Len(p)))
      at     == p \o SubSeq(old.nibs, 1, n)
      moved  == Append(at, old.nibs[n + 1])
      rest   == Drop(old.nibs, n + 1)
      parted == CASE old.kind = "Leaf" -> Put(trie, moved, Leaf(rest, old.value))
                  [] old.kind = "Extension" /\ rest # << >> -> Put(trie, moved, Extension(rest))
                  [] OTHER -> trie
      above  == IF n > 0 THEN Put(parted, p, Extension(SubSeq(old.nibs, 1, n))) ELSE parted
      split  == Put(above, at, Branch)
  IN  Put(split, SubSeq(key, 1, Len(at) + 1), Leaf(Drop(key, Len(at) + 1), value))

\* Faulty: the value is not compared.
InsertAtLeaf_Overwrite(trie, p, key, value) ==
  IF trie[p].data.nibs = Drop(key, Len(p))
    THEN Changed(Put(trie, p, Leaf(Drop(key, Len(p)), value)))
    ELSE Changed(Split(trie, p, key, value))

\* What ends inside another path would need a value in a branch.
InsertAtLeaf(trie, p, key, value) ==
  LET nibs == trie[p].data.nibs
      rest == Drop(key, Len(p))
      n    == lcp(nibs, rest)
  IN  IF nibs = rest
        THEN IF trie[p].data.value = value THEN Same(trie)
                                           ELSE Changed(Put(trie, p, Leaf(rest, value)))
        ELSE IF n = Len(nibs) \/ n = Len(rest) THEN Failed("ValueInBranch", trie)
                                               ELSE Changed(Split(trie, p, key, value))

\* insert_internal() where the way of the key ends: a branch there has no child
\* for it, and an extension leads elsewhere.
InsertInto(trie, p, key, value) ==
  LET rest == Drop(key, Len(p))
  IN  CASE Kind(trie, p) = "Branch" ->
             IF rest = << >> THEN Failed("ValueInBranch", trie)
             ELSE Changed(Put(trie, Append(p, rest[1]), Leaf(Drop(rest, 1), value)))
        [] Kind(trie, p) = "Leaf" -> InsertAtLeaf(trie, p, key, value)
        [] Kind(trie, p) = "Extension" ->
             IF lcp(trie[p].data.nibs, rest) = Len(rest) THEN Failed("ValueInBranch", trie)
             ELSE Changed(Split(trie, p, key, value))
        [] OTHER -> Failed("NodeNotResolved", trie)

\* What insert and delete return once the change has been passed on to the root.
Propagated(answer, key) ==
  IF answer.result = "true" THEN Changed(Invalidated(answer.trie, key)) ELSE answer

Insert(trie, key, value) ==
  IF trie = Null THEN Changed(Put(Null, << >>, Leaf(key, value)))
  ELSE Propagated(InsertInto(trie, Deepest(trie, key), key, value), key)

-----------------------------------------------------------------------------
Children(trie, p) == {i \in Nibbles : Append(p, i) \in DOMAIN trie}

\* What takes the place of nibs followed by a node: leaves and extensions get
\* longer, a branch or a digest goes under an extension.
Prepend(trie, p, nibs) ==
  LET child == p \o nibs
      data  == trie[child].data
  IN  CASE child \notin DOMAIN trie -> Without(trie, p)
        [] child \in DOMAIN trie /\ data.kind = "Leaf" ->
             Put(Without(trie, child), p, Leaf(nibs \o data.nibs, data.value))
        [] child \in DOMAIN trie /\ data.kind = "Extension" ->
             Put(Without(trie, child), p, Extension(nibs \o data.nibs))
        [] OTHER -> Put(trie, p, Extension(nibs))

\* Faulty: a branch stays a branch.
Collapse_Never(trie, p) == Put(trie, p, Branch)

\* A branch below which a key was deleted: with one child left it gives way to
\* that orphan.
Collapse(trie, p) ==
  IF \E i, j \in Children(trie, p) : i # j THEN Put(trie, p, Branch)
  ELSE Prepend(trie, p, <<CHOOSE i \in Children(trie, p) : TRUE>>)

\* delete_internal() on the way back from the leaf at p, which is gone: the
\* branches and extensions above it are put in order one by one, up to the root.
Unwound(trie, p) ==
  LET up[n \in 0..Len(p)] ==
        IF n = 0 THEN Without(trie, p)
        ELSE LET q == SubSeq(p, 1, Len(p) - n)
             IN  CASE q \in DOMAIN trie /\ Kind(trie, q) = "Branch" -> Collapse(up[n - 1], q)
                   [] q \in DOMAIN trie /\ Kind(trie, q) = "Extension" ->
                        Prepend(up[n - 1], q, trie[q].data.nibs)
                   [] OTHER -> up[n - 1]
  IN  up[Len(p)]

DeleteAt(trie, p, key) ==
  LET rest == Drop(key, Len(p))
  IN  CASE Kind(trie, p) = "Branch" /\ rest = << >> -> Failed("ValueInBranch", trie)
        [] Kind(trie, p) = "Leaf" /\ trie[p].data.nibs = rest -> Changed(Unwound(trie, p))
        [] Kind(trie, p) = "Digest" -> Failed("NodeNotResolved", trie)
        [] OTHER -> Same(trie)

Delete(trie, key) ==
  IF trie = Null THEN Same(trie)
  ELSE DeleteAt(trie, Deepest(trie, key), key)

\* Faulty: the nodes on the way, but no orphan.
DeleteTouched_Path(trie, key) == IF trie = Null THEN {} ELSE GetTouched(trie, key)

\* delete_internal_with_touched(): the references of the nodes on the way and
\* of the orphan, the only node left beside the leaf that goes.
DeleteTouched(trie, key) ==
  IF trie = Null THEN {}
  ELSE LET p       == Deepest(trie, key)
           parent  == SubSeq(p, 1, Len(p) - 1)
           others  == {Append(parent, i) : i \in Children(trie, parent)} \ {p}
           deleted == Delete(trie, key).result = "true"
           orphans == {q \in others : deleted /\ p # << >> /\ others = {q}}
       IN  GetTouched(trie, key) \union {Reference(trie, q) : q \in orphans}

-----------------------------------------------------------------------------
\* Faulty: the digest is whatever is cached, even if that is nothing.
Prune_Cached(trie, touched_refs) ==
  LET unmarked == {p \in DOMAIN trie : Kind(trie, p) # "Leaf"
                                         /\ Reference(trie, p) \notin touched_refs}
      kept     == {p \in DOMAIN trie : ~\E q \in unmarked : IsStrictPrefix(q, p)}
  IN  [p \in kept |->
         Node(IF p \in unmarked THEN Digest(trie[p].cached_reference) ELSE trie[p].data)]

\* prune_unmarked_nodes(): what was not touched becomes its digest, except for
\* leaves.  The digest node keeps the reference that was cached.
Prune(trie, touched_refs) ==
  LET unmarked == {p \in DOMAIN trie : Kind(trie, p) # "Leaf"
                                         /\ Reference(trie, p) \notin touched_refs}
      kept     == {p \in DOMAIN trie : ~\E q \in unmarked : IsStrictPrefix(q, p)}
  IN  [p \in kept |->
         IF p \in unmarked
           THEN [data |-> Digest(Reference(trie, p)), cached_reference |-> Reference(trie, p)]
           ELSE Node(trie[p].data)]

-----------------------------------------------------------------------------
\* The trie of a map by its definition; the root commits to this.  Its branches
\* are at the forks, where two keys part.  A node that is not at a fork is a
\* leaf if no fork is below it, and otherwise an extension to the next one.
Stems(keys) == UNION {Prefixes(k) : k \in keys}

Forks(keys) ==
  {p \in Stems(keys) : \E k, l \in keys :
     /\ IsStrictPrefix(p, k)
     /\ IsStrictPrefix(p, l)
     /\ k[Len(p) + 1] # l[Len(p) + 1]}

DataAt(p, map, keys, forks) ==
  LET below == {f \in forks : IsPrefix(p, f)}
      next  == CHOOSE f \in below : \A g \in below : Len(f) <= Len(g)
      key   == CHOOSE k \in keys : IsPrefix(p, k)
  IN  CASE p \in forks -> Branch
        [] below = {}  -> Leaf(Drop(key, Len(p)), map[key])
        [] OTHER       -> Extension(Drop(next, Len(p)))

Root(map) ==
  LET keys  == {k \in DOMAIN map : map[k] # NoValue}
      forks == Forks(keys)
      nodes == {p \in Stems(keys) : \/ p \in forks \union {<< >>}
                                    \/ SubSeq(p, 1, Len(p) - 1) \in forks}
  IN  [p \in nodes |-> DataAt(p, map, keys, forks)]
=============================================================================

------------------------ MODULE EthereumStateProofs ------------------------
(***************************************************************************)
(* Proofs about EthereumState, for all blocks of IsBlock and all orders in *)
(* which hash maps are walked through: the tries that the host builds and  *)
(* the parts of them that prune() leaves for a client are enough for every *)
(* operation.                                                              *)
(***************************************************************************)
EXTENDS EthereumState, MptStoreProofs

LOCAL INSTANCE SequencesExt

-----------------------------------------------------------------------------
(* Tries that serve some keys: what they hold is some map, and the way to the keys is open. *)

Serves(t, keys) == \E map : IsMap(map) /\ Represents(t, map, keys)

(* The empty trie serves every key. *)
LEMMA NullServes ==
  ASSUME NEW keys, keys \subseteq Keys
  PROVE  Serves(Null, keys)
  <1>1. PICK map : map = [k \in Keys |-> NoValue]
    OBVIOUS
  <1> QED
    BY <1>1, EmptyStore DEF Serves, Represents

(* And a trie serves fewer keys too. *)
LEMMA FewerServed ==
  ASSUME NEW t, NEW keys, Serves(t, keys), NEW fewer, fewer \subseteq keys
  PROVE  Serves(t, fewer)
  BY DEF Serves, Represents

(* An insert or a delete that is done leaves the trie as it should be. *)
LEMMA DoneServes ==
  ASSUME NEW t, NEW map, IsMap(map), NEW keys, Represents(t, map, keys),
         NEW key \in keys, NEW value, NEW answer,
         \A new : UpdatedTo(map, new, key, value) => Done(t, map, new, key, value, answer)
  PROVE  answer.result \in {"true", "false"} /\ Serves(answer.trie, keys)
  <1>0. /\ Good(t, map) /\ Faithful(t, map) /\ keys \subseteq Keys /\ key \in Keys
        /\ \A k \in keys : Sure(t, map, k)
    BY DEF Represents
  <1>1. PICK new : new = [map EXCEPT ![key] = value]
    OBVIOUS
  <1>2. IsMap(new) /\ UpdatedTo(map, new, key, value)
    BY <1>0, <1>1 DEF IsMap, UpdatedTo
  <1>3. Done(t, map, new, key, value, answer)
    BY <1>2
  <1>4. answer.result \in {"true", "false"}
    BY <1>0, <1>3 DEF Done, Sure
  <1>5. CASE answer.result = "true"
    <2>1. /\ Good(answer.trie, new)
          /\ DigestsKept(t, answer.trie)
          /\ CachesFrom(t, answer.trie)
          /\ Sure(answer.trie, new, key)
          /\ \A k \in Keys : k # key /\ Sure(t, map, k) => Sure(answer.trie, new, k)
      BY <1>3, <1>5 DEF Done
    <2>2. Faithful(answer.trie, new)
      BY <2>1, <1>0, <1>2, UpdateFaithful
    <2> QED
      BY <2>1, <2>2, <1>0, <1>2, <1>5 DEF Serves, Represents
  <1>6. CASE answer.result = "false"
    BY <1>3, <1>6 DEF Done, Serves
  <1> QED
    BY <1>4, <1>5, <1>6

(* insert on a key that is served. *)
LEMMA InsertServes ==
  ASSUME NEW t, NEW keys, Serves(t, keys), NEW key \in keys, NEW value, value # NoValue
  PROVE  Insert(t, key, value).result \in {"true", "false"} /\ Serves(Insert(t, key, value).trie, keys)
  <1>1. PICK map : IsMap(map) /\ Represents(t, map, keys)
    BY DEF Serves
  <1>2. Good(t, map) /\ key \in Keys
    BY <1>1 DEF Represents
  <1>3. PICK answer : answer = Insert(t, key, value)
    OBVIOUS
  <1>4. \A new : UpdatedTo(map, new, key, value) => Done(t, map, new, key, value, answer)
    BY <1>2, <1>3, InsertDone
  <1> QED
    BY <1>1, <1>3, <1>4, DoneServes

(* delete on a key that is served. *)
LEMMA DeleteServes ==
  ASSUME NEW t, NEW keys, Serves(t, keys), NEW key \in keys
  PROVE  Delete(t, key).result \in {"true", "false"} /\ Serves(Delete(t, key).trie, keys)
  <1>1. PICK map : IsMap(map) /\ Represents(t, map, keys)
    BY DEF Serves
  <1>2. Good(t, map) /\ key \in Keys
    BY <1>1 DEF Represents
  <1>3. PICK answer : answer = Delete(t, key)
    OBVIOUS
  <1>4. \A new : UpdatedTo(map, new, key, NoValue) => Done(t, map, new, key, NoValue, answer)
    BY <1>2, <1>3, DeleteDone
  <1> QED
    BY <1>1, <1>3, <1>4, DoneServes

(* hash() leaves what is served. *)
LEMMA HashedServes ==
  ASSUME NEW t, NEW keys, Serves(t, keys)
  PROVE  Serves(WithReferences(t), keys)
  <1>1. PICK map : IsMap(map) /\ Represents(t, map, keys)
    BY DEF Serves
  <1>2. Represents(WithReferences(t), map, keys)
    BY <1>1, HashedFaithful DEF Represents
  <1> QED
    BY <1>1, <1>2 DEF Serves

(* So does the way to the client. *)
LEMMA SerializedServes ==
  ASSUME NEW t, NEW keys, Serves(t, keys)
  PROVE  Serves(Serialized(t), keys)
  <1>1. PICK map : IsMap(map) /\ Represents(t, map, keys)
    BY DEF Serves
  <1>2. PICK u : u = Serialized(t)
    OBVIOUS
  <1>3. /\ u = [p \in DOMAIN u |-> u[p]]
        /\ DOMAIN u = DOMAIN t
        /\ \A p \in DOMAIN u : u[p].data = t[p].data /\ u[p].cached_reference = NoReference
        /\ \A p \in DOMAIN u : Kind(u, p) = Kind(t, p) /\ End(u, p) = End(t, p)
    BY <1>2, NodeIs DEF Serialized, Kind, End
  <1>4. Good(u, map)
    BY <1>1, <1>3, SameFormGood DEF Represents, SameForm
  <1>5. Faithful(u, map)
    <2>1. PICK w : Reveals(t, w) /\ Holds(w, map)
      BY <1>1 DEF Represents, Faithful
    <2>2. Reveals(u, w)
      BY <2>1, <1>3 DEF Reveals, Digests
    <2> QED
      BY <2>1, <2>2 DEF Faithful
  <1>6. \A k \in keys : Sure(u, map, k)
    BY <1>1, <1>3 DEF Represents, Sure, Open, HasLeaf
  <1> QED
    BY <1>1, <1>2, <1>4, <1>5, <1>6 DEF Serves, Represents
-----------------------------------------------------------------------------
(* The marks of get_touched_nodes. *)

(* The references that are known are of tries. *)
Referring(t) == \A r \in DOMAIN t : Known(t, r) => DOMAIN KnownReference(t, r) \subseteq Positions

LEMMA ServesReferring ==
  ASSUME NEW t, NEW keys, Serves(t, keys)
  PROVE  Referring(t) /\ DOMAIN t \subseteq Positions
  <1>1. PICK map : IsMap(map) /\ Represents(t, map, keys)
    BY DEF Serves
  <1>2. PICK w : Reveals(t, w) /\ Holds(w, map)
    BY <1>1 DEF Represents, Faithful
  <1>3. DOMAIN w \subseteq Positions /\ DOMAIN t \subseteq Positions
    BY <1>1, <1>2 DEF Holds, IsTrie, Represents, Good
  <1>4. View(t, DataOf(w), Digests(t))
    BY <1>2, <1>3, RevealsView
  <1>5. PICK f : f = DataOf(w)
    OBVIOUS
  <1>6. DOMAIN f \subseteq Positions
    BY <1>3, <1>5, DataOfIs
  <1>7. ASSUME NEW r \in DOMAIN t, Known(t, r)
        PROVE  DOMAIN KnownReference(t, r) \subseteq Positions
    <2>1. KnownReference(t, r) = Subreference(f, r) /\ r \in Positions
      BY <1>3, <1>4, <1>5, <1>7 DEF View
    <2>2. \A s \in DOMAIN Subreference(f, r) : s \in Positions
      BY <2>1, <1>6, SubreferenceIs
    <2> QED
      BY <2>1, <2>2
  <1> QED
    BY <1>3, <1>7 DEF Referring

(* Where nothing changed below a node its reference is the same. *)
LEMMA KeptSameReference ==
  ASSUME NEW t, NEW u, DOMAIN t \subseteq Positions, DOMAIN u \subseteq Positions, Referring(t),
         NEW p \in Positions, Kept(t, u, p)
  PROVE  Reference(u, p) = Reference(t, p)
  <1> DEFINE below(v) == {q \in DOMAIN v : IsPrefix(p, q)}
             known(v) == {q \in below(v) : Known(v, q)}
             tops(v)  == {q \in known(v) : ~\E r \in known(v) : IsStrictPrefix(r, q)}
             open(v)  == {q \in below(v) : ~\E r \in tops(v) : IsPrefix(r, q)}
             of(v, q) == CHOOSE r \in tops(v) : IsPrefix(r, q)
             from(v, r) == {r \o s : s \in DOMAIN KnownReference(v, r)}
             all(v)   == open(v) \union UNION {from(v, r) : r \in tops(v)}
             value(v, q) == IF q \in open(v) THEN v[q].data
                            ELSE KnownReference(v, of(v, q))[Drop(q, Len(of(v, q)))]
  <1>1. \A v : Reference(v, p) = [s \in {Drop(q, Len(p)) : q \in all(v)} |-> value(v, p \o s)]
    BY DEF Reference
  <1>2. below(u) = below(t) /\ below(t) \subseteq Positions /\ \A q \in below(t) : u[q] = t[q]
    BY DEF Kept
  <1>3. \A q \in below(t) : (Known(u, q) <=> Known(t, q)) /\ KnownReference(u, q) = KnownReference(t, q)
    BY <1>2 DEF Known, KnownReference, Kind
  <1>4. known(u) = known(t)
    BY <1>2, <1>3
  <1>5. tops(u) = tops(t) /\ \A r \in tops(t) : r \in below(t) /\ r \in DOMAIN t /\ IsPrefix(p, r) /\ Known(t, r)
    BY <1>4
  <1>6. open(u) = open(t) /\ \A q \in open(t) : q \in below(t) /\ IsPrefix(p, q)
    BY <1>2, <1>5
  <1> HIDE DEF below, known, tops, open
  <1>7. \A r \in tops(t) : KnownReference(u, r) = KnownReference(t, r) /\ r \in Positions
                             /\ DOMAIN KnownReference(t, r) \subseteq Positions
    BY <1>2, <1>3, <1>5 DEF Referring
  <1>8. \A r \in tops(t) : from(u, r) = from(t, r)
    BY <1>7
  <1>9. \A r \in tops(t) : \A q \in from(t, r) : q \in Positions /\ IsPrefix(r, q) /\ IsPrefix(p, q)
    <2>1. ASSUME NEW r \in tops(t), NEW s \in DOMAIN KnownReference(t, r)
          PROVE  r \o s \in Positions /\ IsPrefix(r, r \o s) /\ IsPrefix(p, r \o s)
      <3>1. r \in Positions /\ s \in Positions /\ IsPrefix(p, r)
        BY <1>5, <1>7
      <3>2. PICK q \in Positions : q = r \o s
        BY <3>1, ConcatIs, Zenon
      <3>3. IsPrefix(r, q)
        BY <3>1, <3>2, PrefixConcat, Zenon
      <3>4. IsPrefix(p, q)
        BY <3>1, <3>3, PrefixTrans
      <3> QED
        BY <3>2, <3>3, <3>4, Zenon
    <2> QED
      BY <2>1, Zenon
  <1> HIDE DEF from
  <1>10. all(u) = all(t)
    BY <1>5, <1>6, <1>8
  <1>11. ASSUME NEW q \in all(t)
         PROVE  /\ q \in Positions /\ IsPrefix(p, q)
                /\ q \notin open(t) => of(t, q) \in tops(t)
    <2>1. CASE q \in open(t)
      BY <2>1, <1>2, <1>6
    <2>2. CASE q \notin open(t)
      <3>1. PICK r \in tops(t) : q \in from(t, r)
        BY <2>2
      <3>2. q \in Positions /\ IsPrefix(r, q) /\ IsPrefix(p, q)
        BY <3>1, <1>9
      <3> QED
        BY <3>1, <3>2
    <2> QED
      BY <2>1, <2>2
  <1>12. \A q : of(u, q) = of(t, q)
    BY <1>5
  <1> HIDE DEF of, all
  <1>13. ASSUME NEW q \in all(t)
         PROVE  p \o Drop(q, Len(p)) = q /\ value(u, q) = value(t, q)
    <2>1. p \o Drop(q, Len(p)) = q
      BY <1>11, PrefixRest
    <2>2. CASE q \in open(t)
      <3>1. u[q] = t[q]
        BY <2>2, <1>2, <1>6
      <3> QED
        BY <2>1, <2>2, <3>1, <1>6
    <2>3. CASE q \notin open(t)
      <3>1. KnownReference(u, of(t, q)) = KnownReference(t, of(t, q))
        BY <2>3, <1>7, <1>11
      <3> QED
        BY <2>1, <2>3, <3>1, <1>6, <1>12, Zenon
    <2> QED
      BY <2>2, <2>3
  <1> HIDE DEF value
  <1>14. ASSUME NEW s \in {Drop(q, Len(p)) : q \in all(t)}
         PROVE  value(u, p \o s) = value(t, p \o s)
    <2>1. PICK q \in all(t) : s = Drop(q, Len(p))
      OBVIOUS
    <2> QED
      BY <2>1, <1>13, Zenon
  <1>15. [s \in {Drop(q, Len(p)) : q \in all(t)} |-> value(u, p \o s)]
           = [s \in {Drop(q, Len(p)) : q \in all(t)} |-> value(t, p \o s)]
    BY <1>14, Zenon
  <1> QED
    BY <1>1, <1>10, <1>15, Zenon

(* What delete_internal_with_touched does not mark, delete leaves as it is. *)
LEMMA DeleteMarks ==
  ASSUME NEW t, NEW map, Good(t, map), NEW key \in Keys, NEW x \in DOMAIN t, Kind(t, x) # "Digest"
  PROVE  Reference(t, x) \in DeleteTouched(t, key) \/ Kept(t, Delete(t, key).trie, x)
  <1>0. IsTrie(t) /\ DOMAIN t \subseteq Positions /\ x \in Positions /\ key \in Positions /\ t # Null
    BY KeysLength, NullIs DEF Good, IsTrie
  <1>1. PICK p : p = Deepest(t, key)
    OBVIOUS
  <1>2. DeepestAt(t, key, p) /\ p \in DOMAIN t /\ p \in Positions /\ IsPrefix(p, key)
    BY <1>0, <1>1, DeepestIs DEF DeepestAt
  <1>3. Delete(t, key) = DeleteAt(t, p, key)
    BY <1>0, <1>1 DEF Delete
  <1> DEFINE parent  == SubSeq(p, 1, Len(p) - 1)
             others  == {Append(parent, i) : i \in Children(t, parent)} \ {p}
             deleted == Delete(t, key).result = "true"
             orphans == {q \in others : deleted /\ p # << >> /\ others = {q}}
  <1>4. DeleteTouched(t, key) = GetTouched(t, key) \union {Reference(t, q) : q \in orphans}
    BY <1>0, <1>1, SMT DEF DeleteTouched
  <1>5. ASSUME IsPrefix(x, key)
        PROVE  Reference(t, x) \in DeleteTouched(t, key)
    <2>1. x \in {q \in Path(t, key) : Kind(t, q) # "Digest"}
      BY <1>5 DEF Path
    <2>2. Reference(t, x) \in GetTouched(t, key)
      BY <2>1, <1>0, Zenon DEF GetTouched
    <2> QED
      BY <2>2, <1>4
  <1>6. CASE Kind(t, p) = "Leaf" /\ t[p].data.nibs = Drop(key, Len(p))
    <2>1. Delete(t, key) = Changed(Unwound(t, p))
      BY <1>3, <1>6 DEF DeleteAt
    <2>2. End(t, p) = key
      BY <1>2, <1>6, LeafAtEnd
    <2>3. Doomed(t, map, key, p)
      BY <1>2, <1>6, <2>2 DEF Doomed
    <2>4. PICK u : u = Unwound(t, p)
      OBVIOUS
    <2>5. Unwinding(t, map, key, p, u, 0)
      BY <2>3, <2>4, UnwoundIs
    <2>6. Delete(t, key).trie = u /\ deleted
      BY <2>1, <2>4, ChangedIs
    <2>7. CASE IsPrefix(x, p)
      BY <2>7, <1>0, <1>2, <1>5, PrefixTrans
    <2>8. CASE ~IsPrefix(x, p) /\ x \in DOMAIN u
      BY <2>5, <2>6, <2>8 DEF Unwinding
    <2>9. CASE ~IsPrefix(x, p) /\ x \notin DOMAIN u
      <3>1. Orphan(t, p, x)
        BY <2>5, <2>9 DEF Unwinding
      <3>2. p # << >> /\ others = {x}
        BY <3>1, Zenon DEF Orphan
      <3>3. x \in orphans
        BY <3>2, <2>6, Zenon
      <3> HIDE DEF orphans
      <3> QED
        BY <3>3, <1>4
    <2> QED
      BY <2>7, <2>8, <2>9
  <1>7. CASE ~(Kind(t, p) = "Leaf" /\ t[p].data.nibs = Drop(key, Len(p)))
    <2>1. Delete(t, key).trie = t
      BY <1>3, <1>7 DEF DeleteAt, Same, Failed
    <2>2. Kept(t, t, x)
      BY DEF Kept
    <2> QED
      BY <2>1, <2>2
  <1> QED
    BY <1>6, <1>7

(* Every node of t is marked, or as it was in the clone u. *)
Marked(t, u, marks) ==
  \A x \in DOMAIN t : Kind(t, x) # "Digest" => Reference(t, x) \in marks \/ Kept(t, u, x)

(* Nothing is deleted at first. *)
LEMMA MarkedFirst ==
  ASSUME NEW t, NEW marks
  PROVE  Marked(t, t, marks)
  BY DEF Marked, Kept

(* More marks do no harm. *)
LEMMA MarkedMore ==
  ASSUME NEW t, NEW u, NEW marks, Marked(t, u, marks), NEW more, marks \subseteq more
  PROVE  Marked(t, u, more)
  BY DEF Marked

(* A delete in the clone marks what it changes. *)
LEMMA MarkedDelete ==
  ASSUME NEW t, NEW u, NEW marks, Marked(t, u, marks), NEW keys, Serves(t, keys), Serves(u, keys), NEW key \in keys
  PROVE  Marked(t, Delete(u, key).trie, marks \union DeleteTouched(u, key))
  <1>1. PICK map : IsMap(map) /\ Represents(u, map, keys)
    BY DEF Serves
  <1>2. Good(u, map) /\ key \in Keys
    BY <1>1 DEF Represents
  <1>3. /\ Referring(t) /\ DOMAIN t \subseteq Positions /\ DOMAIN u \subseteq Positions
    BY ServesReferring
  <1>4. PICK w : w = Delete(u, key).trie
    OBVIOUS
  <1>5. DOMAIN w \subseteq Positions
    BY <1>4, DeleteServes, ServesReferring
  <1>6. ASSUME NEW x \in DOMAIN t, Kind(t, x) # "Digest", Reference(t, x) \notin marks \union DeleteTouched(u, key)
        PROVE  Kept(t, w, x)
    <2>1. Kept(t, u, x) /\ x \in Positions
      BY <1>3, <1>6 DEF Marked
    <2>2. x \in DOMAIN u /\ Kind(u, x) # "Digest"
      BY <2>1, <1>6, PrefixSelf DEF Kept, Kind
    <2>3. Reference(u, x) = Reference(t, x)
      BY <2>1, <1>3, KeptSameReference
    <2>4. Kept(u, w, x)
      BY <2>2, <2>3, <1>2, <1>4, <1>6, DeleteMarks
    <2> QED
      BY <2>1, <2>4, KeptTwice
  <1> QED
    BY <1>4, <1>6 DEF Marked

(* With the nodes on the way to some keys, as the clone has them at last, all those of t are marked; *)
(* so what is left of t serves those keys.                                                           *)
LEMMA MarkedServes ==
  ASSUME NEW t, NEW u, NEW marks, Marked(t, u, marks), NEW keys, Serves(t, keys), DOMAIN u \subseteq Positions,
         NEW few, few \subseteq keys, \A k \in few : GetTouched(u, k) \subseteq marks
  PROVE  Serves(Prune(t, marks), few) /\ Hash(Prune(t, marks)) = Hash(t)
  <1>1. PICK map : IsMap(map) /\ Represents(t, map, keys)
    BY DEF Serves
  <1>2. Good(t, map) /\ Faithful(t, map) /\ keys \subseteq Keys /\ few \subseteq Keys /\ \A k \in keys : Sure(t, map, k)
    BY <1>1 DEF Represents
  <1>3. Good(Prune(t, marks), map) /\ Faithful(Prune(t, marks), map) /\ Hash(Prune(t, marks)) = Hash(t)
    BY <1>2, PruneGood, PruneFaithful
  <1>4. Referring(t) /\ DOMAIN t \subseteq Positions
    BY ServesReferring
  <1>5. PICK cut : /\ Cut(t, Prune(t, marks), cut)
                   /\ \A p \in cut : Reference(t, p) \notin marks
    BY PruneIs
  <1>6. ASSUME NEW k \in few
        PROVE  Sure(Prune(t, marks), map, k)
    <2>1. ASSUME NEW p \in cut, IsPrefix(p, k)
          PROVE  FALSE
      <3>1. p \in DOMAIN t /\ p \in Positions /\ Reference(t, p) \notin marks
        BY <1>4, <1>5 DEF Cut
      <3>2. Kind(t, p) # "Digest"
        BY <3>1, <2>1, <1>2 DEF Sure, Open
      <3>3. Kept(t, u, p)
        BY <3>1, <3>2 DEF Marked
      <3>4. p \in DOMAIN u /\ Kind(u, p) # "Digest" /\ Reference(u, p) = Reference(t, p)
        BY <3>1, <3>2, <3>3, <1>4, KeptSameReference, PrefixSelf DEF Kept, Kind
      <3>5. p \in {q \in Path(u, k) : Kind(u, q) # "Digest"} /\ u # Null
        BY <3>4, <2>1 DEF Path, Null
      <3>6. Reference(u, p) \in GetTouched(u, k)
        BY <3>5, Zenon DEF GetTouched
      <3> QED
        BY <3>1, <3>4, <3>6
    <2> QED
      BY <2>1, <1>2, <1>5, CutSure
  <1> QED
    BY <1>1, <1>2, <1>3, <1>6 DEF Serves, Represents

-----------------------------------------------------------------------------
(* The tries the host builds. *)

(* The root of a map of keys. *)
IsRoot(root) ==
  root = EmptyRoot \/ \E map : IsMap(map) /\ (\E k \in Keys : map[k] # NoValue) /\ root = Root(map)

(* A root is that of all keys, or of nothing; what a map says of other keys than those with a value is open. *)
LEMMA RootsAre ==
  ASSUME NEW f, DOMAIN f \subseteq Keys
  PROVE  /\ IsRoot(Root(f))
         /\ \E map : IsMap(map) /\ Root(map) = Root(f) /\ \A k \in Keys : map[k] = IF k \in DOMAIN f THEN f[k] ELSE NoValue
  <1>1. PICK map : map = [k \in Keys |-> IF k \in DOMAIN f THEN f[k] ELSE NoValue]
    OBVIOUS
  <1>2. IsMap(map) /\ DOMAIN map = Keys
    BY <1>1 DEF IsMap
  <1>3. PICK keys : keys = {k \in DOMAIN f : f[k] # NoValue}
    OBVIOUS
  <1>4. keys = {k \in DOMAIN map : map[k] # NoValue}
    BY <1>1, <1>2, <1>3
  <1>5. \A k \in keys : map[k] = f[k]
    BY <1>1, <1>3
  <1>6. PICK forks : forks = Forks(keys)
    OBVIOUS
  <1> DEFINE nodes == {p \in Stems(keys) : \/ p \in forks \union {<< >>}
                                           \/ SubSeq(p, 1, Len(p) - 1) \in forks}
  <1>7. Root(f) = [p \in nodes |-> DataAt(p, f, keys, forks)]
    BY <1>3, <1>6, Zenon DEF Root
  <1>8. Root(map) = [p \in nodes |-> DataAt(p, map, keys, forks)]
    BY <1>4, <1>6, Zenon DEF Root
  <1>9. ASSUME NEW p \in nodes
        PROVE  DataAt(p, f, keys, forks) = DataAt(p, map, keys, forks)
    <2>1. \E k \in keys : IsPrefix(p, k)
      BY <1>3, KeysLength, StemsAre
    <2>2. PICK key : key = CHOOSE k \in keys : IsPrefix(p, k)
      OBVIOUS
    <2>3. key \in keys
      BY <2>1, <2>2
    <2>4. map[key] = f[key]
      BY <2>3, <1>5
    <2> QED
      BY <2>2, <2>4 DEF DataAt
  <1> HIDE DEF nodes
  <1>10. Root(map) = Root(f)
    <2>1. [p \in nodes |-> DataAt(p, f, keys, forks)] = [p \in nodes |-> DataAt(p, map, keys, forks)]
      BY <1>9, Zenon
    <2> QED
      BY <2>1, <1>7, <1>8, Zenon
  <1>11. ASSUME \E k \in Keys : map[k] # NoValue
         PROVE  IsRoot(Root(f))
    BY <1>11, <1>2, <1>10 DEF IsRoot
  <1>12. ASSUME \A k \in Keys : map[k] = NoValue
         PROVE  IsRoot(Root(f))
    <2>1. keys = {}
      BY <1>2, <1>4, <1>12
    <2>2. Stems(keys) = {}
      BY <2>1 DEF Stems
    <2>3. nodes = {}
      BY <2>2 DEF nodes
    <2>4. PICK root : root = Root(f)
      OBVIOUS
    <2>5. root = [p \in nodes |-> root[p]]
      BY <2>4, <1>7, Zenon
    <2>6. root = EmptyRoot
      BY <2>3, <2>5 DEF EmptyRoot, Null
    <2> QED
      BY <2>4, <2>6 DEF IsRoot
  <1>13. IsRoot(Root(f))
    BY <1>11, <1>12
  <1>14. \A k \in Keys : map[k] = IF k \in DOMAIN f THEN f[k] ELSE NoValue
    BY <1>1
  <1> QED
    BY <1>2, <1>10, <1>13, <1>14, Zenon

(* A root is a function on positions, and one that is not empty has its first node. *)
LEMMA RootDomain ==
  ASSUME NEW root, IsRoot(root)
  PROVE  /\ root = [p \in DOMAIN root |-> root[p]]
         /\ DOMAIN root \subseteq Positions
         /\ root # EmptyRoot => << >> \in DOMAIN root
         /\ root = EmptyRoot => DOMAIN root = {}
  <1>1. CASE root = EmptyRoot
    BY <1>1 DEF EmptyRoot, Null
  <1>2. ASSUME NEW map, IsMap(map), NEW k \in Keys, map[k] # NoValue, root = Root(map)
        PROVE  /\ root = [p \in DOMAIN root |-> root[p]]
               /\ DOMAIN root \subseteq Positions
               /\ << >> \in DOMAIN root
    <2>1. PICK t : t = TrieOf(map)
      OBVIOUS
    <2>2. root = DataOf(t) /\ << >> \in DOMAIN t
      BY <1>2, <2>1, TrieOfIs, RootedRoot
    <2>3. Good(t, map)
      BY <1>2, <2>1, TrieOfGood
    <2> QED
      BY <2>2, <2>3, DataOfIs DEF Good, IsTrie
  <1>3. CASE root # EmptyRoot
    <2>1. PICK map : IsMap(map) /\ (\E k \in Keys : map[k] # NoValue) /\ root = Root(map)
      BY <1>3 DEF IsRoot
    <2> QED
      BY <2>1, <1>2, <1>3
  <1> QED
    BY <1>1, <1>3

(* What ProofOf has collected down to the first n nibbles. *)
UptoNode(root, key, n) ==
  LET p == SubSeq(key, 1, n)
  IN  IF p \in DOMAIN root THEN <<Subreference(root, p)>> ELSE << >>

(* The recursion of ProofOf. *)
LEMMA ProofOfRounds ==
  ASSUME NEW root, NEW key, Len(key) \in Nat
  PROVE  \E g : /\ g[0] = UptoNode(root, key, 0)
                /\ \A n \in 1..Len(key) : g[n] = g[n - 1] \o UptoNode(root, key, n)
                /\ ProofOf(root, key) = g[Len(key)]
  <1> DEFINE N == Len(key)
             At(f, n) == IF n = 0 THEN UptoNode(root, key, n) ELSE f[n - 1] \o UptoNode(root, key, n)
             Def(f, m) == f = [n \in 0..m |-> At(f, n)]
             S == {m \in 0..N : \E f : Def(f, m)}
             g == CHOOSE f : Def(f, N)
  <1>1. 0 \in S
    <2> DEFINE f == [n \in 0..0 |-> UptoNode(root, key, n)]
    <2>1. Def(f, 0)
      OBVIOUS
    <2>2. \E x : Def(x, 0)
      BY <2>1, Zenon
    <2> HIDE DEF Def
    <2> QED
      BY <2>2
  <1>2. ASSUME NEW m \in 0..(N - 1), m \in S
        PROVE  m + 1 \in S
    <2>1. PICK f : Def(f, m)
      BY <1>2
    <2> DEFINE h == [n \in 0..(m + 1) |-> IF n = m + 1 THEN At(f, n) ELSE f[n]]
    <2>2. ASSUME NEW n \in 0..(m + 1)
          PROVE  h[n] = At(h, n)
      <3>1. CASE n = m + 1
        <4>1. n - 1 \in 0..(m + 1) /\ n - 1 # m + 1 /\ h[n - 1] = f[n - 1]
          BY <3>1
        <4> QED
          BY <3>1, <4>1
      <3>2. CASE n # m + 1
        <4>1. n \in 0..m /\ h[n] = f[n]
          BY <3>2
        <4>2. f[n] = At(f, n)
          BY <4>1, <2>1
        <4>3. n # 0 => n - 1 \in 0..(m + 1) /\ n - 1 # m + 1 /\ h[n - 1] = f[n - 1]
          BY <4>1
        <4> QED
          BY <4>1, <4>2, <4>3
      <3> QED
        BY <3>1, <3>2
    <2>3. Def(h, m + 1)
      <3>1. h = [n \in 0..(m + 1) |-> h[n]]
        OBVIOUS
      <3> HIDE DEF h, At
      <3> QED
        BY <3>1, <2>2
    <2>4. \E x : Def(x, m + 1)
      BY <2>3, Zenon
    <2>5. m + 1 \in 0..N
      BY <1>2
    <2> HIDE DEF Def
    <2> QED
      BY <2>4, <2>5
  <1>3. N \in S
    <2> HIDE DEF S
    <2>1. 0..N \subseteq S
      BY <1>1, <1>2, InductionUpTo
    <2> QED
      BY <2>1
  <1>4. \E f : Def(f, N)
    <2> HIDE DEF Def
    <2> QED
      BY <1>3
  <1>5. Def(g, N)
    BY <1>4, Zenon
  <1>6. ProofOf(root, key) = g[N]
    BY Zenon DEF ProofOf, UptoNode
  <1> HIDE DEF g
  <1>7. g[0] = UptoNode(root, key, 0) /\ \A n \in 1..N : g[n] = g[n - 1] \o UptoNode(root, key, n)
    <2>1. ASSUME NEW n \in 0..N
          PROVE  g[n] = At(g, n)
      BY <1>5, Zenon
    <2>2. 0 \in 0..N /\ \A n \in 1..N : n \in 0..N /\ n # 0
      OBVIOUS
    <2> QED
      BY <2>1, <2>2, Zenon
  <1> QED
    BY <1>6, <1>7, Zenon

(* A sequence of one. *)
LEMMA OneOnly ==
  ASSUME NEW X, NEW x \in X
  PROVE  <<x>> \in Seq(X) /\ Len(<<x>>) = 1 /\ <<x>>[1] = x
  OBVIOUS

(* And of none. *)
LEMMA NoneOnly == \A X : << >> \in Seq(X) /\ Len(<< >>) = 0
  OBVIOUS

(* Adding one node to a proof. *)
Extended(X, s, x, u) ==
  /\ u \in Seq(X) /\ Len(u) = Len(s) + 1
  /\ Len(s) >= 1 => u[1] = s[1]
  /\ ToSet(u) = ToSet(s) \union {x}

LEMMA OneMore ==
  ASSUME NEW X, NEW s \in Seq(X), NEW x \in X
  PROVE  Extended(X, s, x, s \o <<x>>)
  <1>0. PICK w \in Seq(X) : w = <<x>> /\ Len(w) = 1 /\ w[1] = x
    BY OneOnly, Zenon
  <1>1. PICK u \in Seq(X) : u = s \o w
    BY <1>0, ConcatProperties, Zenon
  <1>2. /\ Len(u) = Len(s) + 1 /\ Len(s) \in Nat
        /\ \A i \in 1..Len(s) : u[i] = s[i]
        /\ u[Len(s) + 1] = x
    BY <1>0, <1>1
  <1>3. \A y : y \in ToSet(u) <=> \E i \in 1..Len(u) : u[i] = y
    BY DEF ToSet
  <1>4. \A y : y \in ToSet(s) <=> \E i \in 1..Len(s) : s[i] = y
    BY DEF ToSet
  <1>5. 1..Len(u) = (1..Len(s)) \union {Len(s) + 1}
    BY <1>2
  <1>6. ToSet(u) = ToSet(s) \union {x}
    BY <1>2, <1>3, <1>4, <1>5, SMTT(30)
  <1>7. Len(s) >= 1 => u[1] = s[1]
    BY <1>2
  <1>8. Extended(X, s, x, u)
    BY <1>2, <1>6, <1>7 DEF Extended
  <1> QED
    BY <1>0, <1>1, <1>8, Zenon

(* What a round adds. *)
LEMMA UptoNodeIs ==
  ASSUME NEW root, DOMAIN root \subseteq Positions, NEW key \in Positions, NEW n \in 0..Len(key),
         NEW s, s = UptoNode(root, key, n)
  PROVE  \E p \in Positions : /\ p \in DOMAIN root => s = <<Subreference(root, p)>>
                              /\ p \notin DOMAIN root => s = << >>
                              /\ IsPrefix(p, key) /\ Len(p) = n
                              /\ \A q \in Positions : IsPrefix(q, key) /\ Len(q) = n => q = p
  <1>0. PICK p : p = SubSeq(key, 1, n)
    OBVIOUS
  <1>1. p \in Positions /\ IsPrefix(p, key) /\ Len(p) = n
    BY <1>0, StemPrefix, Zenon
  <1>2. ASSUME NEW q \in Positions, IsPrefix(q, key), Len(q) = n
        PROVE  q = p
    BY <1>0, <1>2, StemOfPrefix, Zenon
  <1>3. /\ p \in DOMAIN root => s = <<Subreference(root, p)>>
        /\ p \notin DOMAIN root => s = << >>
    BY <1>0, Zenon DEF UptoNode
  <1> QED
    BY <1>1, <1>2, <1>3, Zenon

(* The nodes of a proof. *)
Collected(root, key, s, n) ==
  /\ s \in Seq(NodesOf(root))
  /\ << >> \in DOMAIN root => Len(s) >= 1 /\ s[1] = Subreference(root, << >>)
  /\ \A x : x \in ToSet(s) <=> \E q \in DOMAIN root : IsPrefix(q, key) /\ Len(q) <= n /\ x = Subreference(root, q)

LEMMA CollectedFirst ==
  ASSUME NEW root, DOMAIN root \subseteq Positions, NEW key \in Positions, NEW s, s = UptoNode(root, key, 0)
  PROVE  Collected(root, key, s, 0)
  <1>1. 0 \in 0..Len(key) /\ Len(key) \in Nat
    BY Lengths
  <1>3. PICK p \in Positions : /\ p \in DOMAIN root => s = <<Subreference(root, p)>>
                               /\ p \notin DOMAIN root => s = << >>
                               /\ IsPrefix(p, key) /\ Len(p) = 0
                               /\ \A q \in Positions : IsPrefix(q, key) /\ Len(q) = 0 => q = p
    BY <1>1, UptoNodeIs
  <1>4. p = << >>
    BY <1>3, EmptyPosition, PrefixEmpty
  <1>5. \A q \in DOMAIN root : IsPrefix(q, key) /\ Len(q) <= 0 => q = p
    BY <1>3, Lengths
  <1>6. CASE p \in DOMAIN root
    <2>1. PICK x \in NodesOf(root) : x = Subreference(root, p)
      BY <1>6 DEF NodesOf
    <2>2. s = <<x>>
      BY <1>3, <1>6, <2>1, Zenon
    <2>3. s \in Seq(NodesOf(root)) /\ Len(s) = 1 /\ s[1] = x
      BY <2>2, OneOnly, Zenon
    <2>4. \A y : y \in ToSet(s) <=> y = x
      BY <2>2 DEF ToSet
    <2> QED
      BY <2>1, <2>3, <2>4, <1>3, <1>4, <1>5, <1>6 DEF Collected
  <1>7. CASE p \notin DOMAIN root
    <2>1. s = << >>
      BY <1>3, <1>7
    <2>2. s \in Seq(NodesOf(root)) /\ Len(s) = 0
      BY <2>1, NoneOnly, Zenon
    <2>3. \A y : y \notin ToSet(s)
      BY <2>2 DEF ToSet
    <2> QED
      BY <2>2, <2>3, <1>4, <1>5, <1>7 DEF Collected
  <1> QED
    BY <1>6, <1>7

LEMMA CollectedNext ==
  ASSUME NEW root, DOMAIN root \subseteq Positions, NEW key \in Positions, NEW n \in 1..Len(key),
         NEW s, Collected(root, key, s, n - 1), NEW u, u = s \o UptoNode(root, key, n)
  PROVE  Collected(root, key, u, n)
  <1>0. DOMAIN root \subseteq Positions /\ key \in Positions
    OBVIOUS
  <1>1. n \in 0..Len(key) /\ n \in Nat /\ Len(key) \in Nat
    BY Lengths
  <1>2. PICK node : node = UptoNode(root, key, n)
    OBVIOUS
  <1>3. PICK p \in Positions : /\ p \in DOMAIN root => node = <<Subreference(root, p)>>
                               /\ p \notin DOMAIN root => node = << >>
                               /\ IsPrefix(p, key) /\ Len(p) = n
                               /\ \A q \in Positions : IsPrefix(q, key) /\ Len(q) = n => q = p
    BY ONLY <1>0, <1>1, <1>2, UptoNodeIs
  <1>4. /\ s \in Seq(NodesOf(root))
        /\ << >> \in DOMAIN root => Len(s) >= 1 /\ s[1] = Subreference(root, << >>)
        /\ \A x : x \in ToSet(s) <=> \E q \in DOMAIN root : IsPrefix(q, key) /\ Len(q) <= n - 1 /\ x = Subreference(root, q)
    BY DEF Collected
  <1>5. \A q \in DOMAIN root : IsPrefix(q, key) => (Len(q) <= n <=> (Len(q) <= n - 1 \/ q = p))
    BY <1>1, <1>3, Lengths
  <1>6. CASE p \in DOMAIN root
    <2>1. PICK x \in NodesOf(root) : x = Subreference(root, p)
      BY <1>6 DEF NodesOf
    <2>2. u = s \o <<x>>
      BY <1>2, <1>3, <1>6, <2>1, Zenon
    <2>3. /\ u \in Seq(NodesOf(root)) /\ Len(u) = Len(s) + 1
          /\ Len(s) >= 1 => u[1] = s[1]
          /\ ToSet(u) = ToSet(s) \union {x}
      <3>1. Extended(NodesOf(root), s, x, u)
        BY <2>2, <1>4, OneMore, Zenon
      <3> QED
        BY <3>1 DEF Extended
    <2>4. << >> \in DOMAIN root => Len(u) >= 1 /\ u[1] = Subreference(root, << >>)
      BY <2>3, <1>4
    <2>5. \A y : y \in ToSet(u) <=> \E q \in DOMAIN root : IsPrefix(q, key) /\ Len(q) <= n /\ y = Subreference(root, q)
      BY <2>1, <2>3, <1>3, <1>4, <1>5, <1>6
    <2> QED
      BY <2>3, <2>4, <2>5 DEF Collected
  <1>7. CASE p \notin DOMAIN root
    <2>1. u = s \o << >>
      BY <1>2, <1>3, <1>7, Zenon
    <2>2. u = s
      BY <2>1, <1>4
    <2> QED
      BY <2>2, <1>4, <1>5, <1>7 DEF Collected
  <1> QED
    BY <1>6, <1>7

(* The proof of a key: nothing where the trie is empty, otherwise the nodes on its way from the root on. *)
LEMMA ProofOfIs ==
  ASSUME NEW root, IsRoot(root), NEW key \in Keys
  PROVE  /\ root = EmptyRoot => ProofOf(root, key) = << >>
         /\ root # EmptyRoot => /\ ProofOf(root, key) # << >>
                                /\ ProofOf(root, key)[1] = root
                                /\ ToSet(ProofOf(root, key)) = NodesOnWay(root, key)
  <1>1. key \in Positions /\ Len(key) \in Nat
    BY KeysLength, Lengths
  <1>2. /\ root = [p \in DOMAIN root |-> root[p]]
        /\ DOMAIN root \subseteq Positions
        /\ root # EmptyRoot => << >> \in DOMAIN root
        /\ root = EmptyRoot => DOMAIN root = {}
    BY RootDomain
  <1>3. PICK g : /\ g[0] = UptoNode(root, key, 0)
                 /\ \A n \in 1..Len(key) : g[n] = g[n - 1] \o UptoNode(root, key, n)
                 /\ ProofOf(root, key) = g[Len(key)]
    BY <1>1, ProofOfRounds, Zenon
  <1> DEFINE S == {n \in 0..Len(key) : Collected(root, key, g[n], n)}
  <1>4. 0 \in S
    BY <1>1, <1>2, <1>3, CollectedFirst
  <1>5. ASSUME NEW n \in 0..(Len(key) - 1), n \in S
        PROVE  n + 1 \in S
    <2>1. PICK m : m = n + 1
      OBVIOUS
    <2>2. m \in 1..Len(key) /\ m \in 0..Len(key) /\ m - 1 = n
      BY <2>1, <1>1
    <2>3. g[m] = g[m - 1] \o UptoNode(root, key, m)
      BY <2>2, <1>3, Zenon
    <2>4. Collected(root, key, g[m - 1], m - 1)
      BY <1>5, <2>2
    <2>5. Collected(root, key, g[m], m)
      BY <2>2, <2>3, <2>4, <1>1, <1>2, CollectedNext, Zenon
    <2> QED
      BY <2>1, <2>2, <2>5
  <1> HIDE DEF S
  <1>6. 0..Len(key) \subseteq S
    BY <1>1, <1>4, <1>5, InductionUpTo
  <1>7. Len(key) \in S
    BY <1>1, <1>6
  <1>8. PICK s : s = ProofOf(root, key)
    OBVIOUS
  <1>9. Collected(root, key, s, Len(key))
    BY <1>3, <1>7, <1>8 DEF S
  <1>10. \A x : x \in ToSet(s) <=> \E q \in DOMAIN root : IsPrefix(q, key) /\ x = Subreference(root, q)
    BY <1>1, <1>2, <1>9, PrefixLength DEF Collected
  <1>11. ToSet(s) = NodesOnWay(root, key)
    BY <1>10 DEF NodesOnWay
  <1>12. ASSUME root = EmptyRoot
         PROVE  s = << >>
    <2>1. s \in Seq(NodesOf(root)) /\ NodesOf(root) = {}
      BY <1>2, <1>9, <1>12 DEF Collected, NodesOf
    <2> QED
      BY <2>1
  <1>13. ASSUME root # EmptyRoot
         PROVE  s # << >> /\ s[1] = root
    <2>1. Len(s) >= 1 /\ s[1] = Subreference(root, << >>)
      BY <1>2, <1>9, <1>13 DEF Collected
    <2>2. Subreference(root, << >>) = root
      BY <1>2, SubreferenceOfAll
    <2> QED
      BY <2>1, <2>2
  <1> QED
    BY <1>8, <1>11, <1>12, <1>13

(* The leaf of a key is what get finds. *)
LEMMA LeafRead ==
  ASSUME NEW t, NEW map, Good(t, map), NEW key \in Keys, HasLeaf(t, key)
  PROVE  Get(t, key) = map[key]
  <1>1. IsTrie(t) /\ key \in Positions /\ DOMAIN t # {}
    BY KeysLength DEF Good, HasLeaf
  <1>2. PICK p : p = Deepest(t, key)
    OBVIOUS
  <1>3. DeepestAt(t, key, p) /\ t # Null
    BY <1>1, <1>2, DeepestIs, NullIs
  <1>4. Get(t, key) = IF Kind(t, p) = "Leaf" /\ t[p].data.nibs = Drop(key, Len(p))
                        THEN t[p].data.value ELSE NoValue
    BY <1>2, <1>3 DEF Get
  <1> QED
    BY <1>3, <1>4, LeafAtEnd

(* node_from_digest: nothing is known but the root. *)
LEMMA DigestServes ==
  ASSUME NEW root, IsRoot(root)
  PROVE  Serves(node_from_digest(root), {})
  <1>1. CASE root = EmptyRoot
    BY <1>1, NullServes DEF node_from_digest
  <1>2. CASE root # EmptyRoot
    <2>1. PICK map : IsMap(map) /\ (\E k \in Keys : map[k] # NoValue) /\ root = Root(map)
      BY <1>2 DEF IsRoot
    <2>2. Built(DigestTrie(root), map, KnownBy({}, map))
      BY <2>1, ResolvedStandsFor
    <2>3. node_from_digest(root) = DigestTrie(root)
      BY <1>2 DEF node_from_digest
    <2> QED
      BY <2>1, <2>2, <2>3 DEF Built, Represents, Serves
  <1> QED
    BY <1>1, <1>2

(* The tries of proofs. *)
LEMMA ProofsServe ==
  ASSUME NEW root, IsRoot(root), NEW keys, keys \subseteq Keys, NEW after,
         NEW proofs, proofs = [k \in keys |-> ProofOf(root, k)]
  PROVE  Serves(TrieFromProofs(proofs, after), keys)
  <1>0. DOMAIN proofs = keys /\ \A k \in keys : proofs[k] = ProofOf(root, k)
    OBVIOUS
  <1>1. CASE root = EmptyRoot \/ keys = {}
    <2>1. \A k \in DOMAIN proofs : proofs[k] = << >>
      BY <1>0, <1>1, ProofOfIs
    <2> DEFINE roots_ == {proofs[k][1] : k \in {x \in DOMAIN proofs : proofs[x] # << >>}}
    <2>2. roots_ = {}
      BY <2>1
    <2>3. TrieFromProofs(proofs, after) = Null
      BY <2>2, Zenon DEF TrieFromProofs
    <2> QED
      BY <2>3, NullServes
  <1>2. CASE root # EmptyRoot /\ keys # {}
    <2>1. PICK map : IsMap(map) /\ (\E k \in Keys : map[k] # NoValue) /\ root = Root(map)
      BY <1>2 DEF IsRoot
    <2>2. Proves(proofs, map)
      BY <1>0, <1>2, <2>1, ProofOfIs DEF Proves
    <2>3. Built(TrieFromProofs(proofs, after), map, keys)
      BY <1>0, <2>1, <2>2, ProofTrieBuilt
    <2> QED
      BY <2>1, <2>3 DEF Built, Serves
  <1> QED
    BY <1>1, <1>2

(* The tries of a witness. *)
LEMMA WitnessServes ==
  ASSUME NEW map, IsMap(map), NEW root, root = Root(map), NEW witness, root \in witness,
         NEW keys, keys \subseteq Keys, \A k \in keys : NodesOnWay(root, k) \subseteq witness
  PROVE  Represents(TrieFromWitness(root, witness), map, keys)
  <1>0. PICK t : t = TrieFromWitness(root, witness)
    OBVIOUS
  <1>1. CASE \E k \in Keys : map[k] # NoValue
    <2>1. Built(t, map, KnownBy(witness, map))
      BY <1>0, <1>1, WitnessTrieBuilt
    <2>2. keys \subseteq KnownBy(witness, map)
      BY DEF KnownBy
    <2> QED
      BY <1>0, <2>1, <2>2 DEF Built, Represents
  <1>2. CASE \A k \in Keys : map[k] = NoValue
    <2>1. root = EmptyRoot
      <3>1. map = [k \in Keys |-> NoValue]
        BY <1>2 DEF IsMap
      <3>2. PICK u : u = Null
        OBVIOUS
      <3>3. Hash(u) = Root(map)
        BY <3>1, <3>2, EmptyStore, FaithfulRoot DEF NoDigest, Null
      <3> QED
        BY <3>2, <3>3 DEF Hash
    <2>2. DOMAIN root = {}
      BY <2>1 DEF EmptyRoot, Null
    <2>3. t = ResolveNodes(root, witness)
      BY <1>0 DEF TrieFromWitness
    <2>4. t = Null
      BY <2>2, <2>3 DEF ResolveNodes, Null
    <2>5. map = [k \in Keys |-> NoValue]
      BY <1>2 DEF IsMap
    <2> QED
      BY <1>0, <2>4, <2>5, EmptyStore DEF Represents
  <1> QED
    BY <1>1, <1>2

-----------------------------------------------------------------------------
(* States that fit the keys somebody wants of them. *)

IsState(s) ==
  /\ s = [state_trie |-> s.state_trie, storage_tries |-> s.storage_tries]
  /\ s.storage_tries = [a \in DOMAIN s.storage_tries |-> s.storage_tries[a]]

SlotsOf(wanted, a) == IF a \in DOMAIN wanted THEN wanted[a] ELSE {}

Fits(s, wanted) ==
  /\ IsState(s)
  /\ Serves(s.state_trie, DOMAIN wanted)
  /\ \A a \in DOMAIN s.storage_tries : Serves(s.storage_tries[a], SlotsOf(wanted, a))

(* The keys of a block. *)
BlockKeys(b) == [a \in DOMAIN CumulativeRequests(b) |-> SlotKeys(b, a)]

(* The roots of the parent's world. *)
LEMMA WorldRoots ==
  ASSUME NEW b, IsBlock(b)
  PROVE  /\ IsRoot(WorldRoot(b.world))
         /\ \A a \in DOMAIN b.world : IsRoot(StorageRoot(b.world, a))
  <1>1. /\ DOMAIN b.world \subseteq Keys
        /\ \A a \in DOMAIN b.world : b.world[a] # NoValue => DOMAIN b.world[a].storage \subseteq Keys
    BY DEF IsBlock
  <1>2. PICK f : f = [a \in DOMAIN b.world |-> TrieAccount(b.world[a])]
    OBVIOUS
  <1>3. DOMAIN f \subseteq Keys /\ WorldRoot(b.world) = Root(f)
    BY <1>1, <1>2 DEF WorldRoot
  <1>4. IsRoot(WorldRoot(b.world))
    BY <1>3, RootsAre
  <1>5. ASSUME NEW a \in DOMAIN b.world
        PROVE  IsRoot(StorageRoot(b.world, a))
    <2>1. CASE b.world[a] = NoValue
      BY <2>1 DEF StorageRoot, IsRoot
    <2>2. CASE b.world[a] # NoValue
      BY <2>2, <1>1, RootsAre DEF StorageRoot
    <2> QED
      BY <2>1, <2>2
  <1> QED
    BY <1>4, <1>5

(* transition_proofs_to_tries gives what the block wants. *)
LEMMA TransitionFits ==
  ASSUME NEW b, IsBlock(b)
  PROVE  Fits(TransitionState(b), BlockKeys(b))
  <1>1. /\ DOMAIN CumulativeRequests(b) \subseteq DOMAIN b.world
        /\ DOMAIN b.world \subseteq Keys
        /\ \A a \in DOMAIN CumulativeRequests(b) : SlotKeys(b, a) \subseteq Keys
    BY DEF IsBlock
  <1>2. PICK accounts : accounts = DOMAIN CumulativeRequests(b)
    OBVIOUS
  <1>3. PICK root : root = WorldRoot(b.world)
    OBVIOUS
  <1>4. IsRoot(root) /\ \A a \in accounts : IsRoot(StorageRoot(b.world, a))
    BY <1>1, <1>2, <1>3, WorldRoots
  <1>5. PICK s : s = TransitionState(b)
    OBVIOUS
  <1> DEFINE storage(a) ==
               IF SlotKeys(b, a) = {} THEN node_from_digest(StorageRoot(b.world, a))
               ELSE TrieFromProofs(StorageProofs(b.world, a, SlotKeys(b, a)), AfterProofs(b, a))
             proof(w) == [a \in accounts |-> ProofOf(WorldRoot(w), a)]
             trie_ == IF CumulativeRequests(b) = << >> THEN node_from_digest(root)
                      ELSE TrieFromProofs(proof(b.world), proof(NewWorld(b)))
  <1>6. s = [state_trie |-> trie_, storage_tries |-> [a \in accounts |-> storage(a)]]
    BY <1>2, <1>3, <1>5, Zenon DEF TransitionState
  <1>7. Serves(trie_, accounts)
    <2>1. ASSUME CumulativeRequests(b) = << >>
          PROVE  Serves(trie_, accounts)
      <3>1. accounts = {}
        BY <2>1, <1>2
      <3> QED
        BY <2>1, <3>1, <1>4, DigestServes
    <2>2. ASSUME CumulativeRequests(b) # << >>
          PROVE  Serves(trie_, accounts)
      <3>1. PICK after : after = proof(NewWorld(b))
        OBVIOUS
      <3>2. PICK proofs : proofs = [a \in accounts |-> ProofOf(root, a)]
        OBVIOUS
      <3>3. trie_ = TrieFromProofs(proofs, after)
        BY <2>2, <3>1, <3>2, <1>3, Zenon
      <3>4. accounts \subseteq Keys
        BY <1>1, <1>2
      <3>5. Serves(TrieFromProofs(proofs, after), accounts)
        BY <3>2, <3>4, <1>4, ProofsServe
      <3> QED
        BY <3>3, <3>5, Zenon
    <2> QED
      BY <2>1, <2>2
  <1>8. ASSUME NEW a \in accounts
        PROVE  Serves(storage(a), SlotKeys(b, a))
    <2>1. CASE SlotKeys(b, a) = {}
      BY <2>1, <1>4, DigestServes
    <2>2. CASE SlotKeys(b, a) # {}
      <3>1. PICK keys : keys = SlotKeys(b, a)
        OBVIOUS
      <3>2. PICK r : r = StorageRoot(b.world, a)
        OBVIOUS
      <3>3. StorageProofs(b.world, a, keys) = [k \in keys |-> ProofOf(r, k)]
        BY <3>2, Zenon DEF StorageProofs
      <3>4. keys \subseteq Keys /\ IsRoot(r)
        BY <1>1, <1>2, <1>4, <3>1, <3>2
      <3>5. Serves(TrieFromProofs(StorageProofs(b.world, a, keys), AfterProofs(b, a)), keys)
        BY <3>3, <3>4, ProofsServe, Zenon
      <3> QED
        BY <2>2, <3>1, <3>5, Zenon
    <2> QED
      BY <2>1, <2>2
  <1> HIDE DEF storage, trie_
  <1>9. IsState(s) /\ s.state_trie = trie_ /\ DOMAIN s.storage_tries = accounts
          /\ \A a \in accounts : s.storage_tries[a] = storage(a)
    BY <1>6 DEF IsState
  <1>10. DOMAIN BlockKeys(b) = accounts /\ \A a \in accounts : SlotsOf(BlockKeys(b), a) = SlotKeys(b, a)
    BY <1>2 DEF BlockKeys, SlotsOf
  <1>11. Serves(s.state_trie, DOMAIN BlockKeys(b))
    BY <1>7, <1>9, <1>10
  <1>12. \A a \in DOMAIN s.storage_tries : Serves(s.storage_tries[a], SlotsOf(BlockKeys(b), a))
    BY <1>8, <1>9, <1>10
  <1> QED
    BY <1>5, <1>9, <1>11, <1>12 DEF Fits

(* So does the execution witness. *)
LEMMA WitnessFits ==
  ASSUME NEW b, IsBlock(b), b.witness # NoWitness
  PROVE  Fits(WitnessState(b), BlockKeys(b))
  <1>1. /\ DOMAIN CumulativeRequests(b) \subseteq DOMAIN b.world
        /\ DOMAIN b.world \subseteq Keys
        /\ \A a \in DOMAIN b.world : b.world[a] # NoValue => DOMAIN b.world[a].storage \subseteq Keys
        /\ \A a \in DOMAIN CumulativeRequests(b) : SlotKeys(b, a) \subseteq Keys
        /\ WorldRoot(b.world) \in b.witness
        /\ \A a \in DOMAIN CumulativeRequests(b) :
             /\ NodesOnWay(WorldRoot(b.world), a) \subseteq b.witness
             /\ StorageRoot(b.world, a) \in b.witness =>
                  \A k \in SlotKeys(b, a) : NodesOnWay(StorageRoot(b.world, a), k) \subseteq b.witness
    BY DEF IsBlock
  <1>2. PICK f : f = [a \in DOMAIN b.world |-> TrieAccount(b.world[a])]
    OBVIOUS
  <1>3. DOMAIN f = DOMAIN b.world /\ DOMAIN f \subseteq Keys /\ WorldRoot(b.world) = Root(f)
          /\ \A a \in DOMAIN f : f[a] = TrieAccount(b.world[a])
    BY <1>1, <1>2 DEF WorldRoot
  <1>4. PICK map : IsMap(map) /\ Root(map) = Root(f) /\ \A k \in Keys : map[k] = IF k \in DOMAIN f THEN f[k] ELSE NoValue
    BY <1>3, RootsAre
  <1>5. PICK t : t = TrieFromWitness(WorldRoot(b.world), b.witness)
    OBVIOUS
  <1>6. Represents(t, map, DOMAIN CumulativeRequests(b))
    <2>1. PICK keys : keys = DOMAIN CumulativeRequests(b)
      OBVIOUS
    <2>2. keys \subseteq Keys /\ \A k \in keys : NodesOnWay(WorldRoot(b.world), k) \subseteq b.witness
      BY <2>1, <1>1
    <2>3. Represents(TrieFromWitness(WorldRoot(b.world), b.witness), map, keys)
      BY <2>2, <1>1, <1>3, <1>4, WitnessServes
    <2> QED
      BY <2>1, <2>3, <1>5
  <1>7. Good(t, map) /\ IsTrie(t) /\ LeavesIn(t, map)
    BY <1>6 DEF Represents, Good
  <1> DEFINE accounts == {l \in Leaves(t) : l.value.storage_root \in b.witness}
             storage(a) == TrieFromWitness(Get(t, a).storage_root, b.witness)
  <1>8. PICK s : s = WitnessState(b)
    OBVIOUS
  <1>9. s = [state_trie |-> t, storage_tries |-> [a \in {l.key : l \in accounts} |-> storage(a)]]
    BY <1>5, <1>8, Zenon DEF WitnessState
  <1>10. ASSUME NEW l \in accounts
         PROVE  Serves(storage(l.key), SlotsOf(BlockKeys(b), l.key))
    <2>1. PICK p \in DOMAIN t : /\ Kind(t, p) = "Leaf"
                                /\ l = [key |-> p \o t[p].data.nibs, value |-> t[p].data.value]
      BY DEF Leaves
    <2>2. PICK a : a = End(t, p)
      OBVIOUS
    <2>3. l.key = a /\ l.value = t[p].data.value /\ l.value.storage_root \in b.witness
      BY <2>1, <2>2 DEF End
    <2>4. a \in Keys /\ map[a] = l.value /\ HasLeaf(t, a)
      BY <2>1, <2>2, <2>3, <1>7 DEF LeavesIn, HasLeaf
    <2>5. l.value # NoValue
      BY <2>1, <2>3, <1>7, KindIs
    <2>6. Get(t, a) = l.value
      BY <2>4, <1>7, LeafRead
    <2>7. a \in DOMAIN b.world /\ l.value = TrieAccount(b.world[a])
      BY <2>4, <2>5, <1>3, <1>4
    <2>8. b.world[a] # NoValue /\ l.value.storage_root = Root(b.world[a].storage)
      BY <2>5, <2>7 DEF TrieAccount
    <2>9. PICK root : root = StorageRoot(b.world, a)
      OBVIOUS
    <2>10. l.value.storage_root = root /\ root = Root(b.world[a].storage)
      BY <2>8, <2>9 DEF StorageRoot
    <2>11. DOMAIN b.world[a].storage \subseteq Keys
      BY <2>7, <2>8, <1>1
    <2>12. PICK g : IsMap(g) /\ Root(g) = root
      BY <2>10, <2>11, RootsAre
    <2>13. PICK keys : keys = SlotsOf(BlockKeys(b), a)
      OBVIOUS
    <2>14. keys \subseteq Keys /\ \A k \in keys : NodesOnWay(root, k) \subseteq b.witness
      <3>1. PICK requests : requests = CumulativeRequests(b)
        OBVIOUS
      <3>2. CASE a \in DOMAIN requests
        <4>1. keys = SlotKeys(b, a)
          BY <2>13, <3>1, <3>2, Zenon DEF SlotsOf, BlockKeys
        <4>2. keys \subseteq Keys
          BY <4>1, <3>1, <3>2, <1>1, Zenon
        <4>3. StorageRoot(b.world, a) \in b.witness
          BY <2>3, <2>9, <2>10, Zenon
        <4> QED
          BY <4>1, <4>2, <4>3, <3>1, <3>2, <2>9, <1>1, Zenon
      <3>3. CASE a \notin DOMAIN requests
        <4>1. keys = {}
          BY <2>13, <3>1, <3>3, Zenon DEF SlotsOf, BlockKeys
        <4> QED
          BY <4>1, Zenon
      <3> QED
        BY <3>2, <3>3, Zenon
    <2>15. Represents(TrieFromWitness(root, b.witness), g, keys)
      BY <2>3, <2>10, <2>12, <2>14, WitnessServes
    <2>16. storage(l.key) = TrieFromWitness(root, b.witness)
      BY <2>3, <2>6, <2>10, Zenon
    <2> QED
      BY <2>3, <2>12, <2>13, <2>15, <2>16, Zenon DEF Serves
  <1> HIDE DEF accounts, storage
  <1>11. IsState(s) /\ s.state_trie = t /\ DOMAIN s.storage_tries = {l.key : l \in accounts}
           /\ \A a \in DOMAIN s.storage_tries : s.storage_tries[a] = storage(a)
    BY <1>9 DEF IsState
  <1>12. Serves(s.state_trie, DOMAIN BlockKeys(b))
    BY <1>4, <1>6, <1>11 DEF BlockKeys, Serves
  <1>13. \A a \in DOMAIN s.storage_tries : Serves(s.storage_tries[a], SlotsOf(BlockKeys(b), a))
    BY <1>10, <1>11
  <1> QED
    BY <1>8, <1>11, <1>12, <1>13 DEF Fits

(* Hashing leaves a state as fit as it is. *)
LEMMA HashedFits ==
  ASSUME NEW s, NEW wanted, Fits(s, wanted)
  PROVE  Fits(Hashed(s), wanted) /\ DOMAIN Hashed(s).storage_tries = DOMAIN s.storage_tries
  <1>1. PICK h : h = Hashed(s)
    OBVIOUS
  <1>2. /\ IsState(h) /\ h.state_trie = WithReferences(s.state_trie)
        /\ DOMAIN h.storage_tries = DOMAIN s.storage_tries
        /\ \A a \in DOMAIN h.storage_tries : h.storage_tries[a] = WithReferences(s.storage_tries[a])
    BY <1>1 DEF Hashed, IsState
  <1>3. Serves(h.state_trie, DOMAIN wanted)
    BY <1>2, HashedServes DEF Fits
  <1>4. \A a \in DOMAIN h.storage_tries : Serves(h.storage_tries[a], SlotsOf(wanted, a))
    BY <1>2, HashedServes DEF Fits
  <1> QED
    BY <1>1, <1>2, <1>3, <1>4 DEF Fits

(* So does the way to the client. *)
LEMMA SentFits ==
  ASSUME NEW s, NEW wanted, Fits(s, wanted)
  PROVE  Fits(Sent(s), wanted)
  <1>1. PICK h : h = Sent(s)
    OBVIOUS
  <1>2. /\ IsState(h) /\ h.state_trie = Serialized(s.state_trie)
        /\ DOMAIN h.storage_tries = DOMAIN s.storage_tries
        /\ \A a \in DOMAIN h.storage_tries : h.storage_tries[a] = Serialized(s.storage_tries[a])
    BY <1>1 DEF Sent, IsState
  <1>3. Serves(h.state_trie, DOMAIN wanted)
    BY <1>2, SerializedServes DEF Fits
  <1>4. \A a \in DOMAIN h.storage_tries : Serves(h.storage_tries[a], SlotsOf(wanted, a))
    BY <1>2, SerializedServes DEF Fits
  <1> QED
    BY <1>1, <1>2, <1>3, <1>4 DEF Fits

(* What the host starts from has what the block wants. *)
LEMMA ParentFits ==
  ASSUME NEW b, IsBlock(b)
  PROVE  Fits(ParentState(b), BlockKeys(b))
  <1>1. CASE b.witness = NoWitness
    BY <1>1, TransitionFits, HashedFits DEF ParentState
  <1>2. CASE b.witness # NoWitness
    BY <1>2, WitnessFits, HashedFits DEF ParentState
  <1> QED
    BY <1>1, <1>2

-----------------------------------------------------------------------------
(* The invariant. *)

(* The keys that the operations of this phase may need. *)
Wanted == IF phase = "client" /\ index # 0 THEN TouchedState ELSE BlockKeys(block)

(* Everything that a diff changes is wanted. *)
Covers(wanted, post) ==
  /\ DOMAIN wanted \subseteq Keys
  /\ \A a : SlotsOf(wanted, a) \subseteq Keys
  /\ DOMAIN post.accounts \subseteq DOMAIN wanted
  /\ \A a \in DOMAIN post.accounts : Modified(post, a) \subseteq SlotsOf(wanted, a)

Phases == {"verify", "touch", "client", "host", "done", "mismatch"}

(* Where the loop over the accounts is. *)
LoopInv ==
  /\ pending \subseteq DOMAIN PostState.accounts
  /\ current # NoAddress => current \in pending
  /\ slots # {} => current # NoAddress /\ slots \subseteq Modified(PostState, current)

(* The state at work has what is wanted of it. *)
UpdateInv ==
  Updating =>
    /\ Fits(state, Wanted)
    /\ (current # NoAddress /\ Some(PostState, current)) => current \in DOMAIN state.storage_tries
    /\ slots # {} => Some(PostState, current)

(* prune(): what is not marked yet, the clone has as the state has it. *)
MarksOf(a) == SlotsOf(storage_refs, a)

TouchInv ==
  phase = "touch" =>
    /\ index # 0
    /\ Fits(state, BlockKeys(block))
    /\ Fits(scratch, BlockKeys(block))
    /\ DOMAIN scratch.storage_tries = DOMAIN state.storage_tries
    /\ Marked(state.state_trie, scratch.state_trie, account_refs)
    /\ \A a \in DOMAIN state.storage_tries : Marked(state.storage_tries[a], scratch.storage_tries[a], MarksOf(a))
    /\ \A a \in pending : a \in DOMAIN storage_refs => a = current
    /\ slots # {} => current \in DOMAIN storage_refs /\ current \in DOMAIN scratch.storage_tries

StateInv ==
  /\ block \in Blocks
  /\ index \in 0..Len(block.subblocks)
  /\ phase \in Phases
  /\ phase = "verify" => index = 0
  /\ Fits(big_state, BlockKeys(block))
  /\ LoopInv
  /\ UpdateInv
  /\ TouchInv

(* The keys of the block cover each of its diffs, and those of a subblock its own. *)
LEMMA BlockCovers ==
  ASSUME block \in Blocks, index \in 0..Len(block.subblocks)
  PROVE  /\ Covers(BlockKeys(block), PostState)
         /\ index # 0 => /\ Covers(TouchedState, PostState)
                         /\ DOMAIN TouchedState \subseteq DOMAIN BlockKeys(block)
                         /\ \A a : SlotsOf(TouchedState, a) \subseteq SlotsOf(BlockKeys(block), a)
  <1>1. /\ Len(block.subblocks) \in Nat \ {0} /\ DOMAIN block.subblocks = 1..Len(block.subblocks)
        /\ DOMAIN Cumulative(block).accounts \subseteq DOMAIN CumulativeRequests(block)
        /\ DOMAIN block.world \subseteq Keys
        /\ DOMAIN CumulativeRequests(block) \subseteq DOMAIN block.world
        /\ \A a \in DOMAIN CumulativeRequests(block) : SlotKeys(block, a) \subseteq Keys
        /\ \A i \in DOMAIN block.subblocks :
             /\ DOMAIN block.subblocks[i].post.accounts \subseteq DOMAIN block.subblocks[i].requests
             /\ \A a \in DOMAIN block.subblocks[i].requests :
                  Modified(block.subblocks[i].post, a) \subseteq SlotKeys(block, a)
    BY StateBlocksAssumption DEF IsBlock
  <1>2. PICK wanted : wanted = BlockKeys(block)
    OBVIOUS
  <1>3. /\ DOMAIN wanted = DOMAIN CumulativeRequests(block)
        /\ \A a \in DOMAIN wanted : wanted[a] = SlotKeys(block, a)
        /\ \A a : SlotsOf(wanted, a) = IF a \in DOMAIN wanted THEN SlotKeys(block, a) ELSE {}
    BY <1>2 DEF BlockKeys, SlotsOf
  <1>4. DOMAIN wanted \subseteq Keys /\ \A a : SlotsOf(wanted, a) \subseteq Keys
    BY <1>1, <1>3
  <1>5. ASSUME NEW i \in DOMAIN block.subblocks, NEW a \in DOMAIN block.subblocks[i].requests
        PROVE  a \in DOMAIN wanted /\ block.subblocks[i].requests[a] \subseteq SlotKeys(block, a)
    <2>1. a \in DOMAIN CumulativeRequests(block)
      BY DEF CumulativeRequests
    <2>2. block.subblocks[i].requests[a] \subseteq CumulativeRequests(block)[a]
      BY <2>1 DEF CumulativeRequests
    <2> QED
      BY <2>1, <2>2, <1>3 DEF SlotKeys
  <1>6. CASE index = 0
    <2>1. PostState = Cumulative(block)
      BY <1>6 DEF PostState
    <2>2. \A a \in DOMAIN PostState.accounts : Modified(PostState, a) \subseteq SlotsOf(wanted, a)
      BY <2>1, <1>1, <1>3 DEF SlotKeys
    <2> QED
      BY <2>1, <2>2, <1>1, <1>2, <1>3, <1>4, <1>6 DEF Covers
  <1>7. CASE index # 0
    <2>1. index \in DOMAIN block.subblocks /\ PostState = block.subblocks[index].post
      BY <1>1, <1>7 DEF PostState
    <2>2. PICK requests : requests = block.subblocks[index].requests
      OBVIOUS
    <2>3. PICK post : post = PostState
      OBVIOUS
    <2>4. /\ DOMAIN post.accounts \subseteq DOMAIN requests
          /\ \A a \in DOMAIN requests : a \in DOMAIN wanted /\ requests[a] \subseteq SlotKeys(block, a)
                                          /\ Modified(post, a) \subseteq SlotKeys(block, a)
      BY <2>1, <2>2, <2>3, <1>1, <1>5
    <2>5. PICK touched : touched = TouchedState
      OBVIOUS
    <2>6. /\ DOMAIN touched = DOMAIN requests
          /\ \A a \in DOMAIN touched : touched[a] = requests[a] \union Modified(post, a)
      BY <2>2, <2>3, <2>5 DEF TouchedState
    <2>7. \A a : SlotsOf(touched, a) = IF a \in DOMAIN requests THEN requests[a] \union Modified(post, a) ELSE {}
      BY <2>6 DEF SlotsOf
    <2>8. DOMAIN touched \subseteq DOMAIN wanted /\ \A a : SlotsOf(touched, a) \subseteq SlotsOf(wanted, a)
      BY <2>4, <2>6, <2>7, <1>3
    <2>9. Covers(touched, post)
      BY <2>4, <2>6, <2>7, <2>8, <1>4 DEF Covers
    <2>10. Covers(wanted, post)
      BY <2>4, <2>9, <2>8, <1>4 DEF Covers
    <2> QED
      BY <2>3, <2>5, <2>8, <2>9, <2>10, <1>2
  <1> QED
    BY <1>6, <1>7

(* So what is wanted covers the diff at work. *)
LEMMA WantedCovers ==
  ASSUME StateInv
  PROVE  Covers(Wanted, PostState)
  BY BlockCovers DEF StateInv, Wanted

(* It holds at first. *)
LEMMA StateInvInit ==
  ASSUME StateInit
  PROVE  StateInv
  <1>1. PICK b \in Blocks :
          /\ block = b /\ index = 0 /\ big_state = ParentState(b) /\ state = big_state
          /\ pending = Retained(Cumulative(b)) /\ current = NoAddress /\ slots = {}
          /\ phase = IF Anchored(big_state, WorldRoot(b.world)) THEN "verify" ELSE "mismatch"
    BY DEF StateInit
  <1>2. IsBlock(b) /\ Fits(big_state, BlockKeys(block))
    BY <1>1, StateBlocksAssumption, ParentFits
  <1>3. index \in 0..Len(block.subblocks)
    BY <1>1, <1>2 DEF IsBlock
  <1>4. phase \in {"verify", "mismatch"}
    BY <1>1
  <1>5. LoopInv
    BY <1>1 DEF LoopInv, PostState, Retained
  <1>6. UpdateInv
    BY <1>1, <1>2, <1>4 DEF UpdateInv, Updating, Wanted
  <1>7. TouchInv
    BY <1>4 DEF TouchInv
  <1> QED
    BY <1>1, <1>2, <1>3, <1>4, <1>5, <1>6, <1>7 DEF StateInv, Phases

(* A state with one storage trie replaced by one that serves as much. *)
LEMMA StorageReplaced ==
  ASSUME NEW s, NEW wanted, Fits(s, wanted), NEW a, NEW t, Serves(t, SlotsOf(wanted, a)), NEW u, IsState(u),
         u.state_trie = s.state_trie, \A c \in DOMAIN u.storage_tries : c # a => c \in DOMAIN s.storage_tries,
         \A c \in DOMAIN u.storage_tries : u.storage_tries[c] = IF c = a THEN t ELSE s.storage_tries[c]
  PROVE  Fits(u, wanted)
  BY DEF Fits

(* update reaches the next account. *)
LEMMA UpdateNextKeeps ==
  ASSUME StateInv, UpdateNext
  PROVE  StateInv'
  <1>0. PICK post : post = PostState
    OBVIOUS
  <1>1. PICK a \in pending :
          /\ current' = a
          /\ slots' = IF Some(post, a) THEN Modified(post, a) ELSE {}
          /\ state' = IF ~Some(post, a) THEN state
                      ELSE [state EXCEPT !.storage_tries =
                              Entry(@, a, IF StorageDiff(post, a).wiped \/ a \notin DOMAIN @ THEN Null ELSE @[a])]
    BY <1>0 DEF UpdateNext
  <1>2. UNCHANGED <<block, index, big_state, pending, phase>> /\ Updating
    BY DEF UpdateNext
  <1>3. PostState' = post /\ Wanted' = Wanted /\ Updating' /\ BlockKeys(block)' = BlockKeys(block)
    BY <1>0, <1>2 DEF PostState, Wanted, TouchedState, Updating
  <1>4. PICK wanted : wanted = Wanted
    OBVIOUS
  <1>5. Covers(wanted, post) /\ Fits(state, wanted) /\ pending \subseteq DOMAIN post.accounts
    BY <1>0, <1>2, <1>4, WantedCovers DEF StateInv, UpdateInv, LoopInv
  <1>6. a # NoAddress /\ a \in DOMAIN wanted
    BY <1>5, NoAddressAssumption DEF Covers
  <1>7. LoopInv'
    BY <1>1, <1>2, <1>3, <1>5, <1>6 DEF LoopInv
  <1>8. Fits(state', wanted) /\ (Some(post, a) => a \in DOMAIN state'.storage_tries)
    <2>1. CASE ~Some(post, a)
      BY <2>1, <1>1, <1>5
    <2>2. CASE Some(post, a)
      <3>1. PICK tries : tries = state.storage_tries
        OBVIOUS
      <3>2. PICK t : t = IF StorageDiff(post, a).wiped \/ a \notin DOMAIN tries THEN Null ELSE tries[a]
        OBVIOUS
      <3>3. PICK new : new = Entry(tries, a, t)
        OBVIOUS
      <3>4. /\ new = [c \in DOMAIN new |-> new[c]]
            /\ DOMAIN new = DOMAIN tries \union {a}
            /\ \A c \in DOMAIN new : new[c] = IF c = a THEN t ELSE tries[c]
        BY <3>3 DEF Entry
      <3>5. state' = [state EXCEPT !.storage_tries = new]
        BY <2>2, <3>1, <3>2, <3>3, <1>1
      <3>6. IsState(state)
        BY <1>5 DEF Fits
      <3>7. state'.state_trie = state.state_trie /\ state'.storage_tries = new /\ IsState(state')
        BY <3>4, <3>5, <3>6 DEF IsState
      <3>8. SlotsOf(wanted, a) \subseteq Keys
        BY <1>5 DEF Covers
      <3>9. Serves(t, SlotsOf(wanted, a))
        BY <3>1, <3>2, <3>8, <1>5, NullServes DEF Fits
      <3>10. Fits(state', wanted)
        BY <3>1, <3>4, <3>7, <3>9, <1>5, StorageReplaced
      <3> QED
        BY <3>4, <3>7, <3>10
    <2> QED
      BY <2>1, <2>2
  <1>9. UpdateInv'
    BY <1>1, <1>3, <1>4, <1>8 DEF UpdateInv
  <1>10. TouchInv'
    BY <1>2, <1>3 DEF TouchInv, Updating
  <1> QED
    BY <1>2, <1>3, <1>7, <1>9, <1>10 DEF StateInv

(* A slot is set or deleted. *)
LEMMA UpdateSlotKeeps ==
  ASSUME StateInv, NEW s \in slots, UpdateSlot(s)
  PROVE  StateInv'
  <1>0. PICK post : post = PostState
    OBVIOUS
  <1>1. PICK tries : tries = state.storage_tries
    OBVIOUS
  <1>2. PICK value : value = StorageDiff(post, current).storage[s]
    OBVIOUS
  <1>3. PICK answer : answer = IF value = NoValue THEN Delete(tries[current], s) ELSE Insert(tries[current], s, value)
    OBVIOUS
  <1>4. /\ state' = [state EXCEPT !.storage_tries[current] = answer.trie]
        /\ phase' = IF answer.result \in {"true", "false"} THEN phase ELSE "panic"
        /\ slots' = slots \ {s}
        /\ UNCHANGED <<block, index, big_state, pending, current>> /\ Updating
    BY <1>0, <1>1, <1>2, <1>3 DEF UpdateSlot
  <1>5. PICK wanted : wanted = Wanted
    OBVIOUS
  <1>6. /\ Covers(wanted, post) /\ Fits(state, wanted) /\ pending \subseteq DOMAIN post.accounts
        /\ slots # {} /\ current # NoAddress /\ current \in pending /\ slots \subseteq Modified(post, current)
        /\ Some(post, current) /\ current \in DOMAIN tries
    BY <1>0, <1>1, <1>4, <1>5, WantedCovers DEF StateInv, UpdateInv, LoopInv
  <1>7. s \in SlotsOf(wanted, current)
    BY <1>6 DEF Covers
  <1>8. Serves(tries[current], SlotsOf(wanted, current))
    BY <1>1, <1>6 DEF Fits
  <1>9. answer.result \in {"true", "false"} /\ Serves(answer.trie, SlotsOf(wanted, current))
    BY <1>3, <1>7, <1>8, InsertServes, DeleteServes
  <1>10. phase' = phase
    BY <1>4, <1>9
  <1>11. PostState' = post /\ Wanted' = wanted /\ Updating' /\ BlockKeys(block)' = BlockKeys(block)
    BY <1>0, <1>4, <1>5, <1>10 DEF PostState, Wanted, TouchedState, Updating
  <1>12. IsState(state)
    BY <1>6 DEF Fits
  <1>13. /\ IsState(state') /\ state'.state_trie = state.state_trie /\ DOMAIN state'.storage_tries = DOMAIN tries
         /\ \A c \in DOMAIN tries : state'.storage_tries[c] = IF c = current THEN answer.trie ELSE tries[c]
    BY <1>1, <1>4, <1>12 DEF IsState
  <1>14. Fits(state', wanted)
    BY <1>1, <1>6, <1>9, <1>13, StorageReplaced
  <1>15. LoopInv'
    BY <1>4, <1>6, <1>11 DEF LoopInv
  <1>16. UpdateInv'
    BY <1>4, <1>6, <1>11, <1>13, <1>14 DEF UpdateInv
  <1>17. TouchInv'
    BY <1>4, <1>10 DEF TouchInv, Updating
  <1> QED
    BY <1>4, <1>10, <1>11, <1>15, <1>16, <1>17 DEF StateInv

(* A state with another state trie that serves as much. *)
LEMMA TrieReplaced ==
  ASSUME NEW s, NEW wanted, Fits(s, wanted), NEW t, Serves(t, DOMAIN wanted), NEW u,
         u = [s EXCEPT !.state_trie = t]
  PROVE  Fits(u, wanted) /\ u.storage_tries = s.storage_tries /\ u.state_trie = t
  <1>1. IsState(s)
    BY DEF Fits
  <1>2. IsState(u) /\ u.storage_tries = s.storage_tries /\ u.state_trie = t
    BY <1>1 DEF IsState
  <1> QED
    BY <1>2 DEF Fits

(* And the account is set or deleted. *)
LEMMA UpdateAccountKeeps ==
  ASSUME StateInv, UpdateAccount
  PROVE  StateInv'
  <1>0. PICK post : post = PostState
    OBVIOUS
  <1>1. PICK account : account = [info |-> post.accounts[current], storage_root |-> Hash(state.storage_tries[current])]
    OBVIOUS
  <1>2. PICK answer : answer = IF Some(post, current) THEN Insert(state.state_trie, current, account)
                                                      ELSE Delete(state.state_trie, current)
    OBVIOUS
  <1>3. /\ current # NoAddress /\ slots = {}
        /\ state' = Hashed([state EXCEPT !.state_trie = answer.trie])
        /\ phase' = IF answer.result \in {"true", "false"} THEN phase ELSE "panic"
        /\ pending' = pending \ {current} /\ current' = NoAddress
        /\ UNCHANGED <<block, index, big_state, slots>> /\ Updating
    BY <1>0, <1>1, <1>2 DEF UpdateAccount
  <1>4. PICK wanted : wanted = Wanted
    OBVIOUS
  <1>5. /\ Covers(wanted, post) /\ Fits(state, wanted) /\ pending \subseteq DOMAIN post.accounts /\ current \in pending
    BY <1>0, <1>3, <1>4, WantedCovers DEF StateInv, UpdateInv, LoopInv
  <1>6. current \in DOMAIN wanted /\ Serves(state.state_trie, DOMAIN wanted)
    BY <1>5 DEF Covers, Fits
  <1>7. account # NoValue
    BY <1>1 DEF NoValue
  <1>8. answer.result \in {"true", "false"} /\ Serves(answer.trie, DOMAIN wanted)
    BY <1>2, <1>6, <1>7, InsertServes, DeleteServes
  <1>9. phase' = phase
    BY <1>3, <1>8
  <1>10. PostState' = post /\ Wanted' = wanted /\ Updating' /\ BlockKeys(block)' = BlockKeys(block)
    BY <1>0, <1>3, <1>4, <1>9 DEF PostState, Wanted, TouchedState, Updating
  <1>11. Fits(state', wanted)
    BY <1>3, <1>5, <1>8, TrieReplaced, HashedFits
  <1>12. LoopInv'
    BY <1>3, <1>5, <1>10 DEF LoopInv
  <1>13. UpdateInv'
    BY <1>3, <1>10, <1>11 DEF UpdateInv
  <1>14. TouchInv'
    BY <1>3, <1>9 DEF TouchInv, Updating
  <1> QED
    BY <1>3, <1>9, <1>10, <1>12, <1>13, <1>14 DEF StateInv

(* get_touched_nodes reaches the next account. *)
LEMMA TouchNextKeeps ==
  ASSUME StateInv, TouchNext
  PROVE  StateInv'
  <1>0. PICK post : post = PostState
    OBVIOUS
  <1>1. PICK a \in pending :
          LET has_storage == Some(post, a) /\ a \in DOMAIN scratch.storage_tries
          IN  /\ current' = a
              /\ slots' = IF has_storage THEN Modified(post, a) ELSE {}
              /\ storage_refs' = IF has_storage THEN Entry(storage_refs, a, {}) ELSE storage_refs
    BY <1>0 DEF TouchNext
  <1>2. /\ phase = "touch" /\ current = NoAddress
        /\ UNCHANGED <<block, index, big_state, state, pending, scratch, account_refs, phase>>
    BY DEF TouchNext
  <1>3. PostState' = post /\ BlockKeys(block)' = BlockKeys(block)
    BY <1>0, <1>2 DEF PostState
  <1>4. Covers(BlockKeys(block), post) /\ pending \subseteq DOMAIN post.accounts
    BY <1>0, BlockCovers DEF StateInv, LoopInv
  <1>5. a # NoAddress /\ a \notin DOMAIN storage_refs
    BY <1>2, <1>4, NoAddressAssumption DEF Covers, StateInv, TouchInv
  <1>6. LoopInv'
    BY <1>1, <1>2, <1>3, <1>4, <1>5 DEF LoopInv
  <1>7. UpdateInv'
    BY <1>2 DEF UpdateInv, Updating
  <1>8. /\ \A c : MarksOf(c)' = MarksOf(c)
        /\ \A c \in pending : c \in DOMAIN storage_refs' => c = a
        /\ slots' # {} => a \in DOMAIN storage_refs' /\ a \in DOMAIN scratch.storage_tries
    <2>1. \A c \in pending : c \notin DOMAIN storage_refs
      BY <1>2, <1>4, NoAddressAssumption DEF Covers, StateInv, TouchInv
    <2>2. CASE Some(post, a) /\ a \in DOMAIN scratch.storage_tries
      <3>1. storage_refs' = Entry(storage_refs, a, {})
        BY <2>2, <1>1
      <3>2. /\ DOMAIN storage_refs' = DOMAIN storage_refs \union {a}
            /\ \A c \in DOMAIN storage_refs' : storage_refs'[c] = IF c = a THEN {} ELSE storage_refs[c]
        BY <3>1 DEF Entry
      <3>3. \A c : MarksOf(c)' = MarksOf(c)
        BY <3>2, <1>5 DEF MarksOf, SlotsOf
      <3> QED
        BY <3>2, <3>3, <2>1, <2>2
    <2>3. CASE ~(Some(post, a) /\ a \in DOMAIN scratch.storage_tries)
      <3>1. storage_refs' = storage_refs /\ slots' = {}
        BY <2>3, <1>1
      <3> QED
        BY <3>1, <2>1 DEF MarksOf
    <2> QED
      BY <2>2, <2>3
  <1>9. TouchInv'
    BY <1>1, <1>2, <1>3, <1>8 DEF TouchInv, StateInv
  <1> QED
    BY <1>2, <1>3, <1>6, <1>7, <1>9 DEF StateInv

(* One slot is looked up, or deleted in the clone. *)
LEMMA TouchSlotKeeps ==
  ASSUME StateInv, NEW s \in slots, TouchSlot(s)
  PROVE  StateInv'
  <1>0. PICK post : post = PostState
    OBVIOUS
  <1>1. PICK tries : tries = scratch.storage_tries
    OBVIOUS
  <1>2. PICK wanted : wanted = BlockKeys(block)
    OBVIOUS
  <1>3. /\ phase = "touch" /\ slots' = slots \ {s}
        /\ UNCHANGED <<block, index, big_state, state, pending, current, account_refs>>
    BY DEF TouchSlot
  <1>4. /\ Covers(wanted, post) /\ Fits(state, wanted) /\ Fits(scratch, wanted)
        /\ pending \subseteq DOMAIN post.accounts
        /\ slots # {} /\ current # NoAddress /\ current \in pending /\ slots \subseteq Modified(post, current)
        /\ current \in DOMAIN storage_refs /\ current \in DOMAIN tries
        /\ DOMAIN tries = DOMAIN state.storage_tries
        /\ \A a \in DOMAIN tries : Marked(state.storage_tries[a], tries[a], MarksOf(a))
    BY <1>0, <1>1, <1>2, <1>3, BlockCovers DEF StateInv, TouchInv, LoopInv
  <1>5. s \in SlotsOf(wanted, current)
    BY <1>4 DEF Covers
  <1>6. Serves(tries[current], SlotsOf(wanted, current)) /\ Serves(state.storage_tries[current], SlotsOf(wanted, current))
    BY <1>1, <1>4 DEF Fits
  <1>7. MarksOf(current) = storage_refs[current]
    BY <1>4 DEF MarksOf, SlotsOf
  <1>8. PICK answer : answer = Delete(tries[current], s)
    OBVIOUS
  (* Either way there are more marks, and a trie that serves as much. *)
  <1>9. PICK t, more :
          /\ phase' = phase
          /\ IsState(scratch') /\ scratch'.state_trie = scratch.state_trie
          /\ DOMAIN scratch'.storage_tries = DOMAIN tries
          /\ \A c \in DOMAIN tries : scratch'.storage_tries[c] = IF c = current THEN t ELSE tries[c]
          /\ storage_refs' = [storage_refs EXCEPT ![current] = more]
          /\ Serves(t, SlotsOf(wanted, current))
          /\ Marked(state.storage_tries[current], t, more)
    <2>0. IsState(scratch)
      BY <1>4 DEF Fits
    <2>1. CASE StorageDiff(post, current).storage[s] = NoValue
      <3>1. /\ phase' = IF answer.result \in {"true", "false"} THEN phase ELSE "panic"
            /\ scratch' = [scratch EXCEPT !.storage_tries[current] = answer.trie]
            /\ storage_refs' = [storage_refs EXCEPT ![current] = @ \union DeleteTouched(tries[current], s)]
        BY <2>1, <1>0, <1>1, <1>8 DEF TouchSlot
      <3>2. answer.result \in {"true", "false"} /\ Serves(answer.trie, SlotsOf(wanted, current))
        BY <1>5, <1>6, <1>8, DeleteServes
      <3>3. PICK more : more = storage_refs[current] \union DeleteTouched(tries[current], s)
        OBVIOUS
      <3>4. Marked(state.storage_tries[current], tries[current], storage_refs[current])
        BY <1>4, <1>7
      <3>5. Marked(state.storage_tries[current], answer.trie, more)
        BY <3>3, <3>4, <1>5, <1>6, <1>8, MarkedDelete
      <3>6. /\ IsState(scratch') /\ scratch'.state_trie = scratch.state_trie
            /\ DOMAIN scratch'.storage_tries = DOMAIN tries
            /\ \A c \in DOMAIN tries : scratch'.storage_tries[c] = IF c = current THEN answer.trie ELSE tries[c]
        BY <3>1, <2>0, <1>1 DEF IsState
      <3>7. storage_refs' = [storage_refs EXCEPT ![current] = more]
        BY <3>1, <3>3
      <3> QED
        BY <3>1, <3>2, <3>5, <3>6, <3>7
    <2>2. CASE StorageDiff(post, current).storage[s] # NoValue
      <3>1. /\ storage_refs' = [storage_refs EXCEPT ![current] = @ \union GetTouched(tries[current], s)]
            /\ UNCHANGED <<phase, scratch>>
        BY <2>2, <1>0, <1>1 DEF TouchSlot
      <3>2. PICK more : more = storage_refs[current] \union GetTouched(tries[current], s)
        OBVIOUS
      <3>3. Marked(state.storage_tries[current], tries[current], more)
        BY <3>2, <1>4, <1>7, MarkedMore
      <3>4. storage_refs' = [storage_refs EXCEPT ![current] = more]
        BY <3>1, <3>2
      <3> QED
        BY <3>1, <3>3, <3>4, <2>0, <1>1, <1>6
    <2> QED
      BY <2>1, <2>2
  <1>10. Fits(scratch', wanted)
    BY <1>1, <1>4, <1>9, StorageReplaced
  <1>11. PostState' = post /\ BlockKeys(block)' = wanted
    BY <1>0, <1>2, <1>3 DEF PostState
  <1>12. LoopInv'
    BY <1>3, <1>4, <1>11 DEF LoopInv
  <1>13. UpdateInv'
    BY <1>3, <1>9 DEF UpdateInv, Updating
  <1>14. DOMAIN storage_refs' = DOMAIN storage_refs /\ \A c : MarksOf(c)' = IF c = current THEN more ELSE MarksOf(c)
    BY <1>4, <1>9 DEF MarksOf, SlotsOf
  <1>15. \A c \in DOMAIN tries : Marked(state.storage_tries[c], scratch'.storage_tries[c], MarksOf(c)')
    BY <1>4, <1>9, <1>14
  <1>16. TouchInv'
    BY <1>1, <1>2, <1>3, <1>4, <1>9, <1>10, <1>11, <1>14, <1>15 DEF TouchInv, StateInv
  <1> QED
    BY <1>2, <1>3, <1>9, <1>11, <1>12, <1>13, <1>16 DEF StateInv

(* Then the account is looked up, or deleted in the clone. *)
LEMMA TouchAccountKeeps ==
  ASSUME StateInv, TouchAccount
  PROVE  StateInv'
  <1>0. PICK post : post = PostState
    OBVIOUS
  <1>1. PICK wanted : wanted = BlockKeys(block)
    OBVIOUS
  <1>2. /\ phase = "touch" /\ current # NoAddress /\ slots = {}
        /\ pending' = pending \ {current} /\ current' = NoAddress
        /\ UNCHANGED <<block, index, big_state, state, slots, storage_refs>>
    BY DEF TouchAccount
  <1>3. /\ Covers(wanted, post) /\ Fits(state, wanted) /\ Fits(scratch, wanted)
        /\ pending \subseteq DOMAIN post.accounts /\ current \in pending
        /\ Marked(state.state_trie, scratch.state_trie, account_refs)
        /\ \A a \in pending : a \in DOMAIN storage_refs => a = current
    BY <1>0, <1>1, <1>2, BlockCovers DEF StateInv, TouchInv, LoopInv
  <1>4. current \in DOMAIN wanted /\ Serves(scratch.state_trie, DOMAIN wanted) /\ Serves(state.state_trie, DOMAIN wanted)
    BY <1>3 DEF Covers, Fits
  <1>5. /\ phase' = phase /\ Fits(scratch', wanted)
        /\ scratch'.storage_tries = scratch.storage_tries
        /\ Marked(state.state_trie, scratch'.state_trie, account_refs')
    <2>1. CASE Some(post, current)
      <3>1. UNCHANGED <<phase, scratch>> /\ account_refs \subseteq account_refs'
        BY <2>1, <1>0 DEF TouchAccount
      <3> QED
        BY <3>1, <1>3, MarkedMore
    <2>2. CASE ~Some(post, current)
      <3>1. PICK answer : answer = Delete(scratch.state_trie, current)
        OBVIOUS
      <3>2. /\ phase' = IF answer.result \in {"true", "false"} THEN phase ELSE "panic"
            /\ account_refs' = account_refs \union DeleteTouched(scratch.state_trie, current)
            /\ scratch' = [scratch EXCEPT !.state_trie = answer.trie]
        BY <2>2, <3>1, <1>0 DEF TouchAccount
      <3>3. answer.result \in {"true", "false"} /\ Serves(answer.trie, DOMAIN wanted)
        BY <3>1, <1>4, DeleteServes
      <3>4. /\ Fits(scratch', wanted) /\ scratch'.storage_tries = scratch.storage_tries
            /\ scratch'.state_trie = answer.trie
        BY <3>2, <3>3, <1>3, TrieReplaced
      <3>5. Marked(state.state_trie, answer.trie, account_refs')
        BY <3>1, <3>2, <1>3, <1>4, MarkedDelete
      <3> QED
        BY <3>2, <3>3, <3>4, <3>5
    <2> QED
      BY <2>1, <2>2
  <1>6. PostState' = post /\ BlockKeys(block)' = wanted
    BY <1>0, <1>1, <1>2 DEF PostState
  <1>7. LoopInv'
    BY <1>2, <1>3, <1>6 DEF LoopInv
  <1>8. UpdateInv'
    BY <1>2, <1>5 DEF UpdateInv, Updating
  <1>9. \A c : MarksOf(c)' = MarksOf(c)
    BY <1>2 DEF MarksOf
  <1>10. TouchInv'
    BY <1>1, <1>2, <1>3, <1>5, <1>6, <1>9 DEF TouchInv, StateInv
  <1> QED
    BY <1>1, <1>2, <1>5, <1>6, <1>7, <1>8, <1>10 DEF StateInv

(* prune() leaves a client what its subblock needs. *)
LEMMA PruneFits ==
  ASSUME StateInv, phase = "touch", NEW pruned, pruned = Pruned(state, ReadAccountRefs, ReadStorageRefs)
  PROVE  Fits(pruned, TouchedState) /\ SameRoots(pruned, state)
  <1>1. PICK wanted : wanted = BlockKeys(block)
    OBVIOUS
  <1>2. PICK touched : touched = TouchedState
    OBVIOUS
  <1>3. /\ Fits(state, wanted) /\ Fits(scratch, wanted)
        /\ DOMAIN scratch.storage_tries = DOMAIN state.storage_tries
        /\ Marked(state.state_trie, scratch.state_trie, account_refs)
        /\ \A a \in DOMAIN state.storage_tries :
             Marked(state.storage_tries[a], scratch.storage_tries[a], SlotsOf(storage_refs, a))
        /\ DOMAIN touched \subseteq DOMAIN wanted
        /\ \A a : SlotsOf(touched, a) \subseteq SlotsOf(wanted, a)
    BY <1>1, <1>2, BlockCovers DEF StateInv, TouchInv, MarksOf
  <1>4. PICK accounts : accounts = ReadAccountRefs
    OBVIOUS
  <1>5. PICK storages : storages = ReadStorageRefs
    OBVIOUS
  <1>6. /\ IsState(pruned)
        /\ pruned.state_trie = Prune(state.state_trie, accounts)
        /\ DOMAIN pruned.storage_tries = DOMAIN state.storage_tries
        /\ \A a \in DOMAIN state.storage_tries :
             pruned.storage_tries[a] = IF a \in DOMAIN storages THEN Prune(state.storage_tries[a], storages[a])
                                       ELSE state.storage_tries[a]
    BY <1>4, <1>5 DEF Pruned, IsState
  <1>7. /\ Serves(pruned.state_trie, DOMAIN touched)
        /\ Hash(pruned.state_trie) = Hash(state.state_trie)
    <2>1. account_refs \subseteq accounts /\ \A k \in DOMAIN touched : GetTouched(scratch.state_trie, k) \subseteq accounts
      BY <1>2, <1>4 DEF ReadAccountRefs
    <2>2. Marked(state.state_trie, scratch.state_trie, accounts)
      BY <2>1, <1>3, MarkedMore
    <2>3. Serves(state.state_trie, DOMAIN wanted) /\ DOMAIN scratch.state_trie \subseteq Positions
      BY <1>3, ServesReferring DEF Fits
    <2> QED
      BY <2>1, <2>2, <2>3, <1>3, <1>6, MarkedServes
  <1>8. ASSUME NEW a \in DOMAIN state.storage_tries
        PROVE  /\ Serves(pruned.storage_tries[a], SlotsOf(touched, a))
               /\ Hash(pruned.storage_tries[a]) = Hash(state.storage_tries[a])
    <2>1. PICK t : t = state.storage_tries[a]
      OBVIOUS
    <2>2. PICK u : u = scratch.storage_tries[a]
      OBVIOUS
    <2>3. Serves(t, SlotsOf(wanted, a)) /\ DOMAIN u \subseteq Positions
      BY <2>1, <2>2, <1>3, ServesReferring DEF Fits
    <2> DEFINE slots_ == {c \in DOMAIN touched : c \in DOMAIN scratch.storage_tries /\ touched[c] # {}}
               read(c) == UNION {GetTouched(scratch.storage_tries[c], k) : k \in touched[c]}
               refs_(c) == (IF c \in DOMAIN storage_refs THEN storage_refs[c] ELSE {})
                             \union (IF c \in slots_ THEN read(c) ELSE {})
    <2>4. storages = [c \in DOMAIN storage_refs \union slots_ |-> refs_(c)]
      BY <1>2, <1>5, Zenon DEF ReadStorageRefs
    <2>5. a \notin slots_ => SlotsOf(touched, a) = {}
      BY <1>3 DEF SlotsOf
    <2>6. CASE a \in DOMAIN storages
      <3>1. PICK marks : marks = storages[a]
        OBVIOUS
      <3>2. marks = refs_(a)
        <4> HIDE DEF refs_, slots_
        <4> QED
          BY <2>4, <2>6, <3>1
      <3>3. SlotsOf(storage_refs, a) \subseteq marks
        BY <3>2 DEF SlotsOf
      <3>4. Marked(t, u, marks)
        BY <3>3, <2>1, <2>2, <1>3, MarkedMore
      <3>5. \A k \in SlotsOf(touched, a) : GetTouched(u, k) \subseteq marks
        BY <3>2, <2>2, <2>5 DEF SlotsOf
      <3>6. pruned.storage_tries[a] = Prune(t, marks)
        BY <2>1, <2>6, <3>1, <1>6
      <3>7. SlotsOf(touched, a) \subseteq SlotsOf(wanted, a)
        BY <1>3
      <3> HIDE DEF refs_, slots_, read
      <3> QED
        BY <3>4, <3>5, <3>6, <3>7, <2>1, <2>3, MarkedServes
    <2>7. CASE a \notin DOMAIN storages
      <3>1. a \notin slots_
        BY <2>4, <2>7
      <3>2. pruned.storage_tries[a] = t
        BY <2>1, <2>7, <1>6
      <3> QED
        BY <3>1, <3>2, <2>1, <2>3, <2>5, FewerServed
    <2> QED
      BY <2>6, <2>7
  <1> QED
    BY <1>2, <1>6, <1>7, <1>8 DEF Fits, SameRoots

(* And the state goes to the client. *)
LEMMA PruneStateKeeps ==
  ASSUME StateInv, PruneState
  PROVE  StateInv'
  <1>1. PICK pruned : pruned = Pruned(state, ReadAccountRefs, ReadStorageRefs)
    OBVIOUS
  <1>2. /\ phase = "touch" /\ current = NoAddress /\ state' = Sent(pruned)
        /\ phase' = IF SameRoots(pruned, state) THEN "client" ELSE "panic"
        /\ pending' = Retained(PostState)
        /\ UNCHANGED <<block, index, big_state, current, slots>>
    BY <1>1 DEF PruneState
  <1>3. PICK touched : touched = TouchedState
    OBVIOUS
  <1>4. Fits(pruned, touched) /\ SameRoots(pruned, state)
    BY <1>1, <1>2, <1>3, PruneFits
  <1>5. phase' = "client" /\ Fits(state', touched)
    BY <1>2, <1>4, SentFits
  <1>6. index # 0 /\ slots = {}
    BY <1>2 DEF StateInv, TouchInv, LoopInv
  <1>7. PostState' = PostState /\ Wanted' = touched /\ BlockKeys(block)' = BlockKeys(block)
    BY <1>2, <1>3, <1>5, <1>6 DEF PostState, Wanted, TouchedState
  <1>8. LoopInv'
    BY <1>2, <1>6, <1>7 DEF LoopInv, Retained
  <1>9. UpdateInv'
    BY <1>2, <1>5, <1>6, <1>7 DEF UpdateInv
  <1>10. TouchInv'
    BY <1>5 DEF TouchInv
  <1> QED
    BY <1>2, <1>5, <1>7, <1>8, <1>9, <1>10 DEF StateInv, Phases

(* A round of the roots loop begins. *)
LEMMA RoundStarts ==
  ASSUME StateInv, Updated, NEW next \in 1..Len(block.subblocks), NEW s, Fits(s, BlockKeys(block)),
         StartRound(next, s), big_state' = s, UNCHANGED <<block, current, slots>>
  PROVE  StateInv'
  <1>1. /\ index' = next /\ state' = s /\ scratch' = s /\ account_refs' = {} /\ storage_refs' = << >>
        /\ pending' = DOMAIN block.subblocks[next].post.accounts /\ phase' = "touch"
    BY DEF StartRound
  <1>2. current = NoAddress /\ slots = {} /\ block \in Blocks
    BY DEF Updated, StateInv, LoopInv
  <1>3. next \in Nat /\ next # 0 /\ Len(block.subblocks) \in Nat
    BY <1>2, StateBlocksAssumption DEF IsBlock
  <1>4. index' \in 0..Len(block.subblocks) /\ index' # 0
    BY <1>1, <1>3
  <1>5. PostState' = block.subblocks[next].post /\ BlockKeys(block)' = BlockKeys(block)
    BY <1>1, <1>3 DEF PostState
  <1>6. LoopInv'
    BY <1>1, <1>2, <1>5 DEF LoopInv
  <1>7. UpdateInv'
    BY <1>1 DEF UpdateInv, Updating
  <1>8. DOMAIN storage_refs' = {}
    BY <1>1
  <1>9. TouchInv'
    BY <1>1, <1>2, <1>4, <1>5, <1>8, MarkedFirst DEF TouchInv
  <1> QED
    BY <1>1, <1>2, <1>4, <1>5, <1>6, <1>7, <1>9 DEF StateInv, Phases

(* Where a block or a subblock ends, nothing is at work. *)
LEMMA NothingAtWork ==
  ASSUME StateInv, phase' \in {"done", "mismatch"}, Fits(big_state', BlockKeys(block)), Updated,
         UNCHANGED <<block, index, current, slots>>, pending' \in {{}, Retained(PostState)}
  PROVE  StateInv'
  <1>1. current = NoAddress /\ slots = {}
    BY DEF Updated, StateInv, LoopInv
  <1>2. PostState' = PostState /\ BlockKeys(block)' = BlockKeys(block)
    BY DEF PostState
  <1>3. LoopInv'
    BY <1>1, <1>2 DEF LoopInv, Retained
  <1>4. UpdateInv' /\ TouchInv'
    BY DEF UpdateInv, Updating, TouchInv
  <1> QED
    BY <1>2, <1>3, <1>4 DEF StateInv, Phases

(* The state root of the block is compared. *)
LEMMA VerifyStateRootKeeps ==
  ASSUME StateInv, VerifyStateRoot
  PROVE  StateInv'
  <1>1. /\ phase = "verify" /\ Updated /\ UNCHANGED <<block, big_state, current, slots>>
        /\ Fits(big_state, BlockKeys(block)) /\ block \in Blocks
    BY DEF VerifyStateRoot, StateInv
  <1>2. CASE Hash(state.state_trie) = HeaderRoot
    <2>1. StartRound(1, big_state)
      BY <1>2 DEF VerifyStateRoot
    <2>2. 1 \in 1..Len(block.subblocks)
      BY <1>1, StateBlocksAssumption DEF IsBlock
    <2> QED
      BY <1>1, <2>1, <2>2, RoundStarts
  <1>3. CASE Hash(state.state_trie) # HeaderRoot
    <2>1. phase' = "mismatch" /\ UNCHANGED <<index, pending>>
      BY <1>3 DEF VerifyStateRoot
    <2> QED
      BY <1>1, <2>1, NothingAtWork DEF Updated
  <1> QED
    BY <1>2, <1>3

(* A block that is executed as a whole goes to its client as it is. *)
LEMMA VerifyWholeBlockKeeps ==
  ASSUME StateInv, VerifyWholeBlock
  PROVE  StateInv'
  <1>1. /\ phase = "verify" /\ Updated /\ UNCHANGED <<block, index, big_state, current, slots>>
        /\ pending' = Retained(PostState)
        /\ phase' \in {"client", "mismatch"} /\ (phase' = "client" => state' = Sent(big_state))
    BY DEF VerifyWholeBlock
  <1>2. Fits(big_state, BlockKeys(block)) /\ index = 0 /\ current = NoAddress /\ slots = {}
    BY <1>1 DEF StateInv, Updated, LoopInv
  <1>3. CASE phase' = "mismatch"
    BY <1>1, <1>2, <1>3, NothingAtWork
  <1>4. CASE phase' = "client"
    <2>1. PostState' = PostState /\ BlockKeys(block)' = BlockKeys(block) /\ Wanted' = BlockKeys(block)
      BY <1>1, <1>2 DEF PostState, Wanted
    <2>2. Fits(state', BlockKeys(block))
      BY <1>1, <1>2, <1>4, SentFits
    <2>3. LoopInv'
      BY <1>1, <1>2, <2>1 DEF LoopInv, Retained
    <2>4. UpdateInv'
      BY <1>1, <1>2, <2>1, <2>2 DEF UpdateInv
    <2>5. TouchInv'
      BY <1>4 DEF TouchInv
    <2> QED
      BY <1>1, <1>2, <1>4, <2>1, <2>3, <2>4, <2>5 DEF StateInv, Phases
  <1> QED
    BY <1>1, <1>3, <1>4

(* A subblock's client ends, and the host applies the diff to the state it kept. *)
LEMMA FinishClientKeeps ==
  ASSUME StateInv, FinishClient
  PROVE  StateInv'
  <1>1. /\ Updated /\ UNCHANGED <<block, index, big_state, current, slots>> /\ state' = big_state
        /\ pending' = Retained(PostState) /\ phase' = "host"
    BY DEF FinishClient
  <1>2. Fits(big_state, BlockKeys(block)) /\ current = NoAddress /\ slots = {}
    BY <1>1 DEF StateInv, Updated, LoopInv
  <1>3. PostState' = PostState /\ BlockKeys(block)' = BlockKeys(block) /\ Wanted' = BlockKeys(block)
    BY <1>1 DEF PostState, Wanted
  <1>4. LoopInv'
    BY <1>1, <1>2, <1>3 DEF LoopInv, Retained
  <1>5. UpdateInv'
    BY <1>1, <1>2, <1>3 DEF UpdateInv
  <1>6. TouchInv'
    BY <1>1 DEF TouchInv
  <1> QED
    BY <1>1, <1>2, <1>3, <1>4, <1>5, <1>6 DEF StateInv, Phases

(* Or the client of the whole block. *)
LEMMA FinishWholeBlockKeeps ==
  ASSUME StateInv, FinishWholeBlock
  PROVE  StateInv'
  <1>1. /\ Updated /\ UNCHANGED <<block, index, big_state, pending, current, slots>>
        /\ phase' \in {"done", "mismatch"}
    BY DEF FinishWholeBlock
  <1> QED
    BY <1>1, NothingAtWork DEF Updated, StateInv

(* The host keeps the state with the diff for the next subblock. *)
LEMMA FinishHostKeeps ==
  ASSUME StateInv, FinishHost
  PROVE  StateInv'
  <1>1. phase = "host" /\ Updated /\ UNCHANGED <<block, current, slots>> /\ big_state' = state
    BY DEF FinishHost
  <1>2. Fits(state, BlockKeys(block)) /\ index \in 0..Len(block.subblocks) /\ block \in Blocks
    BY <1>1 DEF StateInv, UpdateInv, Updating, Wanted
  <1>3. CASE index < Len(block.subblocks)
    <2>1. StartRound(index + 1, state)
      BY <1>3 DEF FinishHost
    <2>2. Len(block.subblocks) \in Nat
      BY <1>2, StateBlocksAssumption DEF IsBlock
    <2>3. index + 1 \in 1..Len(block.subblocks)
      BY <1>2, <1>3, <2>2
    <2> QED
      BY <1>1, <1>2, <2>1, <2>3, RoundStarts
  <1>4. CASE ~(index < Len(block.subblocks))
    <2>1. phase' = "done" /\ UNCHANGED <<index, pending>>
      BY <1>4 DEF FinishHost
    <2> QED
      BY <1>1, <1>2, <2>1, NothingAtWork DEF Updated
  <1> QED
    BY <1>3, <1>4

(* Every step keeps it. *)
LEMMA StateInvStep ==
  ASSUME StateInv, [StateNext]_stateVars
  PROVE  StateInv'
  <1>1. CASE UNCHANGED stateVars
    BY <1>1 DEF stateVars, refs, loop, StateInv, LoopInv, UpdateInv, TouchInv, Updating, Wanted, TouchedState,
                PostState, MarksOf
  <1>2. CASE StateNext
    BY <1>2, TouchNextKeeps, TouchSlotKeeps, TouchAccountKeeps, PruneStateKeeps, UpdateNextKeeps, UpdateSlotKeeps,
       UpdateAccountKeeps, VerifyStateRootKeeps, VerifyWholeBlockKeeps, FinishClientKeeps, FinishWholeBlockKeeps,
       FinishHostKeeps DEF StateNext
  <1> QED
    BY <1>1, <1>2

(***************************************************************************)
(* For every block: the tries that the host builds from the proofs or from *)
(* the witness, and the parts of them that prune() leaves for the client   *)
(* of each subblock, are enough for all that host and client do, in every  *)
(* order of the accounts and slots: no operation meets a truncated node,   *)
(* and the assertions of prune() hold.                                     *)
(***************************************************************************)
THEOREM PrunedStateIsEnough == StateSpec => []PrunedStateSuffices
  <1>1. StateInit => StateInv
    BY StateInvInit
  <1>2. StateInv /\ [StateNext]_stateVars => StateInv'
    BY StateInvStep
  <1>3. StateInv => PrunedStateSuffices
    BY DEF StateInv, Phases, PrunedStateSuffices
  <1> QED
    BY <1>1, <1>2, <1>3, PTL DEF StateSpec

=============================================================================

--------------------------- MODULE MptStoreProofs ---------------------------
(***************************************************************************)
(* The trie, for every set of keys of one length and every sequence of     *)
(* inserts, deletes, hash computations, clears and truncations.            *)
(***************************************************************************)
EXTENDS MptStore, TrieConstruction, StepLemmas

LOCAL INSTANCE SequencesExt

Positions == Seq(Nibbles)

-----------------------------------------------------------------------------
(* Prefixes of positions. *)

(* A prefix, nibble by nibble. *)
LEMMA PrefixIs ==
  ASSUME NEW p \in Positions, NEW q \in Positions
  PROVE  IsPrefix(p, q) <=> Len(p) <= Len(q) /\ \A i \in 1..Len(p) : p[i] = q[i]
  BY DEF IsPrefix, Positions

(* Positions with the same nibbles are the same. *)
LEMMA SameSequence ==
  ASSUME NEW p \in Positions, NEW q \in Positions, Len(p) = Len(q),
         \A i \in 1..Len(p) : p[i] = q[i]
  PROVE  p = q
  BY DEF Positions

(* Positions have lengths. *)
LEMMA Lengths == \A p \in Positions : Len(p) \in Nat
  BY DEF Positions

(* The position of the root. *)
LEMMA EmptyPosition == << >> \in Positions /\ Len(<< >>) = 0
  BY DEF Positions

(* The root is on every way. *)
LEMMA PrefixEmpty == \A p \in Positions : IsPrefix(<< >>, p)
  BY PrefixIs, EmptyPosition, Lengths

(* Prefixes are an order (PrefixSelf, PrefixTrans, PrefixSame). *)
LEMMA PrefixSelf == \A p \in Positions : IsPrefix(p, p)
  BY PrefixIs, Lengths

(* A prefix of a prefix is a prefix. *)
LEMMA PrefixTrans ==
  \A p, q, r \in Positions : IsPrefix(p, q) /\ IsPrefix(q, r) => IsPrefix(p, r)
  BY PrefixIs, Lengths

(* A prefix is not longer. *)
LEMMA PrefixLength == \A p, q \in Positions : IsPrefix(p, q) => Len(p) <= Len(q)
  BY PrefixIs

(* A prefix that is not shorter is the whole. *)
LEMMA PrefixSame ==
  \A p, q \in Positions : IsPrefix(p, q) /\ Len(q) <= Len(p) => p = q
  BY PrefixIs, SameSequence, Lengths

(* Two prefixes of one position are prefixes of each other. *)
LEMMA PrefixesOfOne ==
  \A p, q, r \in Positions : IsPrefix(p, r) /\ IsPrefix(q, r) /\ Len(p) <= Len(q) => IsPrefix(p, q)
  BY PrefixIs, Lengths

(* A strict prefix is a shorter one. *)
LEMMA StrictIs ==
  \A p, q \in Positions : IsStrictPrefix(p, q) <=> IsPrefix(p, q) /\ Len(p) < Len(q)
  BY PrefixLength, PrefixSame, Lengths DEF IsStrictPrefix

(* Concatenation. *)
LEMMA ConcatIs ==
  ASSUME NEW p \in Positions, NEW s \in Positions
  PROVE  /\ p \o s \in Positions
         /\ Len(p \o s) = Len(p) + Len(s)
         /\ \A i \in 1..Len(p) : (p \o s)[i] = p[i]
         /\ \A i \in 1..Len(s) : (p \o s)[Len(p) + i] = s[i]
  <1>1. p \o s \in Positions /\ Len(p \o s) = Len(p) + Len(s)
    BY DEF Positions
  <1>2. ASSUME NEW i \in 1..Len(p)
        PROVE  (p \o s)[i] = p[i]
    BY ConcatProperties DEF Positions
  <1>3. ASSUME NEW i \in 1..Len(s)
        PROVE  (p \o s)[Len(p) + i] = s[i]
    <2>1. Len(p) + i \in 1..(Len(p) + Len(s)) /\ Len(p) + i > Len(p) /\ Len(p) + i - Len(p) = i
      BY Lengths
    <2> QED
      BY <2>1, ConcatProperties DEF Positions
  <1> QED
    BY <1>1, <1>2, <1>3, Zenon

(* What is appended leaves the position a prefix. *)
LEMMA PrefixConcat ==
  ASSUME NEW p \in Positions, NEW s \in Positions
  PROVE  p \o s \in Positions /\ IsPrefix(p, p \o s) /\ Len(p \o s) = Len(p) + Len(s)
  <1>1. PICK c \in Positions : c = p \o s
    BY ConcatIs, Zenon
  <1>2. Len(c) = Len(p) + Len(s) /\ \A i \in 1..Len(p) : c[i] = p[i]
    BY <1>1, ConcatIs, ZenonT(60)
  <1>3. IsPrefix(p, c)
    BY <1>2, PrefixIs, Lengths
  <1> QED
    BY <1>1, <1>2, <1>3, Zenon

(* What is left behind the first n nibbles. *)
LEMMA DropIs ==
  ASSUME NEW p \in Positions, NEW n \in 0..Len(p)
  PROVE  /\ Drop(p, n) \in Positions
         /\ Len(Drop(p, n)) = Len(p) - n
         /\ \A i \in 1..(Len(p) - n) : Drop(p, n)[i] = p[n + i]
  BY DEF Positions, Drop

(* The first n nibbles. *)
LEMMA StemIs ==
  ASSUME NEW p \in Positions, NEW n \in 0..Len(p)
  PROVE  /\ SubSeq(p, 1, n) \in Positions
         /\ Len(SubSeq(p, 1, n)) = n
         /\ \A i \in 1..n : SubSeq(p, 1, n)[i] = p[i]
  BY DEF Positions

(* A position is a prefix of it followed by the rest. *)
LEMMA PrefixRest ==
  ASSUME NEW p \in Positions, NEW q \in Positions, IsPrefix(p, q)
  PROVE  /\ Drop(q, Len(p)) \in Positions
         /\ Len(Drop(q, Len(p))) = Len(q) - Len(p)
         /\ p \o Drop(q, Len(p)) = q
  <1>1. Len(p) \in 0..Len(q)
    BY PrefixIs, Lengths
  <1>2. PICK s \in Positions : s = Drop(q, Len(p))
    BY <1>1, DropIs
  <1>3. Len(s) = Len(q) - Len(p) /\ \A i \in 1..(Len(q) - Len(p)) : s[i] = q[Len(p) + i]
    BY <1>1, <1>2, DropIs
  <1>c. PICK c \in Positions : c = p \o s
    BY ConcatIs, Zenon
  <1>4. /\ Len(c) = Len(p) + Len(s)
        /\ \A i \in 1..Len(p) : c[i] = p[i]
        /\ \A i \in 1..Len(s) : c[Len(p) + i] = s[i]
    <2>1. /\ Len(p \o s) = Len(p) + Len(s)
          /\ \A i \in 1..Len(p) : (p \o s)[i] = p[i]
          /\ \A i \in 1..Len(s) : (p \o s)[Len(p) + i] = s[i]
      BY ONLY ConcatIs, p \in Positions, s \in Positions, Zenon
    <2> QED
      BY ONLY <2>1, <1>c, Zenon
  <1>5. ASSUME NEW i \in 1..Len(c)
        PROVE  c[i] = q[i]
    <2>1. CASE i <= Len(p)
      BY <1>4, <2>1, PrefixIs, Lengths
    <2>2. CASE i > Len(p)
      <3>1. PICK j \in 1..(Len(q) - Len(p)) : i = Len(p) + j
        <4>1. i - Len(p) \in 1..(Len(q) - Len(p)) /\ i = Len(p) + (i - Len(p))
          BY <1>3, <1>4, <2>2, Lengths
        <4> QED
          BY <4>1
      <3> QED
        BY <3>1, <1>3, <1>4
    <2> QED
      BY <2>1, <2>2, Lengths
  <1>6. c = q
    BY <1>3, <1>4, <1>5, SameSequence, Lengths
  <1> QED
    BY <1>2, <1>3, <1>6, <1>c, Zenon

(* Dropping a prefix leaves what was appended to it. *)
LEMMA DropConcat ==
  ASSUME NEW p \in Positions, NEW s \in Positions
  PROVE  Drop(p \o s, Len(p)) = s
  <1>1. PICK q \in Positions : q = p \o s
    BY ConcatIs, Zenon
  <1>2. Len(q) = Len(p) + Len(s) /\ \A i \in 1..Len(s) : q[Len(p) + i] = s[i]
    BY <1>1, ConcatIs, ZenonT(60)
  <1>3. Len(p) \in 0..Len(q)
    BY <1>2, Lengths
  <1>d. PICK d \in Positions : d = Drop(q, Len(p))
    BY <1>3, DropIs
  <1>4. Len(d) = Len(q) - Len(p) /\ \A i \in 1..(Len(q) - Len(p)) : d[i] = q[Len(p) + i]
    BY <1>3, <1>d, DropIs
  <1>5. Len(d) = Len(s) /\ \A i \in 1..Len(d) : d[i] = s[i]
    BY <1>2, <1>4, Lengths
  <1>6. d = s
    BY <1>5, SameSequence
  <1> QED
    BY <1>1, <1>d, <1>6, Zenon

(* Concatenation is associative. *)
LEMMA ConcatAssoc ==
  \A p, s, t \in Positions : (p \o s) \o t = p \o (s \o t)
  BY ConcatAssociative, SMTT(30) DEF Positions

(* Stems. *)
LEMMA StemPrefix ==
  ASSUME NEW p \in Positions, NEW n \in 0..Len(p)
  PROVE  SubSeq(p, 1, n) \in Positions /\ Len(SubSeq(p, 1, n)) = n /\ IsPrefix(SubSeq(p, 1, n), p)
  <1>1. PICK c \in Positions : c = SubSeq(p, 1, n)
    BY StemIs, Zenon
  <1>2. Len(c) = n /\ \A i \in 1..n : c[i] = p[i]
    BY <1>1, StemIs, Zenon
  <1>3. IsPrefix(c, p)
    BY <1>2, PrefixIs, Lengths
  <1> QED
    BY <1>1, <1>2, <1>3, Zenon

(* A prefix is a stem. *)
LEMMA StemOfPrefix ==
  ASSUME NEW p \in Positions, NEW q \in Positions, IsPrefix(p, q)
  PROVE  SubSeq(q, 1, Len(p)) = p
  <1>1. Len(p) \in 0..Len(q)
    BY PrefixIs, Lengths
  <1>2. PICK c \in Positions : c = SubSeq(q, 1, Len(p))
    BY <1>1, StemPrefix, Zenon
  <1>3. Len(c) = Len(p) /\ IsPrefix(c, q)
    BY <1>1, <1>2, StemPrefix, Zenon
  <1>4. c = p
    BY <1>3, PrefixesOfOne, PrefixSame, Lengths
  <1> QED
    BY <1>2, <1>4

(* Two stems of the same length are the same when one position goes through both. *)
LEMMA StemThrough ==
  ASSUME NEW p \in Positions, NEW q \in Positions, IsPrefix(p, q), NEW n \in 0..Len(p)
  PROVE  SubSeq(q, 1, n) = SubSeq(p, 1, n)
  <1>1. n \in 0..Len(q)
    BY PrefixLength, Lengths
  <1>2. PICK a \in Positions : a = SubSeq(p, 1, n)
    BY StemPrefix
  <1>3. Len(a) = n /\ IsPrefix(a, p)
    BY <1>2, StemPrefix
  <1>4. IsPrefix(a, q)
    BY <1>3, PrefixTrans
  <1> QED
    BY <1>2, <1>3, <1>4, StemOfPrefix

(* The position one nibble on. *)
LEMMA AppendIs ==
  ASSUME NEW p \in Positions, NEW i \in Nibbles
  PROVE  /\ Append(p, i) \in Positions
         /\ Append(p, i) = p \o <<i>>
         /\ <<i>> \in Positions
         /\ Len(<<i>>) = 1
         /\ Len(Append(p, i)) = Len(p) + 1
         /\ IsPrefix(p, Append(p, i))
         /\ Append(p, i)[Len(p) + 1] = i
  <1>1. /\ Append(p, i) \in Positions
        /\ <<i>> \in Positions
        /\ Len(<<i>>) = 1
        /\ Len(Append(p, i)) = Len(p) + 1
        /\ Append(p, i)[Len(p) + 1] = i
        /\ \A j \in 1..Len(p) : Append(p, i)[j] = p[j]
    BY DEF Positions
  <1>2. Append(p, i) = p \o <<i>>
    BY AppendIsConcat DEF Positions
  <1>3. PICK c \in Positions : c = Append(p, i)
    BY <1>1, Zenon
  <1>4. Len(c) = Len(p) + 1 /\ \A j \in 1..Len(p) : c[j] = p[j]
    BY <1>1, <1>3, Zenon
  <1>5. IsPrefix(p, c)
    BY <1>4, PrefixIs, Lengths
  <1> QED
    BY <1>1, <1>2, <1>3, <1>5, Zenon

(* The next stem on the way to q. *)
LEMMA NextStem ==
  ASSUME NEW p \in Positions, NEW q \in Positions, IsPrefix(p, q), Len(p) < Len(q)
  PROVE  /\ q[Len(p) + 1] \in Nibbles
         /\ SubSeq(q, 1, Len(p) + 1) = Append(p, q[Len(p) + 1])
         /\ SubSeq(q, 1, Len(p) + 1) \in Positions
         /\ Len(SubSeq(q, 1, Len(p) + 1)) = Len(p) + 1
         /\ IsPrefix(p, SubSeq(q, 1, Len(p) + 1))
         /\ IsPrefix(SubSeq(q, 1, Len(p) + 1), q)
  <1>1. Len(p) + 1 \in 1..Len(q) /\ Len(p) + 1 \in 0..Len(q)
    BY Lengths
  <1>2. q[Len(p) + 1] \in Nibbles
    BY <1>1 DEF Positions
  <1>3. PICK i \in Nibbles : i = q[Len(p) + 1]
    BY <1>2
  <1>4. /\ Append(p, i) \in Positions
        /\ Len(Append(p, i)) = Len(p) + 1
        /\ IsPrefix(p, Append(p, i))
        /\ Append(p, i)[Len(p) + 1] = i
    BY AppendIs
  <1>5. PICK a \in Positions : a = Append(p, i)
    BY <1>4
  <1>6. Len(a) = Len(p) + 1 /\ IsPrefix(p, a) /\ a[Len(p) + 1] = i
    BY <1>4, <1>5
  <1>7. \A j \in 1..(Len(p) + 1) : a[j] = q[j]
    <2>1. \A j \in 1..Len(p) : a[j] = p[j] /\ p[j] = q[j]
      BY <1>6, PrefixIs
    <2> QED
      BY <2>1, <1>3, <1>6, Lengths
  <1>8. IsPrefix(a, q)
    BY <1>1, <1>6, <1>7, PrefixIs, Lengths
  <1>9. SubSeq(q, 1, Len(p) + 1) = a
    BY <1>6, <1>8, StemOfPrefix
  <1> QED
    BY <1>2, <1>3, <1>5, <1>6, <1>8, <1>9

(* A child on the way to q. *)
LEMMA ChildPrefix ==
  ASSUME NEW p \in Positions, NEW q \in Positions, NEW i \in Nibbles, IsPrefix(Append(p, i), q)
  PROVE  IsPrefix(p, q) /\ Len(p) < Len(q) /\ q[Len(p) + 1] = i
  <1>1. PICK a \in Positions : a = Append(p, i)
    BY AppendIs
  <1>2. Len(a) = Len(p) + 1 /\ IsPrefix(p, a) /\ a[Len(p) + 1] = i /\ IsPrefix(a, q)
    BY <1>1, AppendIs
  <1>3. IsPrefix(p, q) /\ Len(p) < Len(q)
    BY <1>2, PrefixTrans, PrefixLength, Lengths
  <1>4. Len(p) + 1 \in 1..Len(a)
    BY <1>2, Lengths
  <1> QED
    BY <1>2, <1>3, <1>4, PrefixIs

-----------------------------------------------------------------------------
(* The length of the keys. *)
KeyLength == CHOOSE n \in Nat : \A k \in Keys : Len(k) = n

(* All keys are positions of one length (KeysAssumption). *)
LEMMA KeysLength ==
  KeyLength \in Nat /\ \A k \in Keys : k \in Positions /\ Len(k) = KeyLength
  <1>1. \A k \in Keys : k \in Positions
    BY KeysAssumption DEF Positions
  <1>2. \E n \in Nat : \A k \in Keys : Len(k) = n
    <2>1. CASE Keys = {}
      <3>1. 0 \in Nat /\ \A k \in Keys : Len(k) = 0
        BY <2>1
      <3> QED
        BY <3>1, Zenon
    <2>2. CASE Keys # {}
      <3>1. PICK k \in Keys : TRUE
        BY <2>2
      <3>2. Len(k) \in Nat /\ \A l \in Keys : Len(l) = Len(k)
        BY <3>1, <1>1, Lengths, KeysAssumption
      <3> QED
        BY <3>2
    <2> QED
      BY <2>1, <2>2
  <1>3. KeyLength \in Nat /\ \A k \in Keys : Len(k) = KeyLength
    BY <1>2, Zenon DEF KeyLength
  <1> QED
    BY <1>1, <1>3

(* Among positions of bounded length there is a longest one, and there is a shortest one. *)
LEMMA LongestOne ==
  ASSUME NEW S, S # {}, S \subseteq Positions, NEW m \in Nat, \A p \in S : Len(p) <= m
  PROVE  \E p \in S : \A q \in S : Len(q) <= Len(p)
  <1>1. PICK N \in SUBSET Nat : N = {n \in Nat : \E p \in S : n = m - Len(p)}
    OBVIOUS
  <1>2. \A p \in S : Len(p) \in Nat /\ m - Len(p) \in Nat /\ m - Len(p) \in N
    BY <1>1, Lengths
  <1>3. N # {}
    BY <1>2
  <1>4. PICK n \in N : \A k \in N : n <= k
    BY <1>3, LeastNat
  <1>5. PICK p \in S : n = m - Len(p)
    BY <1>1, <1>4
  <1>6. ASSUME NEW q \in S
        PROVE  Len(q) <= Len(p)
    BY <1>2, <1>4, <1>5
  <1> QED
    BY <1>5, <1>6

(* Among some positions one is shortest. *)
LEMMA ShortestOne ==
  ASSUME NEW S, S # {}, S \subseteq Positions
  PROVE  \E p \in S : \A q \in S : Len(p) <= Len(q)
  <1>1. PICK N \in SUBSET Nat : N = {n \in Nat : \E p \in S : n = Len(p)}
    OBVIOUS
  <1>2. \A p \in S : Len(p) \in Nat /\ Len(p) \in N
    BY <1>1, Lengths
  <1>3. N # {}
    BY <1>2
  <1>4. PICK n \in N : \A k \in N : n <= k
    BY <1>3, LeastNat
  <1>5. PICK p \in S : n = Len(p)
    BY <1>1, <1>4
  <1> QED
    BY <1>2, <1>4, <1>5

-----------------------------------------------------------------------------
(* The parts of the invariant, for any trie t. *)

IsData(d) ==
  \/ d = Branch
  \/ \E nibs \in Positions : \E value : value # NoValue /\ d = Leaf(nibs, value)
  \/ \E nibs \in Positions : d = Extension(nibs)
  \/ \E digest : d = Digest(digest)

IsMap(map) == map = [k \in Keys |-> map[k]]

IsTrie(t) ==
  /\ t = [p \in DOMAIN t |-> t[p]]
  /\ DOMAIN t \subseteq Positions
  /\ \A p \in DOMAIN t : IsData(t[p].data)

(* Where the path of a leaf or of an extension ends. *)
End(t, p) == p \o t[p].data.nibs

(* What is below p hangs on a child of p, on c, or there is nothing. *)
Joined(t, p) == \A q \in DOMAIN t : IsStrictPrefix(p, q) => SubSeq(q, 1, Len(p) + 1) \in DOMAIN t

Leads(t, p, c) ==
  /\ c \in DOMAIN t
  /\ IsStrictPrefix(p, c)
  /\ \A q \in DOMAIN t : IsStrictPrefix(p, q) => IsPrefix(c, q)

Ends(t, p) == \A q \in DOMAIN t : ~IsStrictPrefix(p, q)

Forked(t, p) == \E i, j \in Children(t, p) : i # j

Shape(t, p) ==
  /\ Kind(t, p) = "Branch" => Forked(t, p) /\ Joined(t, p)
  /\ Kind(t, p) = "Extension" => /\ Leads(t, p, End(t, p))
                                 /\ Kind(t, End(t, p)) \in {"Branch", "Digest"}
  /\ Kind(t, p) \in {"Leaf", "Digest"} => Ends(t, p)

Rooted(t) == DOMAIN t # {} => << >> \in DOMAIN t

Bounded(t) == \A p \in DOMAIN t : Len(p) <= KeyLength

LeavesIn(t, map) ==
  \A p \in DOMAIN t :
    Kind(t, p) = "Leaf" => End(t, p) \in Keys /\ map[End(t, p)] = t[p].data.value

Good(t, map) ==
  /\ IsTrie(t)
  /\ Rooted(t)
  /\ Bounded(t)
  /\ \A p \in DOMAIN t : Shape(t, p)
  /\ LeavesIn(t, map)

NoDigest(t) == \A p \in DOMAIN t : Kind(t, p) # "Digest"

HasLeaf(t, k) == \E p \in DOMAIN t : Kind(t, p) = "Leaf" /\ End(t, p) = k

Whole(t, map) == NoDigest(t) /\ \A k \in Keys : map[k] # NoValue => HasLeaf(t, k)

(* What a truncated trie knows for sure of k: its way ends at no digest, and at its leaf if it has a value. *)
Open(t, k) == \A q \in DOMAIN t : IsPrefix(q, k) => Kind(t, q) # "Digest"

Sure(t, map, k) == Open(t, k) /\ (map[k] # NoValue => HasLeaf(t, k))

(* A change leads to no digest that was not there, and loses none. *)
DigestsKept(t, u) ==
  /\ \A q \in DOMAIN u : Kind(u, q) = "Digest" =>
       q \in DOMAIN t /\ Kind(t, q) = "Digest" /\ u[q].data = t[q].data
  /\ \A q \in DOMAIN t : Kind(t, q) = "Digest" => q \in DOMAIN u /\ Kind(u, q) = "Digest"

(* The kinds of data. *)
LEMMA DataIs ==
  ASSUME NEW d, IsData(d)
  PROVE  /\ d.kind \in {"Branch", "Leaf", "Extension", "Digest"}
         /\ d.kind = "Branch" => d = Branch
         /\ d.kind = "Leaf" => d.nibs \in Positions /\ d.value # NoValue /\ d = Leaf(d.nibs, d.value)
         /\ d.kind = "Extension" => d.nibs \in Positions /\ d = Extension(d.nibs)
  <1>1. CASE d = Branch
    BY <1>1 DEF Branch
  <1>2. CASE \E nibs \in Positions : \E value : value # NoValue /\ d = Leaf(nibs, value)
    BY <1>2 DEF Leaf
  <1>3. CASE \E nibs \in Positions : d = Extension(nibs)
    BY <1>3 DEF Extension
  <1>4. CASE \E digest : d = Digest(digest)
    BY <1>4 DEF Digest
  <1> QED
    BY <1>1, <1>2, <1>3, <1>4 DEF IsData

(* A node is of one of four kinds; leaves and extensions have a path. *)
LEMMA KindIs ==
  ASSUME NEW t, IsTrie(t), NEW p \in DOMAIN t
  PROVE  /\ p \in Positions
         /\ Kind(t, p) \in {"Branch", "Leaf", "Extension", "Digest"}
         /\ Kind(t, p) \in {"Leaf", "Extension"} =>
              t[p].data.nibs \in Positions /\ End(t, p) \in Positions /\ IsPrefix(p, End(t, p))
         /\ Kind(t, p) = "Leaf" => t[p].data.value # NoValue
  <1>1. p \in Positions /\ IsData(t[p].data)
    BY DEF IsTrie
  <1>2. PICK d : d = t[p].data
    OBVIOUS
  <1>3. Kind(t, p) = d.kind /\ IsData(d) /\ End(t, p) = p \o d.nibs
    BY <1>1, <1>2, Zenon DEF Kind, End
  <1>4. /\ d.kind \in {"Branch", "Leaf", "Extension", "Digest"}
        /\ d.kind \in {"Leaf", "Extension"} => d.nibs \in Positions
        /\ d.kind = "Leaf" => d.value # NoValue
    BY <1>3, DataIs
  <1>5. d.kind \in {"Leaf", "Extension"} => p \o d.nibs \in Positions /\ IsPrefix(p, p \o d.nibs)
    BY <1>1, <1>4, PrefixConcat
  <1> QED
    BY <1>1, <1>2, <1>3, <1>4, <1>5

(* The empty trie is the one without a position. *)
LEMMA NullIs ==
  ASSUME NEW t, IsTrie(t)
  PROVE  t = Null <=> DOMAIN t = {}
  BY DEF IsTrie, Null

(* The empty trie is good, whatever the map. *)
LEMMA NullGood ==
  ASSUME NEW map
  PROVE  Good(Null, map) /\ NoDigest(Null) /\ DOMAIN Null = {}
  <1>1. DOMAIN Null = {} /\ Null = [p \in DOMAIN Null |-> Null[p]]
    BY DEF Null
  <1> QED
    BY <1>1 DEF Good, IsTrie, Rooted, Bounded, LeavesIn, NoDigest

(* The data of a trie is all that its form depends on. *)
SameForm(t, u) ==
  DOMAIN u = DOMAIN t /\ \A p \in DOMAIN t : u[p].data = t[p].data

(***************************************************************************)
(* Good, Whole and Sure are about the data of the nodes, not about their   *)
(* caches.                                                                 *)
(***************************************************************************)
LEMMA SameFormGood ==
  ASSUME NEW t, NEW u, NEW map, Good(t, map), SameForm(t, u), u = [p \in DOMAIN u |-> u[p]]
  PROVE  /\ Good(u, map)
         /\ Whole(t, map) => Whole(u, map)
         /\ \A k : Sure(t, map, k) => Sure(u, map, k)
  <1>1. DOMAIN u = DOMAIN t
    BY DEF SameForm
  <1>2. \A p \in DOMAIN t : u[p].data = t[p].data /\ Kind(u, p) = Kind(t, p) /\ End(u, p) = End(t, p)
    BY DEF SameForm, Kind, End
  <1>3. IsTrie(u) /\ Rooted(u) /\ Bounded(u) /\ LeavesIn(u, map)
    BY <1>1, <1>2 DEF Good, IsTrie, Rooted, Bounded, LeavesIn
  <1>4. ASSUME NEW p \in DOMAIN u
        PROVE  Shape(u, p)
    <2>1. Shape(t, p) /\ p \in DOMAIN t
      BY <1>1 DEF Good
    <2>2. /\ Joined(u, p) <=> Joined(t, p)
          /\ Ends(u, p) <=> Ends(t, p)
          /\ Leads(u, p, End(t, p)) <=> Leads(t, p, End(t, p))
          /\ Forked(u, p) <=> Forked(t, p)
      BY <1>1 DEF Joined, Ends, Leads, Forked, Children
    <2>3. Leads(t, p, End(t, p)) => End(t, p) \in DOMAIN t
      BY DEF Leads
    <2> QED
      BY <1>2, <2>1, <2>2, <2>3 DEF Shape
  <1>5. Whole(t, map) => Whole(u, map)
    BY <1>1, <1>2 DEF Whole, NoDigest, HasLeaf
  <1>6. \A k : Sure(t, map, k) => Sure(u, map, k)
    BY <1>1, <1>2 DEF Sure, Open, HasLeaf
  <1> QED
    BY <1>1, <1>3, <1>4, <1>5, <1>6 DEF Good

(* The invariant contains the property. *)
LEMMA ShapeWellFormed ==
  ASSUME NEW t, IsTrie(t), Rooted(t), \A p \in DOMAIN t : Shape(t, p)
  PROVE  WellFormed(t)
  <1>1. t # Null => << >> \in DOMAIN t
    BY NullIs DEF Rooted
  <1>2. ASSUME NEW p \in DOMAIN t
        PROVE  WellFormedAt(t, p)
    <2>1. Shape(t, p) /\ Kind(t, p) \in {"Branch", "Leaf", "Extension", "Digest"}
      BY KindIs
    <2>2. CASE Kind(t, p) = "Branch"
      <3>1. Forked(t, p) /\ Joined(t, p)
        BY <2>1, <2>2 DEF Shape
      <3> QED
        BY <2>2, <3>1 DEF WellFormedAt, Forked, Joined
    <2>3. CASE Kind(t, p) = "Extension"
      <3>1. Leads(t, p, End(t, p)) /\ Kind(t, End(t, p)) \in {"Branch", "Digest"}
        BY <2>1, <2>3 DEF Shape
      <3>2. Kind(t, p) # "Branch"
        BY <2>3
      <3> QED
        BY <2>3, <3>1, <3>2, Zenon DEF WellFormedAt, Leads, End
    <2>4. CASE Kind(t, p) \in {"Leaf", "Digest"}
      <3>1. Ends(t, p) /\ Kind(t, p) # "Branch" /\ Kind(t, p) # "Extension"
        BY <2>1, <2>4 DEF Shape
      <3>2. {q \in DOMAIN t : IsStrictPrefix(p, q)} = {}
        BY <3>1 DEF Ends
      <3> QED
        BY <3>1, <3>2, Zenon DEF WellFormedAt
    <2> QED
      BY <2>1, <2>2, <2>3, <2>4
  <1> QED
    BY <1>1, <1>2 DEF WellFormed

(* Put and Without. *)
LEMMA PutIs ==
  ASSUME NEW t, NEW p, NEW d
  PROVE  /\ Put(t, p, d) = [q \in DOMAIN Put(t, p, d) |-> Put(t, p, d)[q]]
         /\ DOMAIN Put(t, p, d) = DOMAIN t \union {p}
         /\ Put(t, p, d)[p] = Node(d)
         /\ \A q \in DOMAIN t : q # p => Put(t, p, d)[q] = t[q]
  BY DEF Put

(* What Without leaves. *)
LEMMA WithoutIs ==
  ASSUME NEW t, NEW p
  PROVE  /\ Without(t, p) = [q \in DOMAIN Without(t, p) |-> Without(t, p)[q]]
         /\ DOMAIN Without(t, p) = DOMAIN t \ {p}
         /\ \A q \in DOMAIN t : q # p => Without(t, p)[q] = t[q]
  BY DEF Without

(* A new node has nothing cached. *)
LEMMA NodeIs ==
  ASSUME NEW d
  PROVE  Node(d).data = d /\ Node(d).cached_reference = NoReference
  BY DEF Node

(* Where the way of a key ends. *)
DeepestAt(t, key, p) ==
  /\ p \in DOMAIN t
  /\ IsPrefix(p, key)
  /\ \A q \in DOMAIN t : IsPrefix(q, key) => Len(q) <= Len(p) /\ IsPrefix(q, p)

(***************************************************************************)
(* The node where the way to a key ends is well-defined: the root is on    *)
(* every way.                                                              *)
(***************************************************************************)
LEMMA DeepestIs ==
  ASSUME NEW t, NEW map, Good(t, map), DOMAIN t # {}, NEW key \in Positions
  PROVE  DeepestAt(t, key, Deepest(t, key))
  <1>1. << >> \in DOMAIN t /\ DOMAIN t \subseteq Positions /\ \A p \in DOMAIN t : Len(p) <= KeyLength
    BY DEF Good, Rooted, IsTrie, Bounded
  <1>2. Path(t, key) # {} /\ Path(t, key) \subseteq Positions /\ \A p \in Path(t, key) : Len(p) <= KeyLength
    BY <1>1, PrefixEmpty DEF Path
  <1>3. \E p \in Path(t, key) : \A q \in Path(t, key) : Len(q) <= Len(p)
    BY <1>2, KeysLength, LongestOne
  <1>4. PICK p : p = Deepest(t, key)
    OBVIOUS
  <1>5. p \in Path(t, key) /\ \A q \in Path(t, key) : Len(q) <= Len(p)
    BY <1>3, <1>4, Zenon DEF Deepest
  <1>6. p \in DOMAIN t /\ p \in Positions /\ IsPrefix(p, key)
    BY <1>1, <1>5 DEF Path
  <1>7. ASSUME NEW q \in DOMAIN t, IsPrefix(q, key)
        PROVE  Len(q) <= Len(p) /\ IsPrefix(q, p)
    <2>1. q \in Path(t, key) /\ q \in Positions
      BY <1>1, <1>7 DEF Path
    <2>2. Len(q) <= Len(p)
      BY <2>1, <1>5
    <2> QED
      BY <2>1, <2>2, <1>6, <1>7, PrefixesOfOne
  <1> QED
    BY <1>4, <1>6, <1>7 DEF DeepestAt

-----------------------------------------------------------------------------
(* References. *)

(* Two functions with the same arguments and values. *)
LEMMA SameFunction ==
  ASSUME NEW f, NEW g, f = [x \in DOMAIN f |-> f[x]], g = [x \in DOMAIN g |-> g[x]],
         DOMAIN f = DOMAIN g, \A x \in DOMAIN f : f[x] = g[x]
  PROVE  f = g
  <1>1. [x \in DOMAIN f |-> f[x]] = [x \in DOMAIN g |-> g[x]]
    OBVIOUS
  <1> QED
    BY <1>1

(* The same node below the same position gives the same reference. *)
Kept(t, u, q) ==
  /\ q \in DOMAIN t
  /\ \A x \in Positions :
       IsPrefix(q, x) => (x \in DOMAIN u <=> x \in DOMAIN t) /\ (x \in DOMAIN t => u[x] = t[x])

(* A reference that is cached is one of a node under which nothing has changed. *)
CachesFrom(t, u) ==
  \A q \in DOMAIN u : u[q].cached_reference = NoReference \/ Kept(t, u, q)

(* A trie u that stands for the data of a reference: below the places in cut it is known by references only. *)
View(u, reference, cut) ==
  /\ reference = [q \in DOMAIN reference |-> reference[q]]
  /\ DOMAIN reference \subseteq Positions
  /\ cut \subseteq DOMAIN reference
  /\ \A q : q \in DOMAIN u <=> q \in DOMAIN reference /\ \A r \in cut : ~IsStrictPrefix(r, q)
  /\ \A q \in DOMAIN u : q \in cut => Known(u, q)
  /\ \A q \in DOMAIN u : Known(u, q) => KnownReference(u, q) = Subreference(reference, q)
  /\ \A q \in DOMAIN u : ~Known(u, q) => u[q].data = reference[q]

(* What a Subreference is, at each of its positions. *)
LEMMA SubreferenceIs ==
  ASSUME NEW f, DOMAIN f \subseteq Positions, NEW p \in Positions
  PROVE  /\ Subreference(f, p) = [s \in DOMAIN Subreference(f, p) |-> Subreference(f, p)[s]]
         /\ \A s : s \in DOMAIN Subreference(f, p) <=> s \in Positions /\ p \o s \in DOMAIN f
         /\ \A s \in DOMAIN Subreference(f, p) : Subreference(f, p)[s] = f[p \o s]
  <1>1. ASSUME NEW s, s \in {Drop(q, Len(p)) : q \in {r \in DOMAIN f : IsPrefix(p, r)}}
        PROVE  s \in Positions /\ p \o s \in DOMAIN f
    <2>1. PICK q \in DOMAIN f : IsPrefix(p, q) /\ s = Drop(q, Len(p))
      BY <1>1
    <2>2. q \in Positions
      BY <2>1
    <2>3. s \in Positions /\ p \o s = q
      BY <2>1, <2>2, PrefixRest
    <2> QED
      BY <2>1, <2>3
  <1>2. ASSUME NEW s \in Positions, p \o s \in DOMAIN f
        PROVE  s \in {Drop(q, Len(p)) : q \in {r \in DOMAIN f : IsPrefix(p, r)}}
    <2>1. PICK q \in DOMAIN f : q = p \o s
      BY <1>2
    <2>2. IsPrefix(p, q) /\ Drop(q, Len(p)) = s
      BY <2>1, PrefixConcat, DropConcat, Zenon
    <2> QED
      BY <2>1, <2>2
  <1>3. DOMAIN Subreference(f, p) = {Drop(q, Len(p)) : q \in {r \in DOMAIN f : IsPrefix(p, r)}}
    BY DEF Subreference
  <1>4. \A s \in DOMAIN Subreference(f, p) : Subreference(f, p)[s] = f[p \o s]
    BY DEF Subreference
  <1>5. Subreference(f, p) = [s \in DOMAIN Subreference(f, p) |-> Subreference(f, p)[s]]
    BY DEF Subreference
  <1> QED
    BY <1>1, <1>2, <1>3, <1>4, <1>5

(* reference() of a node of u is the reference of what u stands for there. *)
LEMMA ViewReference ==
  ASSUME NEW u, NEW f, NEW cut, View(u, f, cut), NEW p \in DOMAIN u
  PROVE  Reference(u, p) = Subreference(f, p)
  <1>0. /\ DOMAIN f \subseteq Positions /\ cut \subseteq DOMAIN f /\ DOMAIN u \subseteq DOMAIN f /\ p \in Positions
        /\ DOMAIN u \subseteq Positions
        /\ \A q : q \in DOMAIN u <=> q \in DOMAIN f /\ \A r \in cut : ~IsStrictPrefix(r, q)
        /\ \A q \in DOMAIN u : q \in cut => Known(u, q)
        /\ \A q \in DOMAIN u : Known(u, q) => KnownReference(u, q) = Subreference(f, q)
        /\ \A q \in DOMAIN u : ~Known(u, q) => u[q].data = f[q]
    BY DEF View
  <1> DEFINE below == {q \in DOMAIN u : IsPrefix(p, q)}
             known == {q \in below : Known(u, q)}
             tops  == {q \in known : ~\E r \in known : IsStrictPrefix(r, q)}
             open  == {q \in below : ~\E r \in tops : IsPrefix(r, q)}
             of(q) == CHOOSE r \in tops : IsPrefix(r, q)
             from(r) == {r \o s : s \in DOMAIN KnownReference(u, r)}
             all   == open \union UNION {from(r) : r \in tops}
             value(q) == IF q \in open THEN u[q].data
                         ELSE KnownReference(u, of(q))[Drop(q, Len(of(q)))]
             whole == {q \in DOMAIN f : IsPrefix(p, q)}
  <1>1. Reference(u, p) = [s \in {Drop(q, Len(p)) : q \in all} |-> value(p \o s)]
    BY DEF Reference
  <1>2. \A r \in tops : /\ r \in DOMAIN u /\ IsPrefix(p, r) /\ Known(u, r)
                        /\ KnownReference(u, r) = Subreference(f, r)
    BY <1>0
  <1>3. \A q \in open : q \in below
    OBVIOUS
  <1>4. \A q \in below : (\A r \in tops : ~IsPrefix(r, q)) => q \in open
    OBVIOUS
  <1>5. \A q \in open, r \in tops : ~IsPrefix(r, q)
    OBVIOUS
  <1>6. \A q : q \in below <=> q \in DOMAIN u /\ IsPrefix(p, q)
    OBVIOUS
  <1>7. \A q \in DOMAIN u : IsPrefix(p, q) /\ Known(u, q) =>
          ((\A r \in DOMAIN u : IsPrefix(p, r) /\ Known(u, r) => ~IsStrictPrefix(r, q)) => q \in tops)
    OBVIOUS
  <1>8. \A q : q \in whole <=> q \in DOMAIN f /\ IsPrefix(p, q)
    OBVIOUS
  <1> HIDE DEF below, known, tops, open, whole
  <1>9. \A q : q \in all <=> q \in open \/ \E r \in tops : \E s \in DOMAIN KnownReference(u, r) : q = r \o s
    <2>1. \A r : \A q : q \in from(r) <=> \E s \in DOMAIN KnownReference(u, r) : q = r \o s
      BY Zenon
    <2> HIDE DEF from
    <2>2. \A q : q \in all <=> q \in open \/ \E r \in tops : q \in from(r)
      OBVIOUS
    <2> HIDE DEF all
    <2> SUFFICES ASSUME NEW q
                 PROVE  q \in all <=> q \in open \/ \E r \in tops : \E s \in DOMAIN KnownReference(u, r) : q = r \o s
      OBVIOUS
    <2>3. ASSUME NEW r \in tops
          PROVE  q \in from(r) <=> \E s \in DOMAIN KnownReference(u, r) : q = r \o s
      BY <2>1, Zenon
    <2>4. (\E r \in tops : q \in from(r)) <=> \E r \in tops : \E s \in DOMAIN KnownReference(u, r) : q = r \o s
      BY <2>3, Zenon
    <2> QED
      BY <2>2, <2>4, Zenon
  <1> HIDE DEF all, from
  (* Every place is open, or below a reference that is known. *)
  <1>10. ASSUME NEW q \in whole
         PROVE  (q \in open /\ ~Known(u, q)) \/ (q \notin open /\ \E r \in tops : IsPrefix(r, q))
    <2>0. q \in DOMAIN f /\ q \in Positions /\ IsPrefix(p, q) /\ Len(q) \in Nat
      BY <1>0, <1>8, Lengths
    <2>1. PICK S \in SUBSET Positions :
            S = {x \in DOMAIN f : IsPrefix(p, x) /\ IsPrefix(x, q) /\ (x \in cut \/ (x \in DOMAIN u /\ Known(u, x)))}
      BY <1>0
    <2>2. ASSUME NEW c \in cut, IsPrefix(c, q)
          PROVE  c \in S
      <3>1. c \in DOMAIN f /\ c \in Positions /\ ~IsStrictPrefix(c, p)
        BY <1>0
      <3>2. IsPrefix(c, p) \/ IsPrefix(p, c)
        BY <3>1, <2>0, <2>2, <1>0, PrefixesOfOne, Lengths
      <3>3. IsPrefix(p, c)
        BY <3>1, <3>2, <1>0, PrefixSelf DEF IsStrictPrefix
      <3> QED
        BY <3>1, <3>3, <2>1, <2>2
    <2>3. CASE S = {}
      <3>1. q \in DOMAIN u
        BY <2>0, <2>2, <2>3, <1>0 DEF IsStrictPrefix
      <3>2. ~Known(u, q)
        BY <3>1, <2>0, <2>1, <2>3, PrefixSelf
      <3>3. \A r \in tops : ~IsPrefix(r, q)
        BY <2>1, <2>3, <1>0, <1>2
      <3> QED
        BY <3>1, <3>2, <3>3, <2>0, <1>4, <1>6
    <2>4. CASE S # {}
      <3>1. PICK r \in S : \A x \in S : Len(r) <= Len(x)
        BY <2>1, <2>4, ShortestOne
      <3>2. /\ r \in DOMAIN f /\ r \in Positions /\ IsPrefix(p, r) /\ IsPrefix(r, q) /\ Len(r) \in Nat
            /\ r \in cut \/ (r \in DOMAIN u /\ Known(u, r))
        BY <3>1, <2>1, <1>0, Lengths
      <3>3. ASSUME NEW x \in S, IsStrictPrefix(x, r)
            PROVE  FALSE
        <4>1. x \in Positions /\ Len(x) < Len(r) /\ Len(r) <= Len(x) /\ Len(x) \in Nat
          BY <3>1, <3>2, <3>3, <2>1, StrictIs, Lengths
        <4> QED
          BY <4>1, <3>2
      <3>4. r \in DOMAIN u
        <4>1. SUFFICES ASSUME NEW c \in cut, IsStrictPrefix(c, r)
                       PROVE  FALSE
          BY <3>2, <1>0
        <4>2. IsPrefix(c, q)
          BY <4>1, <3>2, <2>0, <1>0, PrefixTrans DEF IsStrictPrefix
        <4> QED
          BY <4>1, <4>2, <2>2, <3>3
      <3>5. Known(u, r)
        BY <3>2, <3>4, <1>0
      <3>6. ASSUME NEW x \in DOMAIN u, IsPrefix(p, x), Known(u, x), IsStrictPrefix(x, r)
            PROVE  FALSE
        <4>1. x \in DOMAIN f /\ x \in Positions
          BY <1>0
        <4>2. IsPrefix(x, q)
          BY <4>1, <3>2, <3>6, <2>0, PrefixTrans DEF IsStrictPrefix
        <4>3. x \in S
          BY <4>1, <4>2, <3>6, <2>1
        <4> QED
          BY <4>3, <3>3, <3>6
      <3>7. r \in tops
        BY <3>2, <3>4, <3>5, <3>6, <1>7
      <3> QED
        BY <3>2, <3>7, <1>5
    <2> QED
      BY <2>3, <2>4
  <1>11. ASSUME NEW q \in all
         PROVE  q \in whole
    <2>1. CASE q \in open
      BY <2>1, <1>0, <1>3, <1>6, <1>8
    <2>2. ASSUME NEW r \in tops, NEW s \in DOMAIN KnownReference(u, r), q = r \o s
          PROVE  q \in whole
      <3>1. r \in Positions /\ IsPrefix(p, r) /\ s \in DOMAIN Subreference(f, r)
        BY <1>0, <1>2, <2>2
      <3>2. s \in Positions /\ r \o s \in DOMAIN f
        BY <3>1, <1>0, SubreferenceIs, Zenon
      <3>3. q \in DOMAIN f /\ q \in Positions /\ IsPrefix(r, q)
        BY <2>2, <3>1, <3>2, PrefixConcat, Zenon
      <3>4. IsPrefix(p, q)
        BY <3>1, <3>3, <1>0, PrefixTrans
      <3> QED
        BY <3>3, <3>4, <1>8
    <2> QED
      BY <1>9, <2>1, <2>2, Zenon
  <1>12. ASSUME NEW q \in whole, q \notin open
         PROVE  /\ of(q) \in tops
                /\ Drop(q, Len(of(q))) \in DOMAIN KnownReference(u, of(q))
                /\ q = of(q) \o Drop(q, Len(of(q)))
                /\ KnownReference(u, of(q))[Drop(q, Len(of(q)))] = f[q]
    <2>1. of(q) \in tops /\ IsPrefix(of(q), q)
      BY <1>10, <1>12, Zenon
    <2> HIDE DEF of
    <2>2. PICK r \in tops : r = of(q)
      BY <2>1
    <2>3. r \in Positions /\ KnownReference(u, r) = Subreference(f, r) /\ q \in Positions /\ IsPrefix(r, q)
      BY <1>0, <1>2, <1>8, <2>1, <2>2
    <2>4. PICK s \in Positions : s = Drop(q, Len(r))
      BY <2>3, PrefixRest
    <2>5. r \o s = q
      BY <2>3, <2>4, PrefixRest
    <2>6. q \in DOMAIN f
      BY <1>8
    <2>f. /\ \A x : x \in DOMAIN Subreference(f, r) <=> x \in Positions /\ r \o x \in DOMAIN f
          /\ \A x \in DOMAIN Subreference(f, r) : Subreference(f, r)[x] = f[r \o x]
      <3>1. r \in Positions /\ DOMAIN f \subseteq Positions
        BY <2>3, <1>0
      <3> QED
        BY ONLY <3>1, SubreferenceIs
    <2>7. s \in DOMAIN Subreference(f, r)
      BY <2>f, <2>4, <2>5, <2>6, Zenon
    <2>8. Subreference(f, r)[s] = f[r \o s]
      BY ONLY <2>f, <2>7, Zenon
    <2> QED
      BY <2>1, <2>2, <2>3, <2>4, <2>5, <2>7, <2>8, Zenon
  <1>13. \A q \in whole : q \in all
    BY <1>9, <1>12, Zenon
  <1>14. {Drop(q, Len(p)) : q \in all} = {Drop(q, Len(p)) : q \in whole}
    BY <1>11, <1>13, Zenon
  <1>15. ASSUME NEW q \in whole
         PROVE  value(q) = f[q]
    <2>1. CASE q \in open
      <3>1. q \in DOMAIN u /\ ~Known(u, q)
        BY <2>1, <1>3, <1>6, <1>10
      <3> QED
        BY <2>1, <3>1, <1>0
    <2>2. CASE q \notin open
      BY <2>2, <1>12, Zenon
    <2> QED
      BY <2>1, <2>2
  <1>16. ASSUME NEW s \in {Drop(q, Len(p)) : q \in whole}
         PROVE  value(p \o s) = f[p \o s]
    <2>1. PICK q \in whole : s = Drop(q, Len(p))
      BY <1>16
    <2>2. q \in Positions /\ IsPrefix(p, q)
      BY <2>1, <1>0, <1>8
    <2>3. p \o s = q
      BY <2>1, <2>2, <1>0, PrefixRest
    <2> HIDE DEF value
    <2>4. value(p \o s) = value(q)
      BY <2>3, Zenon
    <2> QED
      BY <2>3, <2>4, <1>15, Zenon
  <1> HIDE DEF value
  <1>17. Reference(u, p) = [s \in {Drop(q, Len(p)) : q \in whole} |-> value(p \o s)]
    BY <1>1, <1>14, Zenon
  <1>18. [s \in {Drop(q, Len(p)) : q \in whole} |-> value(p \o s)]
           = [s \in {Drop(q, Len(p)) : q \in whole} |-> f[p \o s]]
    BY <1>16, Zenon
  <1>19. Subreference(f, p) = [s \in {Drop(q, Len(p)) : q \in whole} |-> f[p \o s]]
    BY Zenon DEF Subreference, whole
  <1> QED
    BY <1>17, <1>18, <1>19, Zenon

(* The reference of the whole is the whole. *)
LEMMA SubreferenceOfAll ==
  ASSUME NEW f, f = [q \in DOMAIN f |-> f[q]], DOMAIN f \subseteq Positions
  PROVE  Subreference(f, << >>) = f
  <1>1. PICK g : g = Subreference(f, << >>)
    OBVIOUS
  <1>2. /\ g = [s \in DOMAIN g |-> g[s]]
        /\ \A s : s \in DOMAIN g <=> s \in Positions /\ << >> \o s \in DOMAIN f
        /\ \A s \in DOMAIN g : g[s] = f[<< >> \o s]
    BY <1>1, EmptyPosition, SubreferenceIs, Zenon
  <1>3. \A s \in Positions : << >> \o s = s
    BY DEF Positions
  <1>4. DOMAIN g = DOMAIN f /\ \A s \in DOMAIN g : g[s] = f[s]
    BY <1>2, <1>3
  <1>5. g = f
    BY <1>2, <1>4, SameFunction
  <1> QED
    BY <1>1, <1>5

(* The hash of what is known in part. *)
LEMMA ViewHash ==
  ASSUME NEW u, NEW f, NEW cut, View(u, f, cut), << >> \in DOMAIN f
  PROVE  Hash(u) = f
  <1>1. /\ f = [q \in DOMAIN f |-> f[q]] /\ DOMAIN f \subseteq Positions /\ cut \subseteq Positions
        /\ \A q : q \in DOMAIN u <=> q \in DOMAIN f /\ \A r \in cut : ~IsStrictPrefix(r, q)
    BY DEF View
  <1>2. \A r \in Positions : ~IsStrictPrefix(r, << >>)
    BY StrictIs, EmptyPosition, Lengths
  <1>3. << >> \in DOMAIN u
    BY <1>1, <1>2
  <1>4. u # Null
    BY <1>3 DEF Null
  <1> QED
    BY <1>1, <1>3, <1>4, ViewReference, SubreferenceOfAll DEF Hash

(* The data of a trie. *)
DataOf(t) == [q \in DOMAIN t |-> t[q].data]

-----------------------------------------------------------------------------
(* get. *)

(* The leaf of a key is where its way ends. *)
LEMMA LeafAtEnd ==
  ASSUME NEW t, NEW map, Good(t, map), NEW key \in Keys, NEW p, DeepestAt(t, key, p)
  PROVE  /\ HasLeaf(t, key) <=> Kind(t, p) = "Leaf" /\ t[p].data.nibs = Drop(key, Len(p))
         /\ HasLeaf(t, key) => End(t, p) = key /\ map[key] = t[p].data.value
         /\ Kind(t, p) = "Leaf" => (t[p].data.nibs = Drop(key, Len(p)) <=> End(t, p) = key)
  <1>1. IsTrie(t) /\ p \in DOMAIN t /\ IsPrefix(p, key) /\ p \in Positions /\ key \in Positions
    BY KeysLength DEF DeepestAt, Good, IsTrie
  <1>2. PICK rest \in Positions : rest = Drop(key, Len(p)) /\ p \o rest = key
    BY <1>1, PrefixRest
  <1>3. ASSUME Kind(t, p) = "Leaf"
        PROVE  t[p].data.nibs = rest <=> End(t, p) = key
    <2>1. t[p].data.nibs \in Positions
      BY <1>1, <1>3, KindIs
    <2>2. PICK nibs \in Positions : nibs = t[p].data.nibs
      BY <2>1
    <2>3. Drop(p \o nibs, Len(p)) = nibs /\ Drop(p \o rest, Len(p)) = rest
      BY <1>1, DropConcat, Zenon
    <2>4. End(t, p) = p \o nibs
      BY <2>2, Zenon DEF End
    <2> QED
      BY <1>2, <2>2, <2>3, <2>4, Zenon
  <1>4. ASSUME NEW q \in DOMAIN t, Kind(t, q) = "Leaf", End(t, q) = key
        PROVE  q = p
    <2>1. q \in Positions /\ IsPrefix(q, key)
      BY <1>1, <1>4, KindIs
    <2>2. IsPrefix(q, p)
      BY <2>1 DEF DeepestAt
    <2>3. Ends(t, q)
      BY <1>4 DEF Good, Shape
    <2> QED
      BY <1>1, <2>2, <2>3 DEF Ends, IsStrictPrefix
  <1>5. HasLeaf(t, key) => Kind(t, p) = "Leaf" /\ End(t, p) = key
    BY <1>4 DEF HasLeaf
  <1>6. Kind(t, p) = "Leaf" /\ End(t, p) = key => HasLeaf(t, key)
    BY <1>1 DEF HasLeaf
  <1>7. Kind(t, p) = "Leaf" /\ End(t, p) = key => map[key] = t[p].data.value
    BY <1>1 DEF Good, LeavesIn
  <1> QED
    BY <1>2, <1>3, <1>5, <1>6, <1>7

(***************************************************************************)
(* get returns the value of the map or, where the trie is truncated,       *)
(* nothing.                                                                *)
(***************************************************************************)
LEMMA GetTrue ==
  ASSUME NEW t, NEW map, Good(t, map), NEW key \in Keys
  PROVE  /\ Get(t, key) \in {map[key], NoValue}
         /\ Sure(t, map, key) => Get(t, key) = map[key]
  <1>1. IsTrie(t) /\ key \in Positions
    BY KeysLength DEF Good
  <1>2. CASE DOMAIN t = {}
    <2>1. Get(t, key) = NoValue
      BY <1>1, <1>2, NullIs DEF Get
    <2>2. ~HasLeaf(t, key)
      BY <1>2 DEF HasLeaf
    <2> QED
      BY <2>1, <2>2 DEF Sure
  <1>3. CASE DOMAIN t # {}
    <2>1. PICK p : p = Deepest(t, key)
      OBVIOUS
    <2>2. DeepestAt(t, key, p)
      BY <1>1, <1>3, <2>1, DeepestIs
    <2>3. t # Null
      BY <1>1, <1>3, NullIs
    <2>4. Get(t, key) = IF Kind(t, p) = "Leaf" /\ t[p].data.nibs = Drop(key, Len(p))
                          THEN t[p].data.value ELSE NoValue
      BY <2>1, <2>3 DEF Get
    <2>5. CASE HasLeaf(t, key)
      BY <2>2, <2>4, <2>5, LeafAtEnd
    <2>6. CASE ~HasLeaf(t, key)
      <3>1. Get(t, key) = NoValue
        BY <2>2, <2>4, <2>6, LeafAtEnd
      <3> QED
        BY <3>1, <2>6 DEF Sure
    <2> QED
      BY <2>5, <2>6
  <1> QED
    BY <1>2, <1>3

-----------------------------------------------------------------------------
(* prune_unmarked_nodes. *)
(* u is t with the nodes of cut known by their digests only. *)
Cut(t, u, cut) ==
  /\ u = [p \in DOMAIN u |-> u[p]]
  /\ cut \subseteq DOMAIN t
  /\ \A p : p \in DOMAIN u <=> p \in DOMAIN t /\ \A q \in cut : ~IsStrictPrefix(q, p)
  /\ \A p \in DOMAIN u : p \in cut => Kind(u, p) = "Digest" /\ \E digest : u[p].data = Digest(digest)
  /\ \A p \in DOMAIN u : p \notin cut =>
       u[p].data = t[p].data /\ Kind(u, p) = Kind(t, p) /\ End(u, p) = End(t, p)

(***************************************************************************)
(* Cutting a good trie leaves a good trie: what was below a digest stays   *)
(* unknown.                                                                *)
(***************************************************************************)
LEMMA CutGood ==
  ASSUME NEW t, NEW map, Good(t, map), NEW u, NEW unmarked, Cut(t, u, unmarked)
  PROVE  Good(u, map)
  <1>3. PICK kept : kept = DOMAIN u
    OBVIOUS
  <1>4. \A p \in unmarked : p \in DOMAIN t
    BY DEF Cut
  <1>5. u = [p \in DOMAIN u |-> u[p]] /\ \A p \in kept : p \in DOMAIN t /\ \A q \in unmarked : ~IsStrictPrefix(q, p)
    BY <1>3 DEF Cut
  <1>6. \A p \in DOMAIN t : (\A q \in unmarked : ~IsStrictPrefix(q, p)) => p \in kept
    BY <1>3 DEF Cut
  <1>8. IsTrie(t) /\ DOMAIN t \subseteq Positions
    BY DEF Good, IsTrie
  <1>9. \A p \in kept : /\ p \in unmarked => Kind(u, p) = "Digest" /\ \E digest : u[p].data = Digest(digest)
                        /\ p \notin unmarked => u[p].data = t[p].data /\ Kind(u, p) = Kind(t, p) /\ End(u, p) = End(t, p)
    BY <1>3 DEF Cut
  <1>10. IsTrie(u)
    <2>1. ASSUME NEW p \in kept
          PROVE  IsData(u[p].data)
      <3>1. CASE p \in unmarked
        BY <3>1, <1>9 DEF IsData
      <3>2. CASE p \notin unmarked
        BY <3>2, <1>5, <1>9 DEF Good, IsTrie
      <3> QED
        BY <3>1, <3>2
    <2> QED
      BY <2>1, <1>3, <1>5, <1>8 DEF IsTrie
  <1>11. Rooted(u)
    <2>1. ASSUME << >> \in DOMAIN t
          PROVE  << >> \in kept
      <3>1. ASSUME NEW q \in unmarked
            PROVE  ~IsStrictPrefix(q, << >>)
        BY <1>4, <1>8, StrictIs, EmptyPosition, Lengths
      <3> QED
        BY <2>1, <3>1, <1>6
    <2> QED
      BY <2>1, <1>3, <1>5 DEF Good, Rooted
  <1>12. Bounded(u)
    BY <1>3, <1>5 DEF Good, Bounded
  <1>13. LeavesIn(u, map)
    BY <1>3, <1>5, <1>9 DEF Good, LeavesIn
  <1>14. ASSUME NEW p \in kept
         PROVE  Shape(u, p)
    <2>1. Shape(t, p) /\ p \in DOMAIN t /\ p \in Positions
      BY <1>5, <1>8 DEF Good
    <2>2. CASE p \in unmarked
      <3>1. Kind(u, p) = "Digest"
        BY <2>2, <1>9
      <3>2. Ends(u, p)
        BY <2>2, <1>3, <1>5 DEF Ends
      <3> QED
        BY <3>1, <3>2 DEF Shape
    <2>3. CASE p \notin unmarked
      <3>1. Kind(u, p) = Kind(t, p) /\ End(u, p) = End(t, p)
        BY <2>3, <1>9
      <3>2. Ends(t, p) => Ends(u, p)
        BY <1>3, <1>5 DEF Ends
      <3>3. ASSUME NEW c \in DOMAIN t, IsStrictPrefix(p, c),
                   \A q \in DOMAIN t : IsStrictPrefix(p, q) => ~IsStrictPrefix(q, c)
            PROVE  c \in kept
        <4>1. ASSUME NEW q \in unmarked, IsStrictPrefix(q, c)
              PROVE  FALSE
          <5>1. q \in DOMAIN t /\ q \in Positions /\ c \in Positions
            BY <1>4, <1>8
          <5>2. IsPrefix(q, c) /\ IsPrefix(p, c) /\ q # p
            BY <5>1, <4>1, <3>3, <2>1, <2>3, StrictIs
          <5>3. ~IsStrictPrefix(p, q) /\ ~IsStrictPrefix(q, p)
            BY <5>1, <4>1, <3>3, <1>5
          <5>4. ~IsPrefix(p, q) /\ ~IsPrefix(q, p)
            BY <5>2, <5>3 DEF IsStrictPrefix
          <5> QED
            BY <5>1, <5>2, <5>4, <2>1, PrefixesOfOne, Lengths
        <4> QED
          BY <4>1, <1>6
      <3>4. Kind(t, p) = "Branch" => Forked(u, p) /\ Joined(u, p)
        <4>1. SUFFICES ASSUME Kind(t, p) = "Branch"
                       PROVE  Forked(u, p) /\ Joined(u, p)
          OBVIOUS
        <4>2. Forked(t, p) /\ Joined(t, p)
          BY <4>1, <2>1 DEF Shape
        <4>3. ASSUME NEW c \in DOMAIN t, IsPrefix(p, c), Len(c) = Len(p) + 1
              PROVE  c \in kept
          <5>1. c \in Positions /\ IsStrictPrefix(p, c)
            BY <4>3, <1>8, <2>1, StrictIs, Lengths
          <5>2. ASSUME NEW q \in DOMAIN t, IsStrictPrefix(p, q)
                PROVE  ~IsStrictPrefix(q, c)
            BY <5>2, <4>3, <5>1, <1>8, <2>1, StrictIs, Lengths
          <5> QED
            BY <5>1, <5>2, <3>3
        <4>4. \A i \in Children(t, p) : i \in Children(u, p)
          <5>1. ASSUME NEW i \in Children(t, p)
                PROVE  i \in Children(u, p)
            <6>1. i \in Nibbles /\ Append(p, i) \in DOMAIN t
              BY DEF Children
            <6>2. PICK c \in DOMAIN t : c = Append(p, i)
              BY <6>1
            <6>3. IsPrefix(p, c) /\ Len(c) = Len(p) + 1
              BY <6>1, <6>2, <2>1, AppendIs, Zenon
            <6>4. c \in DOMAIN u
              BY <6>3, <4>3, <1>3
            <6> QED
              BY <6>1, <6>2, <6>4 DEF Children
          <5> QED
            BY <5>1
        <4>5. Forked(u, p)
          BY <4>2, <4>4 DEF Forked
        <4>6. ASSUME NEW q \in DOMAIN u, IsStrictPrefix(p, q)
              PROVE  SubSeq(q, 1, Len(p) + 1) \in DOMAIN u
          <5>1. q \in DOMAIN t /\ q \in Positions /\ IsPrefix(p, q) /\ Len(p) < Len(q)
            BY <4>6, <1>3, <1>5, <1>8, <2>1, StrictIs
          <5>2. SubSeq(q, 1, Len(p) + 1) \in DOMAIN t
            BY <5>1, <4>6, <4>2 DEF Joined
          <5>3. PICK c \in DOMAIN t : c = SubSeq(q, 1, Len(p) + 1)
            BY <5>2
          <5>4. IsPrefix(p, c) /\ Len(c) = Len(p) + 1
            BY <5>1, <5>3, <2>1, NextStem, Zenon
          <5> QED
            BY <5>3, <5>4, <4>3, <1>3
        <4> QED
          BY <4>5, <4>6 DEF Joined
      <3>5. Kind(t, p) = "Extension" => /\ Leads(u, p, End(t, p))
                                        /\ Kind(u, End(t, p)) \in {"Branch", "Digest"}
        <4>1. SUFFICES ASSUME Kind(t, p) = "Extension"
                       PROVE  /\ Leads(u, p, End(t, p))
                              /\ Kind(u, End(t, p)) \in {"Branch", "Digest"}
          OBVIOUS
        <4>2. PICK c : c = End(t, p)
          OBVIOUS
        <4>3. Leads(t, p, c) /\ Kind(t, c) \in {"Branch", "Digest"}
          BY <4>1, <4>2, <2>1 DEF Shape
        <4>4. c \in DOMAIN t /\ IsStrictPrefix(p, c) /\ c \in Positions
          BY <4>3, <1>8 DEF Leads
        <4>5. ASSUME NEW q \in DOMAIN t, IsStrictPrefix(p, q)
              PROVE  ~IsStrictPrefix(q, c)
          <5>1. IsPrefix(c, q) /\ q \in Positions
            BY <4>3, <4>5, <1>8 DEF Leads
          <5> QED
            BY <5>1, <4>4, StrictIs, PrefixLength, Lengths
        <4>6. c \in kept
          BY <4>4, <4>5, <3>3
        <4>7. Leads(u, p, c)
          BY <4>3, <4>6, <1>3, <1>5 DEF Leads
        <4>8. Kind(u, c) \in {"Branch", "Digest"}
          BY <4>3, <4>6, <1>9
        <4> QED
          BY <4>2, <4>7, <4>8
      <3> QED
        BY <2>1, <3>1, <3>2, <3>4, <3>5 DEF Shape
    <2> QED
      BY <2>2, <2>3
  <1> QED
    BY <1>3, <1>10, <1>11, <1>12, <1>13, <1>14 DEF Good

(* A key that has no digest put on its way loses nothing. *)
LEMMA CutSure ==
  ASSUME NEW t, NEW map, Good(t, map), NEW u, NEW cut, Cut(t, u, cut), NEW k \in Keys, Sure(t, map, k),
         \A p \in cut : ~IsPrefix(p, k)
  PROVE  Sure(u, map, k)
  <1>1. DOMAIN t \subseteq Positions /\ k \in Positions
    BY KeysAssumption DEF Good, IsTrie, Positions
  <1>2. ASSUME NEW p \in DOMAIN t, IsPrefix(p, k)
        PROVE  p \in DOMAIN u /\ Kind(u, p) = Kind(t, p) /\ End(u, p) = End(t, p)
    <2>1. ASSUME NEW q \in cut
          PROVE  ~IsStrictPrefix(q, p)
      <3>1. q \in DOMAIN t
        BY DEF Cut
      <3> QED
        BY <3>1, <1>1, <1>2, PrefixTrans DEF IsStrictPrefix
    <2>2. p \in DOMAIN u
      BY <2>1 DEF Cut
    <2> QED
      BY <2>2, <1>2 DEF Cut
  <1>3. Open(u, k)
    <2>1. ASSUME NEW q \in DOMAIN u, IsPrefix(q, k)
          PROVE  Kind(u, q) # "Digest"
      <3>1. q \in DOMAIN t
        BY DEF Cut
      <3> QED
        BY <3>1, <2>1, <1>2 DEF Sure, Open
    <2> QED
      BY <2>1 DEF Open
  <1>4. map[k] # NoValue => HasLeaf(u, k)
    <2> SUFFICES ASSUME map[k] # NoValue
                 PROVE  HasLeaf(u, k)
      OBVIOUS
    <2>1. PICK p \in DOMAIN t : Kind(t, p) = "Leaf" /\ End(t, p) = k
      BY DEF Sure, HasLeaf
    <2>2. IsPrefix(p, k)
      BY <2>1, KindIs DEF Good
    <2> QED
      BY <2>1, <2>2, <1>2 DEF HasLeaf
  <1> QED
    BY <1>3, <1>4 DEF Sure

(* prune_unmarked_nodes cuts where the reference is not marked, and keeps that reference. *)
LEMMA PruneIs ==
  ASSUME NEW t, NEW refs
  PROVE  \E cut : /\ Cut(t, Prune(t, refs), cut)
                  /\ \A p \in cut : Reference(t, p) \notin refs
                  /\ \A p \in DOMAIN Prune(t, refs) :
                       /\ p \in cut => /\ Prune(t, refs)[p].data = Digest(Reference(t, p))
                                       /\ Prune(t, refs)[p].cached_reference = Reference(t, p)
                       /\ p \notin cut => Prune(t, refs)[p].cached_reference = NoReference
  <1> DEFINE unmarked == {p \in DOMAIN t : Kind(t, p) # "Leaf" /\ Reference(t, p) \notin refs}
             kept == {p \in DOMAIN t : ~\E q \in unmarked : IsStrictPrefix(q, p)}
             new(p) == IF p \in unmarked
                         THEN [data |-> Digest(Reference(t, p)), cached_reference |-> Reference(t, p)]
                         ELSE Node(t[p].data)
  <1>1. Prune(t, refs) = [p \in kept |-> new(p)]
    BY DEF Prune
  <1>2. PICK u : u = [p \in kept |-> new(p)]
    OBVIOUS
  <1>3. /\ u = [p \in DOMAIN u |-> u[p]]
        /\ DOMAIN u = kept
        /\ \A p \in kept : u[p] = new(p)
    BY <1>2
  <1>4. \A p \in unmarked : p \in DOMAIN t /\ Reference(t, p) \notin refs
    OBVIOUS
  <1>5. \A p : p \in kept <=> p \in DOMAIN t /\ \A q \in unmarked : ~IsStrictPrefix(q, p)
    OBVIOUS
  <1>6. \A p : /\ p \in unmarked => /\ new(p).data = Digest(Reference(t, p))
                                    /\ new(p).cached_reference = Reference(t, p)
               /\ p \notin unmarked => /\ new(p).data = t[p].data
                                       /\ new(p).cached_reference = NoReference
    BY NodeIs
  <1> HIDE DEF unmarked, kept, new
  <1>7. ASSUME NEW p \in kept, p \in unmarked
        PROVE  /\ u[p].data = Digest(Reference(t, p)) /\ u[p].cached_reference = Reference(t, p)
               /\ Kind(u, p) = "Digest"
    <2>1. u[p].data = Digest(Reference(t, p)) /\ u[p].cached_reference = Reference(t, p)
      BY <1>7, <1>3, <1>6, Zenon
    <2> QED
      BY <2>1 DEF Kind, Digest
  <1>8. ASSUME NEW p \in kept, p \notin unmarked
        PROVE  /\ u[p].data = t[p].data /\ u[p].cached_reference = NoReference
               /\ Kind(u, p) = Kind(t, p) /\ End(u, p) = End(t, p)
    <2>1. u[p].data = t[p].data /\ u[p].cached_reference = NoReference
      BY <1>8, <1>3, <1>6, Zenon
    <2> QED
      BY <2>1 DEF Kind, End
  <1>9. Cut(t, u, unmarked)
    BY <1>3, <1>4, <1>5, <1>7, <1>8 DEF Cut
  <1>10. \A p \in DOMAIN u : /\ p \in unmarked => /\ u[p].data = Digest(Reference(t, p))
                                                  /\ u[p].cached_reference = Reference(t, p)
                             /\ p \notin unmarked => u[p].cached_reference = NoReference
    BY <1>3, <1>7, <1>8
  <1>11. u = Prune(t, refs)
    BY <1>1, <1>2
  <1> QED
    BY <1>4, <1>9, <1>10, <1>11, Zenon

(* Pruning leaves a good trie, whatever was touched. *)
LEMMA PruneGood ==
  ASSUME NEW t, NEW map, Good(t, map), NEW refs
  PROVE  Good(Prune(t, refs), map)
  BY PruneIs, CutGood

(* The keys whose way was touched lose nothing. *)
LEMMA PruneSure ==
  ASSUME NEW t, NEW map, Good(t, map), NEW refs, NEW k \in Keys, Sure(t, map, k), GetTouched(t, k) \subseteq refs
  PROVE  Sure(Prune(t, refs), map, k)
  <1>1. PICK cut : Cut(t, Prune(t, refs), cut) /\ \A p \in cut : Reference(t, p) \notin refs
    BY PruneIs
  <1>2. ASSUME NEW p \in cut, IsPrefix(p, k)
        PROVE  FALSE
    <2>1. p \in DOMAIN t
      BY <1>1 DEF Cut
    <2>2. Kind(t, p) # "Digest" /\ t # Null
      BY <2>1, <1>2 DEF Sure, Open, Null
    <2>3. p \in {q \in Path(t, k) : Kind(t, q) # "Digest"}
      BY <2>1, <2>2, <1>2 DEF Path
    <2>4. Reference(t, p) \in GetTouched(t, k)
      BY <2>2, <2>3, Zenon DEF GetTouched
    <2> QED
      BY <2>4, <1>1
  <1> QED
    BY <1>1, <1>2, CutSure

-----------------------------------------------------------------------------
(* Where two paths part. *)
LEMMA LcpIs ==
  ASSUME NEW a \in Positions, NEW b \in Positions
  PROVE  /\ lcp(a, b) \in 0..Len(a)
         /\ lcp(a, b) <= Len(b)
         /\ SubSeq(a, 1, lcp(a, b)) = SubSeq(b, 1, lcp(a, b))
         /\ lcp(a, b) < Len(a) /\ lcp(a, b) < Len(b) => a[lcp(a, b) + 1] # b[lcp(a, b) + 1]
  <1> DEFINE Common(n) == n <= Len(b) /\ SubSeq(a, 1, n) = SubSeq(b, 1, n)
             Is(n) == Common(n) /\ (n < Len(a) /\ n < Len(b) => a[n + 1] # b[n + 1])
  <1>1. Len(a) \in Nat /\ Len(b) \in Nat
    BY Lengths
  <1>2. PICK S \in SUBSET Positions : S = {s \in Positions : IsPrefix(s, a) /\ IsPrefix(s, b)}
    OBVIOUS
  <1>3. S # {} /\ \A s \in S : Len(s) <= Len(a)
    BY <1>2, EmptyPosition, PrefixEmpty, PrefixLength
  <1>4. PICK s \in S : \A q \in S : Len(q) <= Len(s)
    BY <1>1, <1>3, LongestOne
  <1>5. PICK n \in 0..Len(a) : n = Len(s)
    BY <1>1, <1>3, <1>4, Lengths
  <1>6. s \in Positions /\ IsPrefix(s, a) /\ IsPrefix(s, b) /\ Len(s) <= Len(b)
    BY <1>2, <1>4, PrefixLength
  <1>7. Common(n)
    BY <1>5, <1>6, StemOfPrefix
  <1>8. ASSUME n < Len(a), n < Len(b), a[n + 1] = b[n + 1]
        PROVE  FALSE
    <2>0. Len(s) < Len(a) /\ Len(s) < Len(b) /\ a[Len(s) + 1] = b[Len(s) + 1]
      BY <1>5, <1>8
    <2>1. PICK c \in Positions : c = Append(s, a[Len(s) + 1]) /\ IsPrefix(c, a) /\ Len(c) = Len(s) + 1
      <3>1. PICK c \in Positions : c = SubSeq(a, 1, Len(s) + 1)
        BY <1>6, <2>0, NextStem, Zenon
      <3> QED
        BY <1>6, <2>0, <3>1, NextStem, Zenon
    <2>2. IsPrefix(c, b)
      <3>1. c = Append(s, b[Len(s) + 1])
        BY <2>0, <2>1, Zenon
      <3> QED
        BY <1>6, <2>0, <3>1, NextStem, Zenon
    <2>3. c \in S
      BY <1>2, <2>1, <2>2
    <2>4. Len(c) <= Len(s)
      BY <2>3, <1>4, Zenon
    <2>5. Len(c) = Len(s) + 1 /\ Len(s) \in Nat
      BY <2>1, <1>6, Lengths, Zenon
    <2> QED
      BY <2>4, <2>5
  <1>9. \E m \in 0..Len(a) : Is(m)
    BY <1>7, <1>8
  <1>10. lcp(a, b) = CHOOSE m \in 0..Len(a) : Is(m)
    BY Zenon DEF lcp
  <1> HIDE DEF Is
  <1>11. lcp(a, b) \in 0..Len(a) /\ Is(lcp(a, b))
    BY <1>9, <1>10, Zenon
  <1> QED
    BY <1>11 DEF Is

-----------------------------------------------------------------------------
(* What is kept keeps its shape. *)
LEMMA KeptShape ==
  ASSUME NEW t, NEW u, IsTrie(t), DOMAIN u \subseteq Positions, NEW q \in Positions,
         Kept(t, u, q), Shape(t, q)
  PROVE  q \in DOMAIN u /\ Shape(u, q)
  <1>1. q \in DOMAIN t /\ DOMAIN t \subseteq Positions
    BY DEF Kept, IsTrie
  <1>2. \A x \in Positions : IsPrefix(q, x) => (x \in DOMAIN u <=> x \in DOMAIN t) /\ (x \in DOMAIN t => u[x] = t[x])
    BY DEF Kept
  <1>3. q \in DOMAIN u /\ u[q] = t[q] /\ Kind(u, q) = Kind(t, q) /\ End(u, q) = End(t, q)
    BY <1>1, <1>2, PrefixSelf DEF Kind, End
  <1>4. \A x \in Positions : IsStrictPrefix(q, x) => (x \in DOMAIN u <=> x \in DOMAIN t)
    BY <1>2 DEF IsStrictPrefix
  <1>5. Kind(t, q) = "Branch" => Forked(u, q) /\ Joined(u, q)
    <2>1. ASSUME NEW i \in Nibbles
          PROVE  Append(q, i) \in DOMAIN t => Append(q, i) \in DOMAIN u
      <3>1. PICK c \in Positions : c = Append(q, i) /\ IsPrefix(q, c)
        BY AppendIs, Zenon
      <3> QED
        BY <3>1, <1>2, Zenon
    <2>2. Forked(t, q) => Forked(u, q)
      BY <2>1 DEF Forked, Children
    <2>3. Joined(t, q) => Joined(u, q)
      <3>1. SUFFICES ASSUME Joined(t, q), NEW x \in DOMAIN u, IsStrictPrefix(q, x)
                     PROVE  SubSeq(x, 1, Len(q) + 1) \in DOMAIN u
        BY DEF Joined
      <3>2. x \in Positions /\ x \in DOMAIN t
        BY <3>1, <1>4
      <3>3. IsPrefix(q, x) /\ Len(q) < Len(x)
        BY <3>1, <3>2, StrictIs
      <3>4. PICK c \in Positions : c = SubSeq(x, 1, Len(q) + 1) /\ IsPrefix(q, c)
        BY <3>2, <3>3, NextStem, Zenon
      <3>5. c \in DOMAIN t
        BY <3>1, <3>2, <3>4, Zenon DEF Joined
      <3> QED
        BY <3>4, <3>5, <1>2, Zenon
    <2> QED
      BY <2>2, <2>3 DEF Shape
  <1>6. Kind(t, q) = "Extension" => Leads(u, q, End(u, q)) /\ Kind(u, End(u, q)) \in {"Branch", "Digest"}
    <2>1. SUFFICES ASSUME Kind(t, q) = "Extension"
                   PROVE  Leads(u, q, End(u, q)) /\ Kind(u, End(u, q)) \in {"Branch", "Digest"}
      OBVIOUS
    <2>2. PICK c \in Positions : c = End(t, q)
      BY <2>1, <1>1, KindIs
    <2>3. Leads(t, q, c) /\ Kind(t, c) \in {"Branch", "Digest"}
      BY <2>1, <2>2 DEF Shape
    <2>4. c \in DOMAIN u /\ u[c] = t[c] /\ IsStrictPrefix(q, c)
      BY <2>3, <1>2 DEF Leads, IsStrictPrefix
    <2>5. Leads(u, q, c)
      BY <2>3, <2>4, <1>4 DEF Leads
    <2> QED
      BY <2>2, <2>3, <2>4, <2>5, <1>3 DEF Kind
  <1>7. Kind(t, q) \in {"Leaf", "Digest"} => Ends(u, q)
    BY <1>4 DEF Shape, Ends
  <1> QED
    BY <1>3, <1>5, <1>6, <1>7 DEF Shape

(* What two steps keep is kept. *)
LEMMA KeptTwice ==
  ASSUME NEW t, NEW u, NEW w, NEW q \in Positions, Kept(t, u, q), Kept(u, w, q)
  PROVE  Kept(t, w, q)
  BY DEF Kept

(* What a change passes on its way back loses its reference and nothing else. *)
LEMMA InvalidatedGood ==
  ASSUME NEW t, NEW u, NEW map, Good(u, map), NEW key \in Positions, DOMAIN t \subseteq Positions,
         \A q \in DOMAIN u : \/ IsPrefix(q, key)
                             \/ u[q].cached_reference = NoReference
                             \/ Kept(t, u, q)
  PROVE  /\ Good(Invalidated(u, key), map)
         /\ \A k : Sure(u, map, k) => Sure(Invalidated(u, key), map, k)
         /\ SameForm(u, Invalidated(u, key))
         /\ CachesFrom(t, Invalidated(u, key))
  <1>1. PICK w : w = Invalidated(u, key)
    OBVIOUS
  <1>2. /\ w = [p \in DOMAIN w |-> w[p]]
        /\ DOMAIN w = DOMAIN u
        /\ \A p \in DOMAIN u : /\ IsPrefix(p, key) => w[p] = Node(u[p].data)
                               /\ ~IsPrefix(p, key) => w[p] = u[p]
    BY <1>1 DEF Invalidated
  <1>3. SameForm(u, w)
    BY <1>2, NodeIs DEF SameForm
  <1>4. /\ Good(w, map)
        /\ \A k : Sure(u, map, k) => Sure(w, map, k)
    BY <1>2, <1>3, SameFormGood
  <1>5. DOMAIN u \subseteq Positions
    BY DEF Good, IsTrie
  <1>6. ASSUME NEW q \in DOMAIN w
        PROVE  w[q].cached_reference = NoReference \/ Kept(t, w, q)
    <2>1. CASE IsPrefix(q, key)
      BY <2>1, <1>2, NodeIs
    <2>2. CASE ~IsPrefix(q, key) /\ u[q].cached_reference = NoReference
      BY <2>2, <1>2
    <2>3. CASE ~IsPrefix(q, key) /\ Kept(t, u, q)
      <3>1. \A x \in Positions : IsPrefix(q, x) => ~IsPrefix(x, key)
        BY <2>3, <1>2, <1>5, PrefixTrans
      <3>2. \A x \in Positions : IsPrefix(q, x) => (x \in DOMAIN w <=> x \in DOMAIN u) /\ (x \in DOMAIN u => w[x] = u[x])
        BY <3>1, <1>2
      <3> QED
        BY <3>2, <2>3 DEF Kept
    <2> QED
      BY <2>1, <2>2, <2>3, <1>2
  <1>7. CachesFrom(t, w)
    BY <1>6 DEF CachesFrom
  <1> QED
    BY <1>1, <1>3, <1>4, <1>7

-----------------------------------------------------------------------------
(* u is t with one node put in a place or taken away. *)
IsPut(t, u, p, d) ==
  /\ u = [q \in DOMAIN u |-> u[q]]
  /\ DOMAIN u = DOMAIN t \union {p}
  /\ u[p].data = d /\ u[p].cached_reference = NoReference
  /\ \A q \in DOMAIN t : q # p => u[q] = t[q]

IsWithout(t, u, p) ==
  /\ u = [q \in DOMAIN u |-> u[q]]
  /\ DOMAIN u = DOMAIN t \ {p}
  /\ \A q \in DOMAIN t : q # p => u[q] = t[q]

(* Put and Without, as facts about their results. *)
LEMMA PutDone == \A t, p, d : IsPut(t, Put(t, p, d), p, d)
  BY DEF IsPut, Put, Node

(* The same for Without. *)
LEMMA WithoutDone == \A t, p : IsWithout(t, Without(t, p), p)
  BY WithoutIs, Zenon DEF IsWithout

(* insert.  A branch at p may still lack a second child. *)
Almost(t, p, map) ==
  /\ IsTrie(t)
  /\ Rooted(t)
  /\ Bounded(t)
  /\ LeavesIn(t, map)
  /\ p \in DOMAIN t
  /\ Kind(t, p) = "Branch"
  /\ Joined(t, p)
  /\ \E i \in Nibbles : Append(p, i) \in DOMAIN t
  /\ \A q \in DOMAIN t : q # p => Shape(t, q)

(* map with another value at key. *)
UpdatedTo(map, new, key, value) ==
  new[key] = value /\ \A k \in Keys : k # key => new[k] = map[k]

(* What an insert that changes t does to it; what is not on the way of the key has lost its reference or is kept. *)
Inserted(t, u, new, key) ==
  /\ Good(u, new)
  /\ HasLeaf(u, key)
  /\ \A k \in Keys : HasLeaf(t, k) => HasLeaf(u, k)
  /\ DigestsKept(t, u)
  /\ \A q \in DOMAIN u : \/ IsPrefix(q, key)
                         \/ u[q].cached_reference = NoReference
                         \/ Kept(t, u, q)

(* The data of a leaf. *)
LEMMA LeafIs ==
  ASSUME NEW nibs, NEW value
  PROVE  /\ Leaf(nibs, value).kind = "Leaf"
         /\ Leaf(nibs, value).nibs = nibs
         /\ Leaf(nibs, value).value = value
         /\ nibs \in Positions /\ value # NoValue => IsData(Leaf(nibs, value))
  BY DEF Leaf, IsData

(* The data of an extension. *)
LEMMA ExtensionIs ==
  ASSUME NEW nibs
  PROVE  /\ Extension(nibs).kind = "Extension"
         /\ Extension(nibs).nibs = nibs
         /\ nibs \in Positions => IsData(Extension(nibs))
  BY DEF Extension, IsData

(* The data of a branch. *)
LEMMA BranchIs == Branch.kind = "Branch" /\ IsData(Branch)
  BY DEF Branch, IsData

(***************************************************************************)
(* The new leaf of a key below a branch that has no child for it yet makes *)
(* the trie one of the updated map.                                        *)
(***************************************************************************)
LEMMA AddLeaf ==
  ASSUME NEW t, NEW map, NEW new, NEW p, Almost(t, p, map),
         NEW key \in Keys, NEW value, value # NoValue, UpdatedTo(map, new, key, value),
         IsPrefix(p, key), Len(p) < Len(key),
         NEW fresh, fresh = SubSeq(key, 1, Len(p) + 1),
         \A q \in DOMAIN t : ~IsPrefix(fresh, q),
         NEW u, u = Put(t, fresh, Leaf(Drop(key, Len(p) + 1), value))
  PROVE  Inserted(t, u, new, key)
  <1>1. /\ key \in Positions /\ Len(key) = KeyLength /\ KeyLength \in Nat
        /\ p \in DOMAIN t /\ DOMAIN t \subseteq Positions /\ p \in Positions
    BY KeysLength DEF Almost, IsTrie
  <1>2. /\ fresh \in Positions /\ Len(fresh) = Len(p) + 1 /\ IsPrefix(p, fresh) /\ IsPrefix(fresh, key)
        /\ fresh = Append(p, key[Len(p) + 1]) /\ key[Len(p) + 1] \in Nibbles
    BY <1>1, NextStem, Zenon
  <1>3. fresh \notin DOMAIN t
    BY <1>2, PrefixSelf
  <1>4. PICK rest \in Positions : rest = Drop(key, Len(p) + 1) /\ fresh \o rest = key
    <2>1. Drop(key, Len(fresh)) = Drop(key, Len(p) + 1)
      BY ONLY <1>2, Zenon
    <2>2. PICK rest \in Positions : rest = Drop(key, Len(fresh)) /\ fresh \o rest = key
      BY <1>1, <1>2, PrefixRest, Zenon
    <2> QED
      BY ONLY <2>1, <2>2, Zenon
  <1>5. /\ u = [q \in DOMAIN u |-> u[q]]
        /\ DOMAIN u = DOMAIN t \union {fresh}
        /\ u[fresh].data = Leaf(rest, value)
        /\ \A q \in DOMAIN t : u[q] = t[q]
    <2>1. PICK d : d = Leaf(rest, value)
      OBVIOUS
    <2>2. IsPut(t, u, fresh, d)
      BY <1>4, <2>1, PutDone, Zenon
    <2> QED
      BY <2>1, <2>2, <1>3 DEF IsPut
  <1>6. u[fresh].data = Leaf(rest, value)
    BY <1>5
  <1>7. Kind(u, fresh) = "Leaf" /\ End(u, fresh) = key /\ u[fresh].data.value = value /\ IsData(u[fresh].data)
    <2>1. Kind(u, fresh) = "Leaf" /\ u[fresh].data.value = value /\ u[fresh].data.nibs = rest
      BY <1>6, LeafIs DEF Kind
    <2>2. IsData(u[fresh].data)
      BY <1>4, <1>6, LeafIs
    <2>3. End(u, fresh) = key
      BY <1>4, <2>1, Zenon DEF End
    <2> QED
      BY <2>1, <2>2, <2>3
  <1>8. \A q \in DOMAIN t : Kind(u, q) = Kind(t, q) /\ End(u, q) = End(t, q)
    BY <1>5 DEF Kind, End
  <1>9. IsTrie(u)
    BY <1>1, <1>2, <1>5, <1>7 DEF Almost, IsTrie
  <1>10. Rooted(u) /\ Bounded(u)
    <2>1. Rooted(u)
      BY <1>1, <1>5 DEF Almost, Rooted
    <2>2. Len(fresh) <= KeyLength
      BY <1>1, <1>2, Lengths
    <2>3. Bounded(u)
      BY <1>5, <2>2 DEF Almost, Bounded
    <2> QED
      BY <2>1, <2>3
  <1>11. ASSUME NEW q \in DOMAIN t, IsStrictPrefix(q, fresh)
         PROVE  IsPrefix(q, p)
    <2>1. q \in Positions /\ IsPrefix(q, fresh) /\ Len(q) < Len(fresh)
      BY <1>1, <1>2, <1>11, StrictIs
    <2>2. Len(q) <= Len(p)
      BY <2>1, <1>1, <1>2, Lengths
    <2> QED
      BY <2>1, <2>2, <1>1, <1>2, PrefixesOfOne
  <1>12. ASSUME NEW q \in DOMAIN t, IsPrefix(q, key), Kind(t, q) # "Branch"
         PROVE  Kind(t, q) = "Extension" /\ IsStrictPrefix(q, p)
    <2>1. q \in Positions /\ q # p
      BY <1>1, <1>12 DEF Almost
    <2>2. Len(q) <= Len(p)
      <3>1. SUFFICES ASSUME ~(Len(q) <= Len(p))
                     PROVE  FALSE
        OBVIOUS
      <3>2. Len(fresh) <= Len(q)
        BY <3>1, <2>1, <1>1, <1>2, Lengths
      <3>3. IsPrefix(fresh, q)
        BY <3>2, <2>1, <1>2, <1>1, <1>12, PrefixesOfOne
      <3> QED
        BY <3>3
    <2>3. IsPrefix(q, p)
      BY <2>1, <2>2, <1>1, <1>12, PrefixesOfOne
    <2>4. IsStrictPrefix(q, p)
      BY <2>1, <2>3 DEF IsStrictPrefix
    <2>5. Shape(t, q) /\ ~Ends(t, q)
      BY <2>1, <2>4, <1>1 DEF Almost, Ends
    <2>6. Kind(t, q) \in {"Branch", "Leaf", "Extension", "Digest"}
      BY KindIs DEF Almost
    <2> QED
      BY <2>4, <2>5, <2>6, <1>12 DEF Shape
  <1>13. ASSUME NEW q \in DOMAIN t
         PROVE  Shape(u, q)
    <2>1. q \in Positions /\ q \in DOMAIN u
      BY <1>1, <1>5
    <2>2. \A x \in DOMAIN u : x \in DOMAIN t \/ x = fresh
      BY <1>5
    <2>3. CASE Kind(t, q) = "Branch"
      <3>1. Joined(t, q)
        BY <2>3 DEF Almost, Shape
      <3>2. ASSUME NEW x \in DOMAIN u, IsStrictPrefix(q, x)
            PROVE  SubSeq(x, 1, Len(q) + 1) \in DOMAIN u
        <4>1. CASE x \in DOMAIN t
          BY <3>1, <3>2, <4>1, <1>5 DEF Joined
        <4>2. CASE x = fresh /\ q = p
          <5>1. SubSeq(fresh, 1, Len(p) + 1) = fresh
            BY <1>2, PrefixSelf, StemOfPrefix
          <5> QED
            BY <4>2, <5>1, <1>5
        <4>3. CASE x = fresh /\ q # p
          <5>1. IsPrefix(q, p) /\ IsStrictPrefix(q, p)
            BY <4>3, <3>2, <1>11 DEF IsStrictPrefix
          <5>2. SubSeq(p, 1, Len(q) + 1) \in DOMAIN t
            BY <5>1, <3>1, <1>1 DEF Joined
          <5>3. Len(q) + 1 \in 0..Len(p)
            BY <5>1, <2>1, <1>1, StrictIs, Lengths
          <5>4. SubSeq(fresh, 1, Len(q) + 1) = SubSeq(p, 1, Len(q) + 1)
            BY <5>3, <1>1, <1>2, StemThrough, Zenon
          <5> QED
            BY <5>2, <5>4, <4>3, <1>5
        <4> QED
          BY <4>1, <4>2, <4>3, <2>2
      <3>3. Joined(u, q)
        BY <3>2 DEF Joined
      <3>4. Forked(u, q)
        <4>1. CASE q # p
          BY <4>1, <2>3, <1>5 DEF Almost, Shape, Forked, Children
        <4>2. CASE q = p
          <5>1. PICK i \in Nibbles : Append(p, i) \in DOMAIN t
            BY DEF Almost
          <5>2. PICK j \in Nibbles : fresh = Append(p, j)
            BY <1>2
          <5>3. i # j
            BY <5>1, <5>2, <1>3
          <5>4. i \in Children(u, p) /\ j \in Children(u, p)
            BY <5>1, <5>2, <1>5 DEF Children
          <5> QED
            BY <5>3, <5>4, <4>2 DEF Forked
        <4> QED
          BY <4>1, <4>2
      <3> QED
        BY <2>3, <3>3, <3>4, <1>8 DEF Shape
    <2>4. CASE Kind(t, q) = "Extension"
      <3>1. q # p /\ Shape(t, q)
        BY <2>4 DEF Almost
      <3>2. PICK c \in DOMAIN t : c = End(t, q) /\ Leads(t, q, c) /\ Kind(t, c) \in {"Branch", "Digest"}
        BY <2>4, <3>1 DEF Shape, Leads
      <3>3. ASSUME NEW x \in DOMAIN u, IsStrictPrefix(q, x)
            PROVE  IsPrefix(c, x)
        <4>1. CASE x \in DOMAIN t
          BY <3>2, <3>3, <4>1 DEF Leads
        <4>2. CASE x = fresh
          <5>1. IsStrictPrefix(q, p)
            BY <4>2, <3>3, <3>1, <1>11 DEF IsStrictPrefix
          <5>2. IsPrefix(c, p)
            BY <5>1, <3>2, <1>1 DEF Leads
          <5> QED
            BY <5>2, <4>2, <1>1, <1>2, PrefixTrans
        <4> QED
          BY <4>1, <4>2, <2>2
      <3>4. Leads(u, q, c)
        BY <3>2, <3>3, <1>5 DEF Leads
      <3> QED
        BY <2>4, <3>2, <3>4, <1>8 DEF Shape
    <2>5. CASE Kind(t, q) \in {"Leaf", "Digest"}
      <3>1. q # p /\ Ends(t, q)
        BY <2>5 DEF Almost, Shape
      <3>2. ~IsStrictPrefix(q, fresh)
        <4>1. SUFFICES ASSUME IsStrictPrefix(q, fresh)
                       PROVE  FALSE
          OBVIOUS
        <4>2. IsStrictPrefix(q, p)
          BY <4>1, <3>1, <1>11 DEF IsStrictPrefix
        <4> QED
          BY <4>2, <3>1, <1>1 DEF Ends
      <3>3. Ends(u, q)
        BY <3>1, <3>2, <2>2 DEF Ends
      <3> QED
        BY <2>5, <3>3, <1>8 DEF Shape
    <2>6. Kind(t, q) \in {"Branch", "Leaf", "Extension", "Digest"}
      BY KindIs DEF Almost
    <2> QED
      BY <2>3, <2>4, <2>5, <2>6
  <1>14. Shape(u, fresh)
    <2>1. ASSUME NEW x \in DOMAIN u, IsStrictPrefix(fresh, x)
          PROVE  FALSE
      <3>1. x \in DOMAIN t
        BY <2>1, <1>5, <1>2 DEF IsStrictPrefix
      <3> QED
        BY <3>1, <2>1 DEF IsStrictPrefix
    <2>2. Ends(u, fresh)
      BY <2>1 DEF Ends
    <2> QED
      BY <2>2, <1>7 DEF Shape
  <1>15. LeavesIn(u, new)
    <2>1. ASSUME NEW q \in DOMAIN t, Kind(t, q) = "Leaf"
          PROVE  End(t, q) \in Keys /\ new[End(t, q)] = t[q].data.value
      <3>1. End(t, q) \in Keys /\ map[End(t, q)] = t[q].data.value
        BY <2>1 DEF Almost, LeavesIn
      <3>2. IsPrefix(q, End(t, q))
        BY <2>1, KindIs DEF Almost
      <3>3. End(t, q) # key
        BY <2>1, <3>2, <1>12
      <3> QED
        BY <3>1, <3>3 DEF UpdatedTo
    <2>2. End(u, fresh) \in Keys /\ new[End(u, fresh)] = u[fresh].data.value
      BY <1>7 DEF UpdatedTo
    <2>3. ASSUME NEW q \in DOMAIN u, Kind(u, q) = "Leaf", q # fresh
          PROVE  End(u, q) \in Keys /\ new[End(u, q)] = u[q].data.value
      <3>1. q \in DOMAIN t /\ Kind(t, q) = "Leaf" /\ End(u, q) = End(t, q) /\ u[q] = t[q]
        BY <2>3, <1>5, <1>8
      <3> QED
        BY <3>1, <2>1
    <2> QED
      BY <2>2, <2>3 DEF LeavesIn
  <1>16. Good(u, new)
    BY <1>5, <1>9, <1>10, <1>13, <1>14, <1>15 DEF Good
  <1>17. HasLeaf(u, key) /\ \A k \in Keys : HasLeaf(t, k) => HasLeaf(u, k)
    BY <1>5, <1>7, <1>8 DEF HasLeaf
  <1>18. DigestsKept(t, u)
    BY <1>5, <1>7, <1>8 DEF DigestsKept
  <1>19. ASSUME NEW q \in DOMAIN u
         PROVE  IsPrefix(q, key) \/ Kept(t, u, q)
    <2>1. CASE q = fresh
      BY <2>1, <1>2
    <2>2. CASE q \in DOMAIN t /\ ~IsPrefix(q, key)
      <3>1. ~IsPrefix(q, fresh)
        BY <2>2, <1>1, <1>2, PrefixTrans
      <3> QED
        BY <2>2, <3>1, <1>5 DEF Kept
    <2> QED
      BY <2>1, <2>2, <1>5
  <1> QED
    BY <1>16, <1>17, <1>18, <1>19 DEF Inserted

(* The branch that Split makes, before it gets the leaf. *)
Parted(t, s, p, at, moved) ==
  /\ at \in Positions /\ moved \in Positions
  /\ IsPrefix(p, at) /\ IsPrefix(at, moved) /\ Len(moved) = Len(at) + 1
  /\ IsPrefix(moved, End(t, p))
  /\ s = [q \in DOMAIN s |-> s[q]]
  /\ DOMAIN s = DOMAIN t \union {at, moved}
  /\ s[at].data = Branch
  /\ at # p => IsData(s[p].data) /\ Kind(s, p) = "Extension" /\ End(s, p) = at
  /\ IF Kind(t, p) = "Extension" /\ moved = End(t, p)
       THEN s[moved] = t[moved]
       ELSE /\ IsData(s[moved].data)
            /\ s[moved].cached_reference = NoReference
            /\ Kind(s, moved) = Kind(t, p)
            /\ End(s, moved) = End(t, p)
            /\ Kind(t, p) = "Leaf" => s[moved].data.value = t[p].data.value
  /\ \A q \in DOMAIN t : q \notin {p, at, moved} => s[q] = t[q]

(***************************************************************************)
(* Between the parting of the old path and the new leaf the trie is good   *)
(* but for the one branch with a single child.                             *)
(***************************************************************************)
LEMMA PartedAlmost ==
  ASSUME NEW t, NEW map, Good(t, map), NEW p \in DOMAIN t, Kind(t, p) \in {"Leaf", "Extension"},
         NEW s, NEW at, NEW moved, Parted(t, s, p, at, moved)
  PROVE  /\ Almost(s, at, map)
         /\ \A k \in Keys : HasLeaf(t, k) => HasLeaf(s, k)
         /\ DigestsKept(t, s)
         /\ \A q \in DOMAIN s : \/ IsPrefix(q, at)
                                \/ s[q].cached_reference = NoReference
                                \/ Kept(t, s, q)
         /\ \A q \in DOMAIN s : IsStrictPrefix(at, q) => IsPrefix(moved, q)
  <1>0. IsTrie(t) /\ DOMAIN t \subseteq Positions /\ p \in Positions
    BY DEF Good, IsTrie
  <1>1. PICK e \in Positions : e = End(t, p) /\ IsPrefix(p, e)
    BY <1>0, KindIs
  <1>2. /\ at \in Positions /\ moved \in Positions
        /\ IsPrefix(p, at) /\ IsPrefix(at, moved) /\ Len(moved) = Len(at) + 1
        /\ IsPrefix(moved, e)
        /\ s = [q \in DOMAIN s |-> s[q]]
        /\ DOMAIN s = DOMAIN t \union {at, moved}
        /\ s[at].data = Branch
        /\ at # p => IsData(s[p].data) /\ Kind(s, p) = "Extension" /\ End(s, p) = at
        /\ Kind(t, p) = "Extension" /\ moved = e => s[moved] = t[moved]
        /\ Kind(t, p) = "Leaf" \/ moved # e =>
             /\ IsData(s[moved].data)
             /\ s[moved].cached_reference = NoReference
             /\ Kind(s, moved) = Kind(t, p)
             /\ End(s, moved) = e
             /\ Kind(t, p) = "Leaf" => s[moved].data.value = t[p].data.value
        /\ \A q \in DOMAIN t : q \notin {p, at, moved} => s[q] = t[q]
    BY <1>1 DEF Parted
  <1>3. /\ Len(p) \in Nat /\ Len(at) \in Nat /\ Len(moved) \in Nat /\ Len(e) \in Nat
        /\ Len(p) <= Len(at) /\ Len(moved) <= Len(e)
    BY <1>0, <1>1, <1>2, Lengths, PrefixLength
  <1>4. IsPrefix(p, moved) /\ IsPrefix(at, e) /\ IsStrictPrefix(p, moved) /\ IsStrictPrefix(at, e) /\ IsStrictPrefix(p, e)
    <2>1. IsPrefix(p, moved) /\ IsPrefix(at, e)
      BY <1>0, <1>1, <1>2, PrefixTrans
    <2>2. Len(p) < Len(moved) /\ Len(at) < Len(e) /\ Len(p) < Len(e)
      BY <1>2, <1>3
    <2> QED
      BY <2>1, <2>2, <1>0, <1>1, <1>2, StrictIs
  (* What is below p in t. *)
  <1>5. ASSUME NEW q \in DOMAIN t, IsStrictPrefix(p, q)
        PROVE  Kind(t, p) = "Extension" /\ e \in DOMAIN t /\ IsPrefix(e, q) /\ IsPrefix(moved, q) /\ IsPrefix(at, q)
    <2>1. Kind(t, p) = "Extension" /\ Leads(t, p, e)
      BY <1>1, <1>5 DEF Good, Shape, Ends
    <2>2. e \in DOMAIN t /\ IsPrefix(e, q)
      BY <2>1, <1>5 DEF Leads
    <2> QED
      BY <2>1, <2>2, <1>0, <1>1, <1>2, <1>4, PrefixTrans
  <1>6. at \in DOMAIN t => at = p
    <2>1. SUFFICES ASSUME at \in DOMAIN t, at # p
                   PROVE  FALSE
      OBVIOUS
    <2>2. IsStrictPrefix(p, at)
      BY <2>1, <1>2 DEF IsStrictPrefix
    <2>3. IsPrefix(moved, at)
      BY <2>1, <2>2, <1>5
    <2> QED
      BY <2>3, <1>2, <1>3, PrefixLength
  <1>7. moved \in DOMAIN t => Kind(t, p) = "Extension" /\ moved = e
    <2>1. SUFFICES ASSUME moved \in DOMAIN t
                   PROVE  Kind(t, p) = "Extension" /\ moved = e
      OBVIOUS
    <2>2. Kind(t, p) = "Extension" /\ IsPrefix(e, moved)
      BY <2>1, <1>4, <1>5
    <2> QED
      BY <2>2, <1>1, <1>2, <1>3, PrefixSame
  <1>8. \A q \in DOMAIN t : q # p => q # at /\ s[q] = t[q] /\ Kind(s, q) = Kind(t, q) /\ End(s, q) = End(t, q)
    <2>1. ASSUME NEW q \in DOMAIN t, q # p
          PROVE  q # at /\ s[q] = t[q]
      <3>1. q # at
        BY <2>1, <1>6
      <3>2. q = moved => s[q] = t[q]
        BY <1>2, <1>7
      <3>3. q # moved => s[q] = t[q]
        BY <2>1, <3>1, <1>2
      <3> QED
        BY <3>1, <3>2, <3>3
    <2>2. \A q : s[q] = t[q] => Kind(s, q) = Kind(t, q) /\ End(s, q) = End(t, q)
      BY DEF Kind, End
    <2> QED
      BY <2>1, <2>2
  <1>9. Kind(s, at) = "Branch" /\ IsData(s[at].data)
    BY <1>2, BranchIs DEF Kind
  (* A node that is above at or moved is above p, or is p or at. *)
  <1>10. ASSUME NEW q \in DOMAIN t, q # p, IsStrictPrefix(q, moved)
         PROVE  IsStrictPrefix(q, p)
    <2>1. q \in Positions /\ IsPrefix(q, moved) /\ Len(q) < Len(moved)
      BY <1>0, <1>2, <1>10, StrictIs
    <2>2. CASE Len(q) <= Len(p)
      BY <2>1, <2>2, <1>0, <1>2, <1>4, <1>10, PrefixesOfOne DEF IsStrictPrefix
    <2>3. CASE Len(p) <= Len(q)
      <3>1. IsPrefix(p, q)
        BY <2>1, <2>3, <1>0, <1>2, <1>4, PrefixesOfOne
      <3>2. IsPrefix(moved, q)
        BY <3>1, <1>5, <1>10 DEF IsStrictPrefix
      <3> QED
        BY <2>1, <3>2, <1>2, <1>3, PrefixLength, Lengths
    <2> QED
      BY <2>1, <2>2, <2>3, <1>3, Lengths
  <1>11. ASSUME NEW q \in DOMAIN t, q # p, IsStrictPrefix(q, at)
         PROVE  IsStrictPrefix(q, p)
    <2>1. IsStrictPrefix(q, moved)
      <3>1. IsPrefix(q, at) /\ Len(q) < Len(at) /\ q \in Positions
        BY <1>0, <1>2, <1>11, StrictIs
      <3>2. IsPrefix(q, moved) /\ Len(q) < Len(moved)
        BY <3>1, <1>2, <1>3, PrefixTrans, Lengths
      <3> QED
        BY <3>1, <3>2, <1>2, StrictIs
    <2> QED
      BY <2>1, <1>10, <1>11
  <1>12. \A q \in DOMAIN s : q \in DOMAIN t \/ q = at \/ q = moved
    BY <1>2
  <1>13. IsTrie(s)
    <2>1. ASSUME NEW q \in DOMAIN s
          PROVE  IsData(s[q].data)
      <3>1. CASE q = at
        BY <3>1, <1>9
      <3>2. CASE q = p /\ p # at
        BY <3>2, <1>2
      <3>3. CASE q = moved /\ q \notin DOMAIN t
        <4>1. Kind(t, p) = "Leaf" \/ moved # e
          <5>1. SUFFICES ASSUME Kind(t, p) = "Extension", moved = e
                         PROVE  FALSE
            OBVIOUS
          <5>2. e \in DOMAIN t
            BY <5>1, <1>1 DEF Good, Shape, Leads
          <5> QED
            BY <5>1, <5>2, <3>3
        <4> QED
          BY <4>1, <3>3, <1>2
      <3>4. CASE q \in DOMAIN t /\ q # p
        BY <3>4, <1>0, <1>8 DEF IsTrie
      <3> QED
        BY <3>1, <3>2, <3>3, <3>4, <1>12
    <2> QED
      BY <2>1, <1>0, <1>2 DEF IsTrie
  <1>14. Rooted(s) /\ Bounded(s)
    <2>1. Len(e) <= KeyLength
      <3>1. CASE Kind(t, p) = "Leaf"
        <4>1. e \in Keys
          BY <3>1, <1>1 DEF Good, LeavesIn
        <4> QED
          BY <4>1, KeysLength
      <3>2. CASE Kind(t, p) = "Extension"
        <4>1. e \in DOMAIN t
          BY <3>2, <1>1 DEF Good, Shape, Leads
        <4> QED
          BY <4>1 DEF Good, Bounded
      <3> QED
        BY <3>1, <3>2
    <2>2. Len(at) <= KeyLength /\ Len(moved) <= KeyLength
      BY <2>1, <1>2, <1>3, KeysLength
    <2>3. Bounded(s)
      BY <2>2, <1>12 DEF Good, Bounded
    <2>4. Rooted(s)
      BY <1>2 DEF Good, Rooted
    <2> QED
      BY <2>3, <2>4
  <1>15. LeavesIn(s, map)
    <2>1. ASSUME NEW q \in DOMAIN s, Kind(s, q) = "Leaf"
          PROVE  End(s, q) \in Keys /\ map[End(s, q)] = s[q].data.value
      <3>1. CASE q = moved /\ q \notin DOMAIN t
        <4>1. Kind(t, p) = "Leaf" \/ moved # e
          <5>1. SUFFICES ASSUME Kind(t, p) = "Extension", moved = e
                         PROVE  FALSE
            OBVIOUS
          <5>2. e \in DOMAIN t
            BY <5>1, <1>1 DEF Good, Shape, Leads
          <5> QED
            BY <5>1, <5>2, <3>1
        <4>2. Kind(t, p) = "Leaf" /\ End(s, q) = e /\ s[q].data.value = t[p].data.value
          BY <4>1, <3>1, <2>1, <1>2
        <4> QED
          BY <4>2, <1>1 DEF Good, LeavesIn
      <3>2. CASE q \in DOMAIN t /\ q # p
        BY <2>1, <3>2, <1>8 DEF Good, LeavesIn
      <3>3. q # at /\ q # p
        BY <2>1, <1>2, <1>9
      <3> QED
        BY <3>1, <3>2, <3>3, <1>12
    <2> QED
      BY <2>1 DEF LeavesIn
  (* The nodes that were there. *)
  <1>16. ASSUME NEW q \in DOMAIN t, q # p
         PROVE  Shape(s, q)
    <2>0. Shape(t, q) /\ q \in Positions
      BY <1>0 DEF Good
    <2>1. CASE Kind(t, q) = "Branch"
      <3>1. Joined(t, q) /\ Forked(t, q)
        BY <2>0, <2>1 DEF Shape
      <3>2. ASSUME IsStrictPrefix(q, p), NEW x \in Positions, IsPrefix(p, x)
            PROVE  SubSeq(x, 1, Len(q) + 1) \in DOMAIN t
        <4>1. SubSeq(p, 1, Len(q) + 1) \in DOMAIN t
          BY <3>1, <3>2 DEF Joined
        <4>2. Len(q) + 1 \in 0..Len(p)
          BY <3>2, <2>0, <1>0, <1>3, StrictIs, Lengths
        <4>3. SubSeq(x, 1, Len(q) + 1) = SubSeq(p, 1, Len(q) + 1)
          BY <4>2, <3>2, <1>0, StemThrough, Zenon
        <4> QED
          BY <4>1, <4>3
      <3>3. ASSUME NEW x \in DOMAIN s, IsStrictPrefix(q, x)
            PROVE  SubSeq(x, 1, Len(q) + 1) \in DOMAIN s
        <4>1. CASE x \in DOMAIN t
          BY <4>1, <3>1, <3>3, <1>2 DEF Joined
        <4>2. CASE x = at
          BY <4>2, <3>2, <3>3, <1>2, <1>11, <1>16
        <4>3. CASE x = moved
          BY <4>3, <3>2, <3>3, <1>2, <1>4, <1>10, <1>16
        <4> QED
          BY <4>1, <4>2, <4>3, <1>12
      <3>4. Joined(s, q)
        BY <3>3 DEF Joined
      <3>5. Forked(s, q)
        BY <3>1, <1>2 DEF Forked, Children
      <3> QED
        BY <2>1, <3>4, <3>5, <1>8, <1>16 DEF Shape
    <2>2. CASE Kind(t, q) = "Extension"
      <3>1. PICK c \in DOMAIN t : c = End(t, q) /\ Leads(t, q, c) /\ Kind(t, c) \in {"Branch", "Digest"}
        BY <2>0, <2>2 DEF Shape, Leads
      <3>2. c # p /\ Kind(s, c) = Kind(t, c)
        BY <3>1, <1>8
      <3>3. ASSUME IsStrictPrefix(q, p)
            PROVE  IsPrefix(c, at) /\ IsPrefix(c, moved)
        <4>1. IsPrefix(c, p)
          BY <3>1, <3>3 DEF Leads
        <4> QED
          BY <4>1, <1>0, <1>2, <1>4, PrefixTrans
      <3>4. ASSUME NEW x \in DOMAIN s, IsStrictPrefix(q, x)
            PROVE  IsPrefix(c, x)
        <4>1. CASE x \in DOMAIN t
          BY <4>1, <3>1, <3>4 DEF Leads
        <4>2. CASE x = at
          BY <4>2, <3>3, <3>4, <1>11, <1>16
        <4>3. CASE x = moved
          BY <4>3, <3>3, <3>4, <1>10, <1>16
        <4> QED
          BY <4>1, <4>2, <4>3, <1>12
      <3>5. Leads(s, q, c)
        BY <3>1, <3>4, <1>2 DEF Leads
      <3> QED
        BY <2>2, <3>1, <3>2, <3>5, <1>8, <1>16 DEF Shape
    <2>3. CASE Kind(t, q) \in {"Leaf", "Digest"}
      <3>1. Ends(t, q) /\ ~IsStrictPrefix(q, p)
        BY <2>0, <2>3 DEF Shape, Ends
      <3>2. Ends(s, q)
        BY <3>1, <1>10, <1>11, <1>12, <1>16 DEF Ends
      <3> QED
        BY <2>3, <3>2, <1>8, <1>16 DEF Shape
    <2> QED
      BY <2>1, <2>2, <2>3, <1>0, KindIs
  (* p itself, when it becomes an extension. *)
  <1>17. ASSUME at # p
         PROVE  Shape(s, p)
    <2>1. IsStrictPrefix(p, at) /\ Kind(s, p) = "Extension" /\ End(s, p) = at
      BY <1>2, <1>17 DEF IsStrictPrefix
    <2>2. ASSUME NEW x \in DOMAIN s, IsStrictPrefix(p, x)
          PROVE  IsPrefix(at, x)
      BY <2>2, <1>2, <1>5, <1>12, PrefixSelf
    <2>3. Leads(s, p, at)
      BY <2>1, <2>2, <1>2 DEF Leads
    <2> QED
      BY <2>1, <2>3, <1>9 DEF Shape
  (* What was at p and has moved. *)
  <1>18. ASSUME moved \notin DOMAIN t
         PROVE  Shape(s, moved) /\ s[moved].cached_reference = NoReference /\ Kind(s, moved) = Kind(t, p)
    <2>1. Kind(t, p) = "Leaf" \/ moved # e
      <3>1. SUFFICES ASSUME Kind(t, p) = "Extension", moved = e
                     PROVE  FALSE
        OBVIOUS
      <3>2. e \in DOMAIN t
        BY <3>1, <1>1 DEF Good, Shape, Leads
      <3> QED
        BY <3>1, <3>2, <1>18
    <2>2. Kind(s, moved) = Kind(t, p) /\ End(s, moved) = e /\ s[moved].cached_reference = NoReference
      BY <2>1, <1>2
    <2>3. ASSUME NEW x \in DOMAIN s, IsStrictPrefix(moved, x)
          PROVE  x \in DOMAIN t /\ IsStrictPrefix(p, x)
      <3>1. x \in Positions /\ IsPrefix(moved, x) /\ Len(moved) < Len(x)
        BY <2>3, <1>0, <1>2, StrictIs
      <3>2. x # at /\ x # moved
        BY <3>1, <1>2, <1>3
      <3>3. IsPrefix(p, x) /\ Len(p) < Len(x)
        BY <3>1, <1>0, <1>2, <1>3, <1>4, PrefixTrans, Lengths
      <3> QED
        BY <3>1, <3>2, <3>3, <1>0, <1>12, StrictIs
    <2>4. CASE Kind(t, p) = "Leaf"
      <3>1. Ends(s, moved)
        BY <2>3, <2>4, <1>5 DEF Ends
      <3> QED
        BY <2>2, <2>4, <3>1 DEF Shape
    <2>5. CASE Kind(t, p) = "Extension"
      <3>1. e \in DOMAIN t /\ Kind(t, e) \in {"Branch", "Digest"} /\ moved # e /\ e # p
        BY <2>1, <2>5, <1>1 DEF Good, Shape, Leads
      <3>2. IsStrictPrefix(moved, e)
        BY <3>1, <1>2 DEF IsStrictPrefix
      <3>3. Leads(s, moved, e)
        BY <3>1, <3>2, <2>3, <1>2, <1>5 DEF Leads
      <3>4. Kind(s, e) \in {"Branch", "Digest"}
        BY <3>1, <1>8
      <3> QED
        BY <2>2, <2>5, <3>3, <3>4 DEF Shape
    <2> QED
      BY <2>2, <2>4, <2>5
  <1>19. \A q \in DOMAIN s : q # at => Shape(s, q)
    BY <1>12, <1>16, <1>17, <1>18
  <1>20. ASSUME NEW q \in DOMAIN s, IsStrictPrefix(at, q)
         PROVE  IsPrefix(moved, q)
    <2>1. q \in Positions /\ IsPrefix(at, q) /\ Len(at) < Len(q) /\ q # at
      BY <1>0, <1>2, <1>20, StrictIs
    <2>2. IsStrictPrefix(p, q)
      <3>1. IsPrefix(p, q) /\ Len(p) < Len(q)
        BY <2>1, <1>0, <1>2, <1>3, PrefixTrans, Lengths
      <3> QED
        BY <2>1, <3>1, <1>0, StrictIs
    <2> QED
      BY <2>1, <2>2, <1>2, <1>5, <1>12, PrefixSelf
  <1>21. PICK i \in Nibbles : moved = Append(at, i)
    <2>1. IsPrefix(at, moved) /\ Len(at) < Len(moved)
      BY <1>2, <1>3
    <2>2. SubSeq(moved, 1, Len(at) + 1) = moved
      BY <1>2, PrefixSelf, StemOfPrefix
    <2> QED
      BY <2>1, <2>2, <1>2, NextStem
  <1>22. Joined(s, at)
    <2>1. ASSUME NEW q \in DOMAIN s, IsStrictPrefix(at, q)
          PROVE  SubSeq(q, 1, Len(at) + 1) = moved
      <3>1. q \in Positions /\ IsPrefix(moved, q)
        BY <2>1, <1>0, <1>2, <1>20
      <3> QED
        BY <3>1, <1>2, StemOfPrefix
    <2> QED
      BY <2>1, <1>2 DEF Joined
  <1>23. Almost(s, at, map)
    BY <1>2, <1>9, <1>13, <1>14, <1>15, <1>19, <1>21, <1>22 DEF Almost
  <1>24. \A k \in Keys : HasLeaf(t, k) => HasLeaf(s, k)
    <2>1. ASSUME NEW q \in DOMAIN t, Kind(t, q) = "Leaf"
          PROVE  \E x \in DOMAIN s : Kind(s, x) = "Leaf" /\ End(s, x) = End(t, q)
      <3>1. CASE q # p
        BY <2>1, <3>1, <1>2, <1>8
      <3>2. CASE q = p
        BY <2>1, <3>2, <1>1, <1>2
      <3> QED
        BY <3>1, <3>2
    <2> QED
      BY <2>1 DEF HasLeaf
  <1>25. DigestsKept(t, s)
    <2>1. SUFFICES ASSUME NEW q \in DOMAIN s, Kind(s, q) = "Digest"
                   PROVE  q \in DOMAIN t /\ Kind(t, q) = "Digest" /\ s[q].data = t[q].data
      BY <1>2, <1>8 DEF DigestsKept
    <2>2. CASE q \in DOMAIN t /\ q # p
      BY <2>1, <2>2, <1>8
    <2>3. CASE q = at \/ q = p
      BY <2>1, <2>3, <1>2, <1>9
    <2>4. CASE q = moved /\ q \notin DOMAIN t
      BY <2>1, <2>4, <1>18
    <2> QED
      BY <2>2, <2>3, <2>4, <1>12
  <1>26. ASSUME NEW q \in DOMAIN s
         PROVE  IsPrefix(q, at) \/ s[q].cached_reference = NoReference \/ Kept(t, s, q)
    <2>1. CASE q = moved /\ q \notin DOMAIN t
      BY <2>1, <1>18
    <2>2. CASE q \in DOMAIN t /\ ~IsPrefix(q, at)
      <3>1. q \in Positions /\ ~IsPrefix(q, p)
        BY <2>2, <1>0, <1>2, PrefixTrans
      <3>2. ASSUME NEW x \in Positions, IsPrefix(q, x)
            PROVE  (x \in DOMAIN s <=> x \in DOMAIN t) /\ (x \in DOMAIN t => s[x] = t[x])
        <4>1. x # p /\ x # at
          BY <3>1, <3>2, <2>2
        <4>2. CASE x = moved
          <5>1. q = moved
            <6>1. CASE Len(q) <= Len(at)
              <7>1. IsPrefix(q, at)
                BY <6>1, <4>2, <3>1, <3>2, <1>2, PrefixesOfOne
              <7> QED
                BY <7>1, <2>2
            <6>2. CASE Len(moved) <= Len(q)
              BY <6>2, <4>2, <3>1, <3>2, <1>2, PrefixSame
            <6> QED
              BY <6>1, <6>2, <3>1, <1>2, <1>3, Lengths
          <5> QED
            BY <5>1, <4>1, <4>2, <2>2, <1>2, <1>8
        <4>3. CASE x # moved
          BY <4>1, <4>3, <1>2, <1>8
        <4> QED
          BY <4>2, <4>3
      <3> QED
        BY <2>2, <3>2 DEF Kept
    <2>3. CASE q = at
      BY <2>3, <1>2, PrefixSelf
    <2> QED
      BY <2>1, <2>2, <2>3, <1>12
  <1> QED
    BY <1>20, <1>23, <1>24, <1>25, <1>26

(* c is a concatenation, and what its places hold. *)
IsConcat(c, p, s) == c \in Positions /\ c = p \o s

Places(c, p, s) ==
  /\ c \in Positions
  /\ Len(c) = Len(p) + Len(s)
  /\ \A i \in 1..Len(p) : c[i] = p[i]
  /\ \A i \in 1..Len(s) : c[Len(p) + i] = s[i]

(* A concatenation has a name, nibble by nibble. *)
LEMMA ConcatPlaces ==
  ASSUME NEW p \in Positions, NEW s \in Positions
  PROVE  \E c : IsConcat(c, p, s) /\ Places(c, p, s)
  <1>1. Places(p \o s, p, s)
    BY ConcatIs, Zenon DEF Places
  <1> QED
    BY <1>1, ConcatIs, Zenon DEF IsConcat

(* The positions of a split. *)
Parting(p, nibs, rest, n, at, moved) ==
  /\ at \in Positions /\ moved \in Positions
  /\ IsPrefix(p, at) /\ Len(at) = Len(p) + n
  /\ IsPrefix(at, moved) /\ Len(moved) = Len(at) + 1
  /\ IsPrefix(moved, p \o nibs)
  /\ IsPrefix(at, p \o rest) /\ Len(at) < Len(p \o rest)
  /\ ~IsPrefix(moved, p \o rest)
  /\ Drop(nibs, n + 1) \in Positions
  /\ moved \o Drop(nibs, n + 1) = p \o nibs
  /\ Drop(nibs, n + 1) = << >> <=> moved = p \o nibs

(* Where the path of a key and that of a node part, nibble by nibble. *)
LEMMA PartingIs ==
  ASSUME NEW p \in Positions, NEW nibs \in Positions, NEW rest \in Positions, NEW n \in Nat,
         n < Len(nibs), n < Len(rest), SubSeq(nibs, 1, n) = SubSeq(rest, 1, n),
         nibs[n + 1] # rest[n + 1]
  PROVE  LET at == p \o SubSeq(nibs, 1, n)
         IN  Parting(p, nibs, rest, n, at, Append(at, nibs[n + 1]))
  <1>1. Len(p) \in Nat /\ Len(nibs) \in Nat /\ Len(rest) \in Nat
    BY Lengths
  <1>2. PICK a \in Positions : /\ a = SubSeq(nibs, 1, n) /\ Len(a) = n
                               /\ \A i \in 1..n : a[i] = nibs[i]
    BY <1>1, StemIs, n \in 0..Len(nibs)
  <1>3. \A i \in 1..n : a[i] = rest[i]
    <2>1. n \in 0..Len(rest) /\ a = SubSeq(rest, 1, n)
      BY <1>1, <1>2
    <2> QED
      BY <2>1, StemIs, Zenon
  <1>4. PICK at : IsConcat(at, p, a) /\ Places(at, p, a)
    BY ConcatPlaces
  <1>4a. /\ at \in Positions /\ Len(at) = Len(p) + n
         /\ \A i \in 1..Len(p) : at[i] = p[i]
         /\ \A i \in 1..n : at[Len(p) + i] = a[i]
    BY <1>2, <1>4 DEF Places
  <1>5. PICK j \in Nibbles : j = nibs[n + 1]
    BY <1>1 DEF Positions
  <1>6. PICK moved \in Positions : /\ moved = Append(at, j) /\ Len(moved) = Len(at) + 1
                                   /\ IsPrefix(at, moved) /\ moved[Len(at) + 1] = j
    BY <1>4a, AppendIs, Zenon
  <1>6a. Len(at) \in Nat /\ Len(moved) \in Nat /\ Len(moved) = Len(p) + n + 1 /\ Len(at) < Len(p) + Len(nibs)
           /\ Len(at) < Len(p) + Len(rest)
    <2>1. Len(moved) = Len(at) + 1 /\ Len(at) = Len(p) + n
      BY <1>4a, <1>6
    <2> QED
      BY <2>1, <1>1
  <1>7. PICK e : IsConcat(e, p, nibs) /\ Places(e, p, nibs)
    BY ConcatPlaces
  <1>7a. /\ e \in Positions /\ Len(e) = Len(p) + Len(nibs)
         /\ \A i \in 1..Len(p) : e[i] = p[i]
         /\ \A i \in 1..Len(nibs) : e[Len(p) + i] = nibs[i]
    BY <1>7 DEF Places
  <1>8. PICK key : IsConcat(key, p, rest) /\ Places(key, p, rest)
    BY ConcatPlaces
  <1>8a. /\ key \in Positions /\ Len(key) = Len(p) + Len(rest)
         /\ \A i \in 1..Len(p) : key[i] = p[i]
         /\ \A i \in 1..Len(rest) : key[Len(p) + i] = rest[i]
    BY <1>8 DEF Places
  <1>9. IsPrefix(p, at)
    BY <1>1, <1>4a, PrefixIs, SMTT(30)
  <1>10. \A i \in 1..Len(at) : at[i] = e[i] /\ at[i] = key[i]
    <2>1. ASSUME NEW i \in 1..Len(at)
          PROVE  at[i] = e[i] /\ at[i] = key[i]
      <3>1. CASE i \in 1..Len(p)
        BY <3>1, <1>4a, <1>7a, <1>8a
      <3>2. CASE i \notin 1..Len(p)
        <4>1. PICK k \in 1..n : i = Len(p) + k
          <5>1. i - Len(p) \in 1..n /\ i = Len(p) + (i - Len(p))
            BY <3>2, <1>1, <1>4a
          <5> QED
            BY <5>1
        <4>2. k \in 1..Len(nibs) /\ k \in 1..Len(rest)
          BY <1>1
        <4>3. at[i] = a[k] /\ e[i] = nibs[k] /\ key[i] = rest[k]
          BY <4>1, <4>2, <1>4a, <1>7a, <1>8a
        <4> QED
          BY <4>3, <1>2, <1>3
      <3> QED
        BY <3>1, <3>2
    <2> QED
      BY <2>1
  <1>11. IsPrefix(at, key) /\ Len(at) < Len(key)
    <2>1. Len(at) < Len(key) /\ Len(at) <= Len(key)
      BY <1>1, <1>6a, <1>8a
    <2> QED
      BY <2>1, <1>4a, <1>8a, <1>10, PrefixIs
  <1>12. e[Len(at) + 1] = j /\ key[Len(at) + 1] # j
    <2>1. Len(at) + 1 = Len(p) + (n + 1) /\ n + 1 \in 1..Len(nibs) /\ n + 1 \in 1..Len(rest)
      BY <1>1, <1>4a
    <2> QED
      BY <2>1, <1>5, <1>7a, <1>8a
  <1>13. IsPrefix(moved, e)
    <2>1. IsPrefix(at, e) /\ Len(at) < Len(e)
      <3>1. Len(at) < Len(e) /\ Len(at) <= Len(e)
        BY <1>1, <1>6a, <1>7a
      <3> QED
        BY <3>1, <1>4a, <1>7a, <1>10, PrefixIs
    <2>2. moved = Append(at, e[Len(at) + 1])
      BY <1>6, <1>12
    <2>3. moved = SubSeq(e, 1, Len(at) + 1)
      BY <2>1, <2>2, <1>4a, <1>7a, NextStem, Zenon
    <2> QED
      BY <2>1, <2>3, <1>4a, <1>7a, NextStem, Zenon
  <1>14. ~IsPrefix(moved, key)
    <2>1. SUFFICES ASSUME IsPrefix(moved, key)
                   PROVE  FALSE
      OBVIOUS
    <2>2. key[Len(at) + 1] = j
      <3>1. Len(at) + 1 \in 1..Len(moved) /\ moved[Len(at) + 1] = j
        BY <1>6, <1>6a
      <3> QED
        BY <2>1, <3>1, <1>8a, PrefixIs
    <2> QED
      BY <2>2, <1>12
  <1>15. PICK r \in Positions : /\ r = Drop(nibs, n + 1) /\ Len(r) = Len(nibs) - (n + 1)
                                /\ \A i \in 1..(Len(nibs) - (n + 1)) : r[i] = nibs[n + 1 + i]
    BY <1>1, DropIs, n + 1 \in 0..Len(nibs)
  <1>16. moved \o r = e
    <2>1. PICK d \in Positions : d = Drop(e, Len(moved)) /\ Len(d) = Len(e) - Len(moved) /\ moved \o d = e
      BY <1>7a, <1>13, PrefixRest, Zenon
    <2>2. Len(moved) = Len(p) + n + 1 /\ Len(moved) \in 0..Len(e)
      BY <1>1, <1>6a, <1>7a
    <2>3. \A i \in 1..(Len(e) - Len(moved)) : d[i] = e[Len(moved) + i]
      BY <2>1, <2>2, <1>7a, DropIs, Zenon
    <2>4. Len(d) = Len(r)
      <3>1. Len(d) = Len(e) - Len(moved) /\ Len(r) = Len(nibs) - (n + 1)
        BY <2>1, <1>15
      <3> QED
        BY <3>1, <1>1, <1>6a, <1>7a
    <2>5. ASSUME NEW i \in 1..Len(d)
          PROVE  d[i] = r[i]
      <3>1. i \in 1..(Len(nibs) - (n + 1)) /\ i \in 1..(Len(e) - Len(moved))
        BY <2>1, <2>4, <1>15
      <3>2. n + 1 + i \in 1..Len(nibs) /\ Len(moved) + i = Len(p) + (n + 1 + i)
        BY <2>2, <3>1, <1>1
      <3>3. d[i] = e[Len(p) + (n + 1 + i)]
        BY <2>3, <3>1, <3>2
      <3> QED
        BY <3>1, <3>2, <3>3, <1>7a, <1>15
    <2>6. d = r
      BY <2>4, <2>5, SameSequence
    <2> QED
      BY <2>1, <2>6
  <1>17. r = << >> <=> moved = e
    <2>1. Len(e) = Len(moved) + Len(r) /\ Len(moved) \in Nat
      <3>1. Len(r) = Len(nibs) - (n + 1)
        BY <1>15
      <3> QED
        BY <3>1, <1>1, <1>6a, <1>7a
    <2>2. r = << >> <=> Len(r) = 0
      BY EmptyPosition, SameSequence
    <2>3. Len(r) = 0 => moved = e
      BY <2>1, <1>7a, <1>13, PrefixSame
    <2>4. moved = e => Len(r) = 0
      BY <2>1, <1>15, <1>1
    <2> QED
      BY <2>2, <2>3, <2>4
  <1>18. Parting(p, nibs, rest, n, at, moved)
    <2>1. /\ IsPrefix(moved, p \o nibs)
          /\ IsPrefix(at, p \o rest) /\ Len(at) < Len(p \o rest)
          /\ ~IsPrefix(moved, p \o rest)
      BY <1>7, <1>8, <1>11, <1>13, <1>14, Zenon DEF IsConcat
    <2>2. /\ Drop(nibs, n + 1) \in Positions
          /\ moved \o Drop(nibs, n + 1) = p \o nibs
          /\ Drop(nibs, n + 1) = << >> <=> moved = p \o nibs
      BY <1>7, <1>15, <1>16, <1>17, Zenon DEF IsConcat
    <2> QED
      BY <1>4a, <1>6, <1>9, <2>1, <2>2, Zenon DEF Parting
  <1> QED
    BY <1>2, <1>4, <1>5, <1>6, <1>18, Zenon DEF IsConcat

SplitSteps(t, p, key, value, n, at, moved, tail, parted, above, s) ==
  /\ at = p \o SubSeq(t[p].data.nibs, 1, n)
  /\ moved = Append(at, t[p].data.nibs[n + 1])
  /\ tail = Drop(t[p].data.nibs, n + 1)
  /\ parted = CASE t[p].data.kind = "Leaf" -> Put(t, moved, Leaf(tail, t[p].data.value))
                [] t[p].data.kind = "Extension" /\ tail # << >> -> Put(t, moved, Extension(tail))
                [] OTHER -> t
  /\ above = IF n > 0 THEN Put(parted, p, Extension(SubSeq(t[p].data.nibs, 1, n))) ELSE parted
  /\ s = Put(above, at, Branch)
  /\ Split(t, p, key, value) = Put(s, SubSeq(key, 1, Len(at) + 1), Leaf(Drop(key, Len(at) + 1), value))

(* Split, one Put after the other. *)
LEMMA SplitIs ==
  ASSUME NEW t, NEW p, NEW key, NEW value, NEW n, n = lcp(t[p].data.nibs, Drop(key, Len(p)))
  PROVE  \E at, moved, tail, parted, above, s :
           SplitSteps(t, p, key, value, n, at, moved, tail, parted, above, s)
  <1> DEFINE at     == p \o SubSeq(t[p].data.nibs, 1, n)
             moved  == Append(at, t[p].data.nibs[n + 1])
             tail   == Drop(t[p].data.nibs, n + 1)
             parted == CASE t[p].data.kind = "Leaf" -> Put(t, moved, Leaf(tail, t[p].data.value))
                         [] t[p].data.kind = "Extension" /\ tail # << >> -> Put(t, moved, Extension(tail))
                         [] OTHER -> t
             above  == IF n > 0 THEN Put(parted, p, Extension(SubSeq(t[p].data.nibs, 1, n))) ELSE parted
             s      == Put(above, at, Branch)
  <1>1. SplitSteps(t, p, key, value, n, at, moved, tail, parted, above, s)
    BY Zenon DEF SplitSteps, Split
  <1> HIDE DEF at, moved, tail, parted, above, s
  <1> QED
    BY <1>1, Zenon

(* What Split does before it adds the new leaf is to part the old path. *)
LEMMA SplitParts ==
  ASSUME NEW t, NEW map, Good(t, map), NEW p \in DOMAIN t, Kind(t, p) \in {"Leaf", "Extension"},
         NEW key, NEW value, NEW rest, NEW n \in Nat,
         NEW at, NEW moved, NEW tail, NEW parted, NEW above, NEW s,
         SplitSteps(t, p, key, value, n, at, moved, tail, parted, above, s),
         Parting(p, t[p].data.nibs, rest, n, at, moved)
  PROVE  Parted(t, s, p, at, moved)
  <1>0. p \in Positions /\ IsTrie(t) /\ DOMAIN t \subseteq Positions /\ t[p].data.nibs \in Positions /\ IsData(t[p].data)
    BY KindIs DEF Good, IsTrie
  <1>1. PICK nibs \in Positions : nibs = t[p].data.nibs
    BY <1>0
  <1>2. PICK a : a = SubSeq(nibs, 1, n)
    OBVIOUS
  <1>3. PICK e \in Positions : e = End(t, p)
    BY <1>0, KindIs
  <1>4. /\ at \in Positions /\ moved \in Positions
        /\ IsPrefix(p, at) /\ Len(at) = Len(p) + n
        /\ IsPrefix(at, moved) /\ Len(moved) = Len(at) + 1
        /\ IsPrefix(moved, e)
        /\ tail \in Positions
        /\ moved \o tail = e
        /\ tail = << >> <=> moved = e
    <2>1. e = p \o nibs /\ tail = Drop(nibs, n + 1)
      BY <1>1, <1>3, Zenon DEF End, SplitSteps
    <2> QED
      BY <2>1, <1>1, Zenon DEF Parting
  <1>5. Len(p) \in Nat /\ Len(at) \in Nat /\ Len(moved) \in Nat /\ moved # p /\ moved # at /\ (at = p <=> n = 0)
    <2>1. Len(p) \in Nat /\ Len(at) \in Nat /\ Len(moved) \in Nat
      BY <1>0, <1>4, Lengths
    <2>2. Len(at) = Len(p) + n /\ Len(moved) = Len(at) + 1
      BY <1>4
    <2>3. n = 0 => at = p
      BY <2>1, <2>2, <1>0, <1>4, PrefixSame
    <2> QED
      BY <2>1, <2>2, <2>3
  (* What takes the place of the old node. *)
  <1>6. ASSUME Kind(t, p) = "Leaf" \/ moved # e
        PROVE  \E d : /\ IsPut(t, parted, moved, d)
                      /\ IsData(d)
                      /\ d.kind = Kind(t, p)
                      /\ d.nibs = tail
                      /\ Kind(t, p) = "Leaf" => d.value = t[p].data.value
    <2>1. CASE Kind(t, p) = "Leaf"
      <3>1. PICK d : d = Leaf(tail, t[p].data.value)
        OBVIOUS
      <3>2. parted = Put(t, moved, d)
        BY <2>1, <3>1 DEF SplitSteps, Kind
      <3>3. IsPut(t, parted, moved, d)
        BY <3>2, PutDone, Zenon
      <3>4. t[p].data.value # NoValue
        BY <2>1, <1>0, KindIs
      <3>5. IsData(d) /\ d.kind = "Leaf" /\ d.nibs = tail /\ d.value = t[p].data.value
        BY <3>1, <3>4, <1>4, LeafIs
      <3> QED
        BY <3>3, <3>5, <2>1
    <2>2. CASE Kind(t, p) = "Extension"
      <3>1. PICK d : d = Extension(tail)
        OBVIOUS
      <3>2. tail # << >>
        BY <2>2, <1>4, <1>6
      <3>3. parted = Put(t, moved, d)
        BY <2>2, <3>1, <3>2 DEF SplitSteps, Kind
      <3>4. IsPut(t, parted, moved, d)
        BY <3>3, PutDone, Zenon
      <3>5. IsData(d) /\ d.kind = "Extension" /\ d.nibs = tail
        BY <3>1, <1>4, ExtensionIs
      <3> QED
        BY <3>4, <3>5, <2>2
    <2> QED
      BY <2>1, <2>2
  <1>7. ASSUME Kind(t, p) = "Extension", moved = e
        PROVE  parted = t /\ moved \in DOMAIN t
    <2>1. tail = << >>
      BY <1>4, <1>7
    <2>2. parted = t
      BY <2>1, <1>7 DEF SplitSteps, Kind
    <2>3. e \in DOMAIN t
      BY <1>3, <1>7 DEF Good, Shape, Leads
    <2> QED
      BY <2>2, <2>3, <1>7
  <1>8. /\ DOMAIN parted = DOMAIN t \union {moved}
        /\ \A q \in DOMAIN t : q # moved => parted[q] = t[q]
        /\ IF Kind(t, p) = "Extension" /\ moved = e
             THEN parted[moved] = t[moved]
             ELSE /\ IsData(parted[moved].data)
                  /\ parted[moved].cached_reference = NoReference
                  /\ parted[moved].data.kind = Kind(t, p)
                  /\ parted[moved].data.nibs = tail
                  /\ Kind(t, p) = "Leaf" => parted[moved].data.value = t[p].data.value
    <2>1. CASE Kind(t, p) = "Extension" /\ moved = e
      BY <2>1, <1>7
    <2>2. CASE Kind(t, p) = "Leaf" \/ moved # e
      <3>1. PICK d : /\ IsPut(t, parted, moved, d)
                     /\ IsData(d)
                     /\ d.kind = Kind(t, p)
                     /\ d.nibs = tail
                     /\ Kind(t, p) = "Leaf" => d.value = t[p].data.value
        BY <2>2, <1>6
      <3> QED
        BY <2>2, <3>1 DEF IsPut
    <2> QED
      BY <2>1, <2>2
  (* The extension above it. *)
  <1>9. /\ DOMAIN above = DOMAIN parted
        /\ \A q \in DOMAIN parted : q # p => above[q] = parted[q]
        /\ at # p => above[p].data = Extension(a)
    <2>1. CASE n = 0
      <3>1. above = parted
        BY <2>1 DEF SplitSteps
      <3> QED
        BY <2>1, <3>1, <1>5
    <2>2. CASE n > 0
      <3>1. PICK d : d = Extension(a)
        BY SMTT(30)
      <3>2. above = Put(parted, p, d)
        BY <2>2, <3>1, <1>1, <1>2 DEF SplitSteps
      <3>3. IsPut(parted, above, p, d)
        BY <3>2, PutDone, Zenon
      <3> QED
        BY <3>1, <3>3, <1>8 DEF IsPut
    <2> QED
      BY <2>1, <2>2
  <1>10. IsPut(above, s, at, Branch)
    <2>1. s = Put(above, at, Branch)
      BY DEF SplitSteps
    <2> QED
      BY <2>1, PutDone, Zenon
  <1>11. /\ s = [q \in DOMAIN s |-> s[q]]
         /\ DOMAIN s = DOMAIN t \union {at, moved}
         /\ s[at].data = Branch
         /\ \A q \in DOMAIN above : q # at => s[q] = above[q]
    BY <1>8, <1>9, <1>10 DEF IsPut
  <1>12. s[moved] = parted[moved]
    BY <1>5, <1>8, <1>9, <1>11
  <1>13. \A q \in DOMAIN t : q \notin {p, at, moved} => s[q] = t[q]
    BY <1>8, <1>9, <1>11
  <1>14. ASSUME at # p
         PROVE  IsData(s[p].data) /\ Kind(s, p) = "Extension" /\ End(s, p) = at
    <2>1. s[p].data = Extension(a)
      BY <1>8, <1>9, <1>11, <1>14
    <2>2. a \in Positions
      <3>1. n \in 0..Len(nibs)
        <4>1. Len(moved) <= Len(e) /\ Len(e) \in Nat /\ Len(nibs) \in Nat
          BY <1>3, <1>4, PrefixLength, Lengths
        <4>2. Len(e) = Len(p) + Len(nibs)
          BY <1>0, <1>1, <1>3, ConcatIs, Zenon DEF End
        <4>3. Len(moved) = Len(p) + n + 1
          BY <1>4, <1>5
        <4> QED
          BY <4>1, <4>2, <4>3, <1>5
      <3> QED
        BY <3>1, <1>2, StemIs
    <2>3. IsData(s[p].data) /\ Kind(s, p) = "Extension" /\ s[p].data.nibs = a
      BY <2>1, <2>2, ExtensionIs DEF Kind
    <2>4. at = p \o a
      BY <1>1, <1>2, Zenon DEF SplitSteps
    <2> QED
      BY <2>3, <2>4, Zenon DEF End
  <1>15. IF Kind(t, p) = "Extension" /\ moved = End(t, p)
           THEN s[moved] = t[moved]
           ELSE /\ IsData(s[moved].data)
                /\ s[moved].cached_reference = NoReference
                /\ Kind(s, moved) = Kind(t, p)
                /\ End(s, moved) = End(t, p)
                /\ Kind(t, p) = "Leaf" => s[moved].data.value = t[p].data.value
    <2>1. CASE Kind(t, p) = "Extension" /\ moved = e
      BY <2>1, <1>3, <1>8, <1>12
    <2>2. CASE ~(Kind(t, p) = "Extension" /\ moved = e)
      <3>1. s[moved].data.nibs = tail
        BY <2>2, <1>8, <1>12
      <3>2. End(s, moved) = e
        BY <3>1, <1>4, Zenon DEF End
      <3> QED
        BY <2>2, <3>2, <1>3, <1>8, <1>12 DEF Kind
    <2> QED
      BY <2>1, <2>2
  <1>16. IsPrefix(moved, End(t, p))
    BY <1>3, <1>4
  <1> QED
    BY <1>4, <1>11, <1>13, <1>14, <1>15, <1>16 DEF Parted

(* Split inserts the key. *)
LEMMA SplitInserted ==
  ASSUME NEW t, NEW map, NEW new, Good(t, map), NEW key \in Keys, NEW value, value # NoValue,
         UpdatedTo(map, new, key, value), NEW p, DeepestAt(t, key, p),
         Kind(t, p) \in {"Leaf", "Extension"},
         NEW rest, rest = Drop(key, Len(p)), NEW n, n = lcp(t[p].data.nibs, rest),
         n < Len(t[p].data.nibs), n < Len(rest)
  PROVE  Inserted(t, Split(t, p, key, value), new, key)
  <1>0. /\ p \in DOMAIN t /\ p \in Positions /\ IsTrie(t) /\ DOMAIN t \subseteq Positions
        /\ key \in Positions /\ IsPrefix(p, key)
    BY KeysLength DEF Good, IsTrie, DeepestAt
  <1>1. PICK nibs \in Positions : nibs = t[p].data.nibs
    BY <1>0, KindIs
  <1>2. rest \in Positions /\ p \o rest = key
    BY <1>0, PrefixRest, Zenon
  <1>3. /\ n \in 0..Len(nibs) /\ n < Len(nibs) /\ n < Len(rest)
        /\ SubSeq(nibs, 1, n) = SubSeq(rest, 1, n)
        /\ nibs[n + 1] # rest[n + 1]
    <2>1. n = lcp(nibs, rest) /\ n < Len(nibs) /\ n < Len(rest)
      BY <1>1
    <2> QED
      BY <2>1, <1>2, LcpIs, Zenon
  <1>4. n \in Nat
    BY <1>1, <1>3, Lengths
  <1>5. PICK at, moved, tail, parted, above, s :
           SplitSteps(t, p, key, value, n, at, moved, tail, parted, above, s)
    BY SplitIs, Zenon
  <1>6. Parting(p, nibs, rest, n, at, moved)
    <2>1. at = p \o SubSeq(nibs, 1, n) /\ moved = Append(at, nibs[n + 1])
      BY <1>1, <1>5, Zenon DEF SplitSteps
    <2> QED
      BY <2>1, <1>0, <1>2, <1>3, <1>4, PartingIs, Zenon
  <1>7. Parted(t, s, p, at, moved)
    BY <1>0, <1>1, <1>4, <1>5, <1>6, SplitParts, Zenon
  <1>8. /\ at \in Positions /\ moved \in Positions /\ IsPrefix(at, key) /\ Len(at) < Len(key)
        /\ ~IsPrefix(moved, key) /\ IsPrefix(at, moved) /\ Len(moved) = Len(at) + 1
    BY <1>2, <1>6, Zenon DEF Parting
  <1>9. PICK fresh \in Positions : /\ fresh = SubSeq(key, 1, Len(at) + 1) /\ IsPrefix(fresh, key)
                                   /\ Len(fresh) = Len(at) + 1 /\ IsPrefix(at, fresh)
    BY <1>0, <1>8, NextStem, Zenon
  <1>10. PICK u : u = Put(s, fresh, Leaf(Drop(key, Len(at) + 1), value))
    OBVIOUS
  <1>11. u = Split(t, p, key, value)
    BY <1>5, <1>9, <1>10, Zenon DEF SplitSteps
  <1>12. /\ Almost(s, at, map)
         /\ \A k \in Keys : HasLeaf(t, k) => HasLeaf(s, k)
         /\ DigestsKept(t, s)
         /\ \A q \in DOMAIN s : \/ IsPrefix(q, at)
                                \/ s[q].cached_reference = NoReference
                                \/ Kept(t, s, q)
         /\ \A q \in DOMAIN s : IsStrictPrefix(at, q) => IsPrefix(moved, q)
    BY <1>0, <1>7, PartedAlmost
  <1>13. DOMAIN s \subseteq Positions
    BY <1>12 DEF Almost, IsTrie
  <1>14. ASSUME NEW q \in DOMAIN s, IsPrefix(fresh, q)
         PROVE  FALSE
    <2>1. q \in Positions /\ Len(fresh) <= Len(q) /\ Len(at) \in Nat
      BY <1>8, <1>13, <1>14, PrefixLength, Lengths
    <2>2. IsPrefix(at, q) /\ Len(at) < Len(q)
      BY <2>1, <1>8, <1>9, <1>14, PrefixTrans, Lengths
    <2>3. IsPrefix(moved, q)
      BY <2>1, <2>2, <1>8, <1>12, StrictIs
    <2>4. IsPrefix(moved, fresh)
      <3>1. Len(moved) = Len(fresh) /\ Len(fresh) \in Nat
        BY <1>8, <1>9, Lengths, Zenon
      <3>2. Len(moved) <= Len(fresh)
        BY <3>1
      <3>3. moved \in Positions /\ fresh \in Positions
        BY <1>8
      <3> QED
        BY ONLY <2>1, <2>3, <3>2, <3>3, <1>14, PrefixesOfOne
    <2> QED
      BY <2>4, <1>0, <1>8, <1>9, PrefixTrans
  <1>15. Inserted(s, u, new, key)
    BY <1>8, <1>9, <1>10, <1>12, <1>14, AddLeaf
  <1>16. ASSUME NEW q \in DOMAIN u
         PROVE  IsPrefix(q, key) \/ u[q].cached_reference = NoReference \/ Kept(t, u, q)
    <2>1. CASE Kept(s, u, q)
      <3>1. q \in DOMAIN s /\ q \in Positions
        BY <2>1, <1>13 DEF Kept
      <3>2. u[q] = s[q]
        BY <2>1, <3>1, PrefixSelf DEF Kept
      <3>3. IsPrefix(q, at) => IsPrefix(q, key)
        BY <3>1, <1>0, <1>8, PrefixTrans
      <3>4. Kept(t, s, q) => Kept(t, u, q)
        BY <2>1, <3>1, KeptTwice
      <3> QED
        BY <3>1, <3>2, <3>3, <3>4, <1>12
    <2> QED
      BY <2>1, <1>15 DEF Inserted
  <1>17. DigestsKept(t, u)
    BY <1>12, <1>15 DEF Inserted, DigestsKept
  <1>18. Inserted(t, u, new, key)
    BY <1>12, <1>15, <1>16, <1>17 DEF Inserted
  <1> QED
    BY <1>11, <1>18

(* A new value in the leaf of the key. *)
LEMMA OverwriteInserted ==
  ASSUME NEW t, NEW map, NEW new, Good(t, map), NEW key \in Keys, NEW value, value # NoValue,
         UpdatedTo(map, new, key, value), NEW p, DeepestAt(t, key, p),
         Kind(t, p) = "Leaf", End(t, p) = key,
         NEW u, u = Put(t, p, Leaf(Drop(key, Len(p)), value))
  PROVE  Inserted(t, u, new, key)
  <1>0. /\ p \in DOMAIN t /\ p \in Positions /\ IsTrie(t) /\ DOMAIN t \subseteq Positions
        /\ key \in Positions /\ IsPrefix(p, key)
    BY KeysLength DEF Good, IsTrie, DeepestAt
  <1>1. PICK rest \in Positions : rest = Drop(key, Len(p)) /\ p \o rest = key
    BY <1>0, PrefixRest, Zenon
  <1>2. PICK d : d = Leaf(rest, value)
    OBVIOUS
  <1>3. IsPut(t, u, p, d)
    BY <1>1, <1>2, PutDone, Zenon
  <1>4. d.kind = "Leaf" /\ d.nibs = rest /\ d.value = value /\ IsData(d)
    BY <1>2, LeafIs
  <1>5. /\ u = [q \in DOMAIN u |-> u[q]]
        /\ DOMAIN u = DOMAIN t
        /\ u[p].data = d
        /\ \A q \in DOMAIN t : q # p => u[q] = t[q]
    BY <1>0, <1>3 DEF IsPut
  <1>6. Kind(u, p) = "Leaf" /\ End(u, p) = key
    <2>1. Kind(u, p) = "Leaf" /\ u[p].data.nibs = rest
      BY <1>4, <1>5 DEF Kind
    <2> QED
      BY <2>1, <1>1, Zenon DEF End
  <1>7. \A q \in DOMAIN t : Kind(u, q) = Kind(t, q) /\ End(u, q) = End(t, q)
    BY <1>5, <1>6 DEF Kind, End
  <1>8. IsTrie(u)
    BY <1>0, <1>4, <1>5 DEF IsTrie
  <1>9. Rooted(u) /\ Bounded(u)
    BY <1>5 DEF Good, Rooted, Bounded
  <1>10. \A q \in DOMAIN u : Shape(u, q)
    <2>1. ASSUME NEW q \in DOMAIN t
          PROVE  Shape(u, q)
      <3>1. Shape(t, q)
        BY DEF Good
      <3>2. Kind(t, q) = "Branch" => Forked(u, q) /\ Joined(u, q)
        BY <3>1, <1>5 DEF Shape, Forked, Joined, Children
      <3>3. Kind(t, q) = "Extension" => Leads(u, q, End(t, q)) /\ Kind(u, End(t, q)) \in {"Branch", "Digest"}
        BY <3>1, <1>5, <1>7 DEF Shape, Leads
      <3>4. Kind(t, q) \in {"Leaf", "Digest"} => Ends(u, q)
        BY <3>1, <1>5 DEF Shape, Ends
      <3> QED
        BY <3>2, <3>3, <3>4, <1>7 DEF Shape
    <2> QED
      BY <2>1, <1>5
  <1>11. LeavesIn(u, new)
    <2>1. ASSUME NEW q \in DOMAIN t, q # p, Kind(t, q) = "Leaf"
          PROVE  End(t, q) \in Keys /\ new[End(t, q)] = t[q].data.value
      <3>1. End(t, q) \in Keys /\ map[End(t, q)] = t[q].data.value
        BY <2>1 DEF Good, LeavesIn
      <3>2. End(t, q) # key
        <4>1. SUFFICES ASSUME End(t, q) = key
                       PROVE  FALSE
          OBVIOUS
        <4>2. IsPrefix(q, key)
          BY <4>1, <2>1, <1>0, KindIs
        <4>3. IsStrictPrefix(q, p)
          BY <4>2, <2>1 DEF DeepestAt, IsStrictPrefix
        <4> QED
          BY <4>3, <2>1, <1>0 DEF Good, Shape, Ends
      <3> QED
        BY <3>1, <3>2 DEF UpdatedTo
    <2>2. new[End(u, p)] = u[p].data.value /\ End(u, p) \in Keys
      BY <1>4, <1>5, <1>6 DEF UpdatedTo
    <2>3. ASSUME NEW q \in DOMAIN t, q # p, Kind(u, q) = "Leaf"
          PROVE  End(u, q) \in Keys /\ new[End(u, q)] = u[q].data.value
      BY <2>1, <2>3, <1>5, <1>7
    <2> QED
      BY <2>2, <2>3, <1>5 DEF LeavesIn
  <1>12. Good(u, new)
    BY <1>8, <1>9, <1>10, <1>11 DEF Good
  <1>13. HasLeaf(u, key) /\ \A k \in Keys : HasLeaf(t, k) => HasLeaf(u, k)
    BY <1>0, <1>5, <1>6, <1>7 DEF HasLeaf
  <1>14. DigestsKept(t, u)
    BY <1>5, <1>7 DEF DigestsKept
  <1>15. ASSUME NEW q \in DOMAIN u, ~IsPrefix(q, key)
         PROVE  Kept(t, u, q)
    <2>1. q \in DOMAIN t /\ ~IsPrefix(q, p)
      BY <1>0, <1>5, <1>15, PrefixTrans
    <2> QED
      BY <2>1, <1>5 DEF Kept
  <1> QED
    BY <1>12, <1>13, <1>14, <1>15 DEF Inserted

(* insert_internal() where the way of the key ends. *)
InsertAnswer(t, map, new, key, value, answer) ==
  \/ answer.result = "true" /\ Inserted(t, answer.trie, new, key) /\ (HasLeaf(t, key) => map[key] # value)
  \/ answer.result = "false" /\ answer.trie = t /\ map[key] = value /\ HasLeaf(t, key)
  \/ answer.result \notin {"true", "false"} /\ answer.trie = t /\ ~Open(t, key)

(* The three kinds of answers. *)
LEMMA ChangedIs ==
  \A u : Changed(u).result = "true" /\ Changed(u).trie = u
  BY DEF Changed

(* Ok(false). *)
LEMMA SameIs ==
  \A u : Same(u).result = "false" /\ Same(u).trie = u
  BY DEF Same

(* An error. *)
LEMMA FailedIs ==
  \A u : Failed("NodeNotResolved", u).result \notin {"true", "false"} /\ Failed("NodeNotResolved", u).trie = u
  BY DEF Failed

(* insert_internal where the way ends at a branch. *)
LEMMA InsertAtBranch ==
  ASSUME NEW t, NEW map, NEW new, Good(t, map), NEW key \in Keys, NEW value, value # NoValue,
         UpdatedTo(map, new, key, value), NEW p, DeepestAt(t, key, p), Kind(t, p) = "Branch"
  PROVE  InsertAnswer(t, map, new, key, value, InsertInto(t, p, key, value))
  <1>0. /\ p \in DOMAIN t /\ p \in Positions /\ IsTrie(t) /\ DOMAIN t \subseteq Positions
        /\ key \in Positions /\ IsPrefix(p, key) /\ Len(key) = KeyLength /\ KeyLength \in Nat
        /\ Forked(t, p) /\ Joined(t, p)
    BY KeysLength DEF Good, IsTrie, DeepestAt, Shape
  <1>1. PICK i \in Nibbles : Append(p, i) \in DOMAIN t
    BY <1>0 DEF Forked, Children
  <1>2. Len(p) < Len(key)
    <2>1. PICK c \in DOMAIN t : c = Append(p, i)
      BY <1>1
    <2>2. Len(c) = Len(p) + 1
      BY <2>1, <1>0, AppendIs, Zenon
    <2>3. Len(c) <= KeyLength
      BY DEF Good, Bounded
    <2> QED
      BY <2>2, <2>3, <1>0, Lengths
  <1>3. PICK rest \in Positions : rest = Drop(key, Len(p)) /\ Len(rest) = Len(key) - Len(p) /\ p \o rest = key
    BY <1>0, PrefixRest, Zenon
  <1>4. Len(rest) \in Nat /\ Len(rest) > 0 /\ Len(p) \in Nat
    BY <1>0, <1>2, <1>3, Lengths
  <1>5. rest # << >>
    BY <1>4, EmptyPosition
  <1>6. rest[1] = key[Len(p) + 1]
    <2>1. PICK c : IsConcat(c, p, rest) /\ Places(c, p, rest)
      BY <1>0, ConcatPlaces
    <2>2. c = key
      BY <2>1, <1>3, Zenon DEF IsConcat
    <2> QED
      BY <2>1, <2>2, <1>4 DEF Places
  <1>7. Drop(rest, 1) = Drop(key, Len(p) + 1)
    <2>1. PICK a \in Positions : /\ a = Drop(rest, 1) /\ Len(a) = Len(rest) - 1
                                 /\ \A j \in 1..(Len(rest) - 1) : a[j] = rest[1 + j]
      BY <1>4, DropIs, 1 \in 0..Len(rest)
    <2>2. PICK b \in Positions : /\ b = Drop(key, Len(p) + 1) /\ Len(b) = Len(key) - (Len(p) + 1)
                                 /\ \A j \in 1..(Len(key) - (Len(p) + 1)) : b[j] = key[Len(p) + 1 + j]
      BY <1>0, <1>2, <1>4, DropIs, Len(p) + 1 \in 0..Len(key)
    <2>3. \A j \in 1..(Len(key) - Len(p)) : rest[j] = key[Len(p) + j]
      BY <1>0, <1>2, <1>3, <1>4, DropIs, Len(p) \in 0..Len(key)
    <2>4. Len(a) = Len(b)
      <3>1. Len(a) = Len(rest) - 1 /\ Len(b) = Len(key) - (Len(p) + 1) /\ Len(rest) = Len(key) - Len(p)
        BY <2>1, <2>2, <1>3
      <3> QED
        BY <3>1, <1>0, <1>4
    <2>5. ASSUME NEW j \in 1..Len(a)
          PROVE  a[j] = b[j]
      <3>1. Len(a) = Len(rest) - 1 /\ Len(rest) = Len(key) - Len(p)
        BY <2>1, <1>3
      <3>2. /\ j \in 1..(Len(rest) - 1) /\ j \in 1..(Len(key) - (Len(p) + 1)) /\ 1 + j \in 1..(Len(key) - Len(p))
            /\ Len(p) + 1 + j = Len(p) + (1 + j)
        BY <3>1, <1>0, <1>4
      <3>3. a[j] = rest[1 + j] /\ b[j] = key[Len(p) + 1 + j]
        BY <2>1, <2>2, <3>2
      <3>4. rest[1 + j] = key[Len(p) + (1 + j)]
        BY <2>3, <3>2
      <3> QED
        BY <3>2, <3>3, <3>4
    <2>6. a = b
      BY <2>4, <2>5, SameSequence
    <2> QED
      BY <2>1, <2>2, <2>6
  <1>8. PICK fresh \in Positions : /\ fresh = SubSeq(key, 1, Len(p) + 1)
                                   /\ fresh = Append(p, key[Len(p) + 1])
                                   /\ Len(fresh) = Len(p) + 1 /\ IsPrefix(p, fresh) /\ IsPrefix(fresh, key)
    BY <1>0, <1>2, NextStem, Zenon
  <1>9. PICK u : u = Put(t, fresh, Leaf(Drop(key, Len(p) + 1), value))
    OBVIOUS
  <1>10. InsertInto(t, p, key, value) = Changed(u)
    <2>1. InsertInto(t, p, key, value) = Changed(Put(t, Append(p, rest[1]), Leaf(Drop(rest, 1), value)))
      BY <1>3, <1>5 DEF InsertInto
    <2> QED
      BY <2>1, <1>6, <1>7, <1>8, <1>9, Zenon
  <1>11. ASSUME NEW q \in DOMAIN t, IsPrefix(fresh, q)
         PROVE  FALSE
    <2>1. q \in Positions /\ Len(fresh) <= Len(q)
      BY <1>0, <1>11, PrefixLength
    <2>2. IsPrefix(p, q) /\ Len(p) < Len(q)
      BY <2>1, <1>0, <1>4, <1>8, <1>11, PrefixTrans, Lengths
    <2>3. SubSeq(q, 1, Len(p) + 1) \in DOMAIN t
      BY <2>1, <2>2, <1>0, StrictIs DEF Joined
    <2>4. SubSeq(q, 1, Len(p) + 1) = fresh
      <3>1. SubSeq(q, 1, Len(fresh)) = fresh
        BY <2>1, <1>11, StemOfPrefix
      <3> QED
        BY <3>1, <1>8
    <2>5. Len(fresh) <= Len(p)
      BY <2>3, <2>4, <1>8 DEF DeepestAt
    <2> QED
      BY <2>5, <1>4, <1>8
  <1>12. Almost(t, p, map)
    BY <1>0, <1>1 DEF Good, Almost
  <1>13. Inserted(t, u, new, key)
    BY <1>0, <1>2, <1>8, <1>9, <1>11, <1>12, AddLeaf
  <1>14. ~HasLeaf(t, key)
    BY LeafAtEnd
  <1> QED
    BY <1>10, <1>13, <1>14, ChangedIs DEF InsertAnswer

(* A path that is as long as the common part is the common part. *)
LEMMA WholePath ==
  ASSUME NEW a \in Positions
  PROVE  SubSeq(a, 1, Len(a)) = a
  BY PrefixSelf, StemOfPrefix

(* insert_internal where the way ends at a leaf. *)
LEMMA InsertAtALeaf ==
  ASSUME NEW t, NEW map, NEW new, Good(t, map), NEW key \in Keys, NEW value, value # NoValue,
         UpdatedTo(map, new, key, value), NEW p, DeepestAt(t, key, p), Kind(t, p) = "Leaf"
  PROVE  InsertAnswer(t, map, new, key, value, InsertInto(t, p, key, value))
  <1>0. /\ p \in DOMAIN t /\ p \in Positions /\ IsTrie(t) /\ DOMAIN t \subseteq Positions
        /\ key \in Positions /\ IsPrefix(p, key) /\ Len(key) = KeyLength /\ KeyLength \in Nat
        /\ Len(p) \in Nat
    BY KeysLength, Lengths DEF Good, IsTrie, DeepestAt
  <1>1. PICK nibs \in Positions : nibs = t[p].data.nibs
    BY <1>0, KindIs
  <1>2. PICK rest \in Positions : rest = Drop(key, Len(p)) /\ Len(rest) = Len(key) - Len(p) /\ p \o rest = key
    BY <1>0, PrefixRest, Zenon
  <1>3. Len(nibs) = Len(rest) /\ Len(nibs) \in Nat
    <2>1. End(t, p) \in Keys
      BY <1>0 DEF Good, LeavesIn
    <2>2. Len(End(t, p)) = KeyLength
      BY <2>1, KeysLength
    <2>3. Len(End(t, p)) = Len(p) + Len(nibs)
      BY <1>0, <1>1, ConcatIs, Zenon DEF End
    <2>4. Len(rest) = KeyLength - Len(p) /\ Len(p) + Len(nibs) = KeyLength /\ Len(nibs) \in Nat
      BY <2>2, <2>3, <1>0, <1>2, Lengths
    <2> QED
      BY <2>4, <1>0
  <1>4. PICK n : n = lcp(nibs, rest)
    OBVIOUS
  <1>5. /\ n \in 0..Len(nibs) /\ n <= Len(rest)
        /\ SubSeq(nibs, 1, n) = SubSeq(rest, 1, n)
    BY <1>4, LcpIs, Zenon
  <1>6. InsertInto(t, p, key, value) = InsertAtLeaf(t, p, key, value)
    BY DEF InsertInto
  <1>7. InsertAtLeaf(t, p, key, value)
          = IF nibs = rest
              THEN IF t[p].data.value = value THEN Same(t)
                                              ELSE Changed(Put(t, p, Leaf(rest, value)))
              ELSE IF n = Len(nibs) \/ n = Len(rest) THEN Failed("ValueInBranch", t)
                                                     ELSE Changed(Split(t, p, key, value))
    BY <1>1, <1>2, <1>4, Zenon DEF InsertAtLeaf
  <1>8. nibs = rest <=> End(t, p) = key
    BY <1>1, <1>2, LeafAtEnd
  <1>9. HasLeaf(t, key) <=> nibs = rest
    BY <1>1, <1>2, LeafAtEnd
  <1>10. nibs = rest => map[key] = t[p].data.value
    BY <1>9, LeafAtEnd
  <1>11. CASE nibs = rest /\ t[p].data.value = value
    <2>1. InsertInto(t, p, key, value) = Same(t)
      BY <1>6, <1>7, <1>11
    <2> QED
      BY <2>1, <1>9, <1>10, <1>11, SameIs DEF InsertAnswer
  <1>12. CASE nibs = rest /\ t[p].data.value # value
    <2>1. PICK u : u = Put(t, p, Leaf(rest, value))
      OBVIOUS
    <2>2. InsertInto(t, p, key, value) = Changed(u)
      BY <2>1, <1>6, <1>7, <1>12
    <2>3. u = Put(t, p, Leaf(Drop(key, Len(p)), value))
      BY <2>1, <1>2, Zenon
    <2>4. Inserted(t, u, new, key)
      BY <2>3, <1>8, <1>12, OverwriteInserted
    <2> QED
      BY <2>2, <2>4, <1>10, <1>12, ChangedIs DEF InsertAnswer
  <1>13. CASE nibs # rest
    <2>1. n # Len(nibs)
      <3>1. SUFFICES ASSUME n = Len(nibs)
                     PROVE  nibs = rest
        BY <1>13
      <3>2. SubSeq(nibs, 1, Len(nibs)) = SubSeq(rest, 1, Len(rest))
        BY <3>1, <1>3, <1>5
      <3> QED
        BY <3>2, WholePath, Zenon
    <2>2. n < Len(nibs) /\ n < Len(rest) /\ n # Len(rest)
      BY <2>1, <1>3, <1>5
    <2>3. PICK u : u = Split(t, p, key, value)
      OBVIOUS
    <2>4. InsertInto(t, p, key, value) = Changed(u)
      BY <2>1, <2>2, <2>3, <1>6, <1>7, <1>13
    <2>5. Inserted(t, u, new, key)
      BY <2>2, <2>3, <1>1, <1>2, <1>4, SplitInserted
    <2> QED
      BY <2>4, <2>5, <1>9, <1>13, ChangedIs DEF InsertAnswer
  <1> QED
    BY <1>11, <1>12, <1>13

(* insert_internal where the way ends at an extension. *)
LEMMA InsertAtAnExtension ==
  ASSUME NEW t, NEW map, NEW new, Good(t, map), NEW key \in Keys, NEW value, value # NoValue,
         UpdatedTo(map, new, key, value), NEW p, DeepestAt(t, key, p), Kind(t, p) = "Extension"
  PROVE  InsertAnswer(t, map, new, key, value, InsertInto(t, p, key, value))
  <1>0. /\ p \in DOMAIN t /\ p \in Positions /\ IsTrie(t) /\ DOMAIN t \subseteq Positions
        /\ key \in Positions /\ IsPrefix(p, key) /\ Len(key) = KeyLength /\ KeyLength \in Nat
        /\ Len(p) \in Nat
    BY KeysLength, Lengths DEF Good, IsTrie, DeepestAt
  <1>1. PICK nibs \in Positions : nibs = t[p].data.nibs
    BY <1>0, KindIs
  <1>2. PICK rest \in Positions : rest = Drop(key, Len(p)) /\ Len(rest) = Len(key) - Len(p) /\ p \o rest = key
    BY <1>0, PrefixRest, Zenon
  <1>3. PICK n : n = lcp(nibs, rest)
    OBVIOUS
  <1>4. /\ n \in 0..Len(nibs) /\ n <= Len(rest)
        /\ SubSeq(nibs, 1, n) = SubSeq(rest, 1, n)
    BY <1>3, LcpIs, Zenon
  <1>5. PICK e \in DOMAIN t : e = End(t, p) /\ IsStrictPrefix(p, e)
    BY <1>0 DEF Good, Shape, Leads
  <1>6. e \in Positions /\ Len(e) <= KeyLength /\ e = p \o nibs /\ Len(e) = Len(p) + Len(nibs) /\ Len(p) < Len(e)
    <2>1. e \in Positions /\ Len(e) <= KeyLength
      BY <1>0 DEF Good, Bounded
    <2>2. e = p \o nibs /\ Len(e) = Len(p) + Len(nibs)
      BY <1>0, <1>1, <1>5, ConcatIs, Zenon DEF End
    <2> QED
      BY <2>1, <2>2, <1>0, <1>5, StrictIs
  <1>7. ~IsPrefix(e, key)
    <2>1. SUFFICES ASSUME IsPrefix(e, key)
                   PROVE  FALSE
      OBVIOUS
    <2>2. Len(e) <= Len(p)
      BY <2>1 DEF DeepestAt
    <2> QED
      BY <2>2, <1>0, <1>6, Lengths
  <1>8. ASSUME n = Len(nibs)
        PROVE  FALSE
    <2>1. nibs = SubSeq(rest, 1, n) /\ n \in 0..Len(rest)
      <3>1. SubSeq(nibs, 1, n) = nibs
        BY <1>8, WholePath
      <3> QED
        BY <3>1, <1>4, Lengths
    <2>2. IsPrefix(nibs, rest)
      BY <2>1, StemPrefix, Zenon
    <2>3. PICK s \in Positions : nibs \o s = rest
      BY <2>2, PrefixRest
    <2>4. (p \o nibs) \o s = p \o rest
      <3>1. (p \o nibs) \o s = p \o (nibs \o s)
        BY <1>0, ConcatAssoc, ZenonT(60)
      <3> QED
        BY ONLY <2>3, <3>1
    <2>5. e \o s = key
      BY <2>4, <1>2, <1>6, Zenon
    <2>6. IsPrefix(e, key)
      BY <2>5, <1>6, PrefixConcat, Zenon
    <2> QED
      BY <2>6, <1>7
  <1>9. ASSUME n = Len(rest)
        PROVE  FALSE
    <2>1. Len(rest) = KeyLength - Len(p) /\ Len(nibs) = Len(e) - Len(p) /\ Len(nibs) \in Nat /\ Len(e) \in Nat
      BY <1>0, <1>2, <1>6, Lengths
    <2>2. n <= Len(nibs) /\ n \in Nat
      BY <1>4
    <2>3. n = Len(nibs)
      <3>1. Len(e) <= KeyLength /\ KeyLength \in Nat /\ Len(p) \in Nat
        BY <1>0, <1>6
      <3> QED
        BY <2>1, <2>2, <3>1, <1>9
    <2> QED
      BY <2>3, <1>8
  <1>10. n < Len(nibs) /\ n < Len(rest)
    BY <1>4, <1>8, <1>9, Lengths
  <1>11. PICK u : u = Split(t, p, key, value)
    OBVIOUS
  <1>12. InsertInto(t, p, key, value) = Changed(u)
    <2>1. InsertInto(t, p, key, value) = IF lcp(t[p].data.nibs, Drop(key, Len(p))) = Len(Drop(key, Len(p)))
                                           THEN Failed("ValueInBranch", t)
                                           ELSE Changed(Split(t, p, key, value))
      BY DEF InsertInto
    <2>2. lcp(t[p].data.nibs, Drop(key, Len(p))) = n /\ Len(Drop(key, Len(p))) = Len(rest)
      BY <1>1, <1>2, <1>3, Zenon
    <2> QED
      BY <2>1, <2>2, <1>9, <1>11
  <1>13. Inserted(t, u, new, key)
    BY <1>1, <1>2, <1>3, <1>10, <1>11, SplitInserted
  <1>14. ~HasLeaf(t, key)
    BY LeafAtEnd
  <1> QED
    BY <1>12, <1>13, <1>14, ChangedIs DEF InsertAnswer

(* insert_internal where the way ends at a digest: an error. *)
LEMMA InsertAtADigest ==
  ASSUME NEW t, NEW map, NEW new, NEW key, NEW value, NEW p, DeepestAt(t, key, p), Kind(t, p) = "Digest"
  PROVE  InsertAnswer(t, map, new, key, value, InsertInto(t, p, key, value))
  <1>1. InsertInto(t, p, key, value) = Failed("NodeNotResolved", t)
    BY DEF InsertInto
  <1>2. ~Open(t, key)
    BY DEF Open, DeepestAt
  <1> QED
    BY <1>1, <1>2, FailedIs DEF InsertAnswer

(* Nothing ends above a digest, and nothing below it. *)
LEMMA DeepestOpen ==
  ASSUME NEW t, NEW map, Good(t, map), NEW key, NEW p, DeepestAt(t, key, p), Kind(t, p) # "Digest"
  PROVE  Open(t, key)
  <1>1. SUFFICES ASSUME NEW q \in DOMAIN t, IsPrefix(q, key), Kind(t, q) = "Digest"
                 PROVE  FALSE
    BY DEF Open
  <1>2. IsPrefix(q, p) /\ q # p /\ p \in DOMAIN t
    BY <1>1 DEF DeepestAt
  <1>3. Ends(t, q)
    BY <1>1 DEF Good, Shape
  <1> QED
    BY <1>2, <1>3 DEF Ends, IsStrictPrefix

(* A leaf of the key is a way to it that ends at no digest. *)
LEMMA LeafOpen ==
  ASSUME NEW t, NEW map, Good(t, map), NEW key \in Keys, HasLeaf(t, key)
  PROVE  Open(t, key)
  <1>1. DOMAIN t # {} /\ key \in Positions
    BY KeysLength DEF HasLeaf
  <1>2. PICK p : p = Deepest(t, key)
    OBVIOUS
  <1>3. DeepestAt(t, key, p)
    BY <1>1, <1>2, DeepestIs
  <1>4. Kind(t, p) = "Leaf"
    BY <1>3, LeafAtEnd
  <1> QED
    BY <1>3, <1>4, DeepestOpen

(* What is sure stays sure when no leaf but that of key goes and no digest comes. *)
LEMMA StaysSure ==
  ASSUME NEW t, NEW map, NEW u, NEW new, DigestsKept(t, u), NEW key, NEW value, UpdatedTo(map, new, key, value),
         \A k \in Keys : k # key /\ HasLeaf(t, k) => HasLeaf(u, k)
  PROVE  /\ Open(t, key) => Open(u, key)
         /\ \A k \in Keys : k # key /\ Sure(t, map, k) => Sure(u, new, k)
  <1>1. \A k : Open(t, k) => Open(u, k)
    BY DEF Open, DigestsKept
  <1> QED
    BY <1>1 DEF Sure, UpdatedTo

(* insert and delete: a trie as good for the new map, the truth about the change, and no stale reference. *)
Done(t, map, new, key, value, answer) ==
  \/ /\ answer.result = "true"
     /\ Good(answer.trie, new)
     /\ DigestsKept(t, answer.trie)
     /\ CachesFrom(t, answer.trie)
     /\ Sure(t, map, key) => map[key] # value
     /\ Sure(answer.trie, new, key)
     /\ \A k \in Keys : k # key /\ Sure(t, map, k) => Sure(answer.trie, new, k)
  \/ /\ answer.result = "false"
     /\ answer.trie = t
     /\ Good(t, new)
     /\ Sure(t, map, key) => map[key] = value
     /\ Sure(t, new, key)
     /\ \A k \in Keys : k # key /\ Sure(t, map, k) => Sure(t, new, k)
  \/ /\ answer.result \notin {"true", "false"}
     /\ answer.trie = t
     /\ ~Open(t, key)

(***************************************************************************)
(* insert, whatever the trie: the trie is good for the updated map and the *)
(* answer is true.                                                         *)
(***************************************************************************)
LEMMA InsertDone ==
  ASSUME NEW t, NEW map, NEW new, Good(t, map), NEW key \in Keys, NEW value, value # NoValue,
         UpdatedTo(map, new, key, value)
  PROVE  Done(t, map, new, key, value, Insert(t, key, value))
  <1>0. key \in Positions /\ IsTrie(t) /\ DOMAIN t \subseteq Positions /\ value # NoValue
    BY KeysLength DEF Good, IsTrie
  <1>1. CASE DOMAIN t = {}
    <2>1. t = Null
      BY <1>0, <1>1, NullIs
    <2>2. PICK d : d = Leaf(key, value)
      OBVIOUS
    <2>3. d.kind = "Leaf" /\ d.nibs = key /\ d.value = value /\ IsData(d)
      BY <2>2, <1>0, LeafIs
    <2>4. PICK u : u = Put(Null, << >>, d)
      OBVIOUS
    <2>5. Insert(t, key, value) = Changed(u)
      BY <2>1, <2>2, <2>4 DEF Insert
    <2>6. IsPut(t, u, << >>, d)
      BY <2>1, <2>4, PutDone, Zenon
    <2>7. /\ u = [q \in DOMAIN u |-> u[q]] /\ DOMAIN u = {<< >>}
          /\ u[<< >>].data = d /\ u[<< >>].cached_reference = NoReference
      BY <2>6, <1>1 DEF IsPut
    <2>8. Kind(u, << >>) = "Leaf" /\ End(u, << >>) = key
      <3>1. << >> \o key = key
        BY <1>0 DEF Positions
      <3>2. u[<< >>].data.nibs = key
        BY <2>3, <2>7
      <3>3. End(u, << >>) = << >> \o u[<< >>].data.nibs
        BY DEF End
      <3> QED
        BY <2>3, <2>7, <3>1, <3>2, <3>3 DEF Kind
    <2>9. IsTrie(u) /\ Rooted(u)
      BY <2>3, <2>7, EmptyPosition DEF IsTrie, Rooted
    <2>10. Bounded(u)
      BY <2>7, EmptyPosition, KeysLength DEF Bounded
    <2>11. Ends(u, << >>)
      BY <2>7 DEF Ends, IsStrictPrefix
    <2>12. Shape(u, << >>)
      BY <2>8, <2>11 DEF Shape
    <2>13. LeavesIn(u, new)
      BY <2>3, <2>7, <2>8 DEF LeavesIn, UpdatedTo
    <2>14. Good(u, new)
      BY <2>7, <2>9, <2>10, <2>12, <2>13 DEF Good
    <2>15. NoDigest(u) /\ HasLeaf(u, key) /\ \A k : ~HasLeaf(t, k)
      BY <2>7, <2>8, <1>1 DEF NoDigest, HasLeaf
    <2>16. DigestsKept(t, u)
      BY <2>15, <1>1 DEF NoDigest, DigestsKept
    <2>17. CachesFrom(t, u)
      BY <2>7 DEF CachesFrom
    <2>18. Sure(t, map, key) => map[key] # value
      BY <2>15, <1>0 DEF Sure
    <2>19. Sure(u, new, key)
      BY <2>15 DEF Sure, Open, NoDigest
    <2>20. \A k \in Keys : k # key /\ Sure(t, map, k) => Sure(u, new, k)
      BY <2>15, <2>16, StaysSure
    <2> QED
      BY <2>5, <2>14, <2>16, <2>17, <2>18, <2>19, <2>20, ChangedIs DEF Done
  <1>2. CASE DOMAIN t # {}
    <2>1. PICK p : p = Deepest(t, key)
      OBVIOUS
    <2>2. DeepestAt(t, key, p) /\ p \in DOMAIN t
      BY <2>1, <1>0, <1>2, DeepestIs DEF DeepestAt
    <2>3. PICK answer : answer = InsertInto(t, p, key, value)
      OBVIOUS
    <2>4. InsertAnswer(t, map, new, key, value, answer)
      <3>1. CASE Kind(t, p) = "Branch"
        BY <3>1, <2>2, <2>3, InsertAtBranch
      <3>2. CASE Kind(t, p) = "Leaf"
        BY <3>2, <2>2, <2>3, InsertAtALeaf
      <3>3. CASE Kind(t, p) = "Extension"
        BY <3>3, <2>2, <2>3, InsertAtAnExtension
      <3>4. CASE Kind(t, p) = "Digest"
        BY <3>4, <2>2, <2>3, InsertAtADigest
      <3> QED
        BY <3>1, <3>2, <3>3, <3>4, <2>2, <1>0, KindIs
    <2>5. Insert(t, key, value) = Propagated(answer, key)
      <3>1. t # Null
        BY <1>0, <1>2, NullIs
      <3> QED
        BY <3>1, <2>1, <2>3 DEF Insert
    <2>6. CASE answer.result = "true"
      <3>1. Inserted(t, answer.trie, new, key) /\ (HasLeaf(t, key) => map[key] # value)
        BY <2>4, <2>6 DEF InsertAnswer
      <3>2. PICK w : w = Invalidated(answer.trie, key)
        OBVIOUS
      <3>3. Insert(t, key, value) = Changed(w)
        BY <2>5, <2>6, <3>2 DEF Propagated
      <3>4. /\ Good(w, new)
            /\ \A k : Sure(answer.trie, new, k) => Sure(w, new, k)
            /\ SameForm(answer.trie, w)
            /\ CachesFrom(t, w)
        BY <3>1, <3>2, <1>0, InvalidatedGood DEF Inserted
      <3>5. DigestsKept(t, w)
        BY <3>1, <3>4 DEF Inserted, DigestsKept, SameForm, Kind
      <3>6. Sure(t, map, key) => map[key] # value
        BY <3>1, <1>0 DEF Sure
      <3>7. Sure(answer.trie, new, key)
        BY <3>1, LeafOpen DEF Inserted, Sure
      <3>8. \A k \in Keys : k # key /\ Sure(t, map, k) => Sure(answer.trie, new, k)
        BY <3>1, StaysSure DEF Inserted
      <3> QED
        BY <3>3, <3>4, <3>5, <3>6, <3>7, <3>8, ChangedIs DEF Done
    <2>7. CASE answer.result = "false"
      <3>1. answer.trie = t /\ map[key] = value /\ HasLeaf(t, key)
        BY <2>4, <2>7 DEF InsertAnswer
      <3>2. Insert(t, key, value) = answer
        BY <2>5, <2>7 DEF Propagated
      <3>3. \A k \in Keys : new[k] = map[k]
        BY <3>1 DEF UpdatedTo
      <3>4. Good(t, new)
        BY <3>3 DEF Good, LeavesIn
      <3>5. \A k \in Keys : Sure(t, map, k) => Sure(t, new, k)
        BY <3>3 DEF Sure
      <3>6. Sure(t, new, key)
        BY <3>1, LeafOpen DEF Sure
      <3> QED
        BY <2>7, <3>1, <3>2, <3>4, <3>5, <3>6 DEF Done
    <2>8. CASE answer.result \notin {"true", "false"}
      <3>1. Insert(t, key, value) = answer
        BY <2>5, <2>8 DEF Propagated
      <3> QED
        BY <2>4, <2>8, <3>1 DEF Done, InsertAnswer
    <2> QED
      BY <2>6, <2>7, <2>8
  <1> QED
    BY <1>1, <1>2

-----------------------------------------------------------------------------
(* delete.  What Prepend does to a node at q whose only way on is c. *)
Absorbed(t, u, q, c) ==
  /\ IsTrie(u)
  /\ DOMAIN u \subseteq DOMAIN t
  /\ q \in DOMAIN u
  /\ \A x \in DOMAIN t : x # c => x \in DOMAIN u
  /\ \A x \in DOMAIN u : x # q => u[x] = t[x]
  /\ u[q].cached_reference = NoReference
  /\ Kind(u, q) \in {"Leaf", "Extension"}
  /\ Shape(u, q)
  /\ IF Kind(t, c) = "Leaf"
       THEN /\ c \notin DOMAIN u
            /\ Kind(u, q) = "Leaf"
            /\ End(u, q) = End(t, c)
            /\ u[q].data.value = t[c].data.value
       ELSE Kind(u, q) = "Extension"
  /\ Kind(t, c) = "Digest" => c \in DOMAIN u

(* A leaf or an extension takes the place of its parent. *)
LEMMA PrependLeaf ==
  ASSUME NEW t, IsTrie(t), NEW q \in DOMAIN t, NEW nibs \in Positions, NEW c, c = q \o nibs,
         Leads(t, q, c), Shape(t, c), Kind(t, c) \in {"Leaf", "Extension"}
  PROVE  Absorbed(t, Prepend(t, q, nibs), q, c)
  <1>0. /\ q \in Positions /\ c \in DOMAIN t /\ c \in Positions /\ IsStrictPrefix(q, c) /\ q # c
        /\ DOMAIN t \subseteq Positions /\ IsPrefix(q, c) /\ Len(q) < Len(c)
        /\ \A x \in DOMAIN t : IsStrictPrefix(q, x) => IsPrefix(c, x)
    BY StrictIs DEF IsTrie, Leads, IsStrictPrefix
  <1>1. PICK tail \in Positions : tail = t[c].data.nibs
    BY <1>0, KindIs
  <1>2. PICK both \in Positions : both = nibs \o tail
    BY ConcatIs, Zenon
  <1>3. PICK e \in Positions : e = End(t, c) /\ e = q \o both
    <2>1. End(t, c) = (q \o nibs) \o tail
      BY <1>1, Zenon DEF End
    <2>4. q \in Positions /\ nibs \in Positions /\ tail \in Positions
      BY <1>0
    <2>2. (q \o nibs) \o tail = q \o (nibs \o tail)
      BY ONLY <2>4, ConcatAssoc, Zenon
    <2>3. End(t, c) \in Positions
      BY <1>0, KindIs
    <2> QED
      BY <2>1, <2>2, <2>3, <1>2, Zenon
  <1>4. PICK w : w = Without(t, c)
    OBVIOUS
  <1>5. PICK d : d = IF Kind(t, c) = "Leaf" THEN Leaf(both, t[c].data.value) ELSE Extension(both)
    OBVIOUS
  <1>6. /\ IsData(d) /\ d.kind = Kind(t, c) /\ d.nibs = both
        /\ Kind(t, c) = "Leaf" => d.value = t[c].data.value
    <2>1. CASE Kind(t, c) = "Leaf"
      <3>1. t[c].data.value # NoValue
        BY <2>1, <1>0, KindIs
      <3> QED
        BY <2>1, <3>1, <1>5, LeafIs
    <2>2. CASE Kind(t, c) = "Extension"
      BY <2>2, <1>5, ExtensionIs
    <2> QED
      BY <2>1, <2>2
  <1>7. PICK u : u = Put(w, q, d)
    OBVIOUS
  <1>8. Prepend(t, q, nibs) = u
    <2>1. CASE Kind(t, c) = "Leaf"
      <3>1. t[c].data.kind = "Leaf"
        BY <2>1 DEF Kind
      <3>2. Prepend(t, q, nibs) = Put(Without(t, c), q, Leaf(nibs \o t[c].data.nibs, t[c].data.value))
        BY <3>1, <1>0 DEF Prepend
      <3>3. d = Leaf(nibs \o t[c].data.nibs, t[c].data.value)
        BY <2>1, <1>1, <1>2, <1>5
      <3> QED
        BY <3>2, <3>3, <1>4, <1>7, Zenon
    <2>2. CASE Kind(t, c) = "Extension"
      <3>1. t[c].data.kind = "Extension"
        BY <2>2 DEF Kind
      <3>2. Prepend(t, q, nibs) = Put(Without(t, c), q, Extension(nibs \o t[c].data.nibs))
        BY <3>1, <1>0 DEF Prepend
      <3>3. d = Extension(nibs \o t[c].data.nibs)
        BY <2>2, <1>1, <1>2, <1>5
      <3> QED
        BY <3>2, <3>3, <1>4, <1>7, Zenon
    <2> QED
      BY <2>1, <2>2
  <1>9. IsWithout(t, w, c) /\ IsPut(w, u, q, d)
    BY <1>4, <1>7, WithoutDone, PutDone, Zenon
  <1>10. /\ u = [x \in DOMAIN u |-> u[x]]
         /\ DOMAIN u = DOMAIN t \ {c}
         /\ q \in DOMAIN u
         /\ u[q].data = d /\ u[q].cached_reference = NoReference
         /\ \A x \in DOMAIN u : x # q => u[x] = t[x]
    BY <1>0, <1>9 DEF IsWithout, IsPut
  <1>11. Kind(u, q) = Kind(t, c) /\ End(u, q) = e
    <2>1. Kind(u, q) = Kind(t, c) /\ u[q].data.nibs = both
      BY <1>6, <1>10 DEF Kind
    <2> QED
      BY <2>1, <1>3, Zenon DEF End
  <1>12. IsTrie(u)
    BY <1>0, <1>6, <1>10 DEF IsTrie
  <1>13. ASSUME NEW x \in DOMAIN u, IsStrictPrefix(q, x)
         PROVE  x \in DOMAIN t /\ IsStrictPrefix(c, x)
    BY <1>0, <1>10, <1>13 DEF IsStrictPrefix
  <1>14. Shape(u, q)
    <2>1. CASE Kind(t, c) = "Leaf"
      <3>1. Ends(t, c)
        BY <2>1 DEF Shape
      <3>2. Ends(u, q)
        BY <3>1, <1>13 DEF Ends
      <3> QED
        BY <2>1, <3>2, <1>11 DEF Shape
    <2>2. CASE Kind(t, c) = "Extension"
      <3>1. Leads(t, c, e) /\ Kind(t, e) \in {"Branch", "Digest"}
        BY <2>2, <1>3 DEF Shape
      <3>2. e \in DOMAIN t /\ IsStrictPrefix(c, e)
        BY <3>1 DEF Leads
      <3>3. IsPrefix(c, e) /\ Len(c) < Len(e)
        BY <3>2, <1>0, StrictIs
      <3>4. IsPrefix(q, e) /\ Len(q) < Len(e)
        BY <3>3, <1>0, PrefixTrans, Lengths
      <3>5. e # c /\ e # q /\ IsStrictPrefix(q, e)
        BY <3>3, <3>4, <1>0, StrictIs, Lengths
      <3>6. e \in DOMAIN u /\ Kind(u, e) = Kind(t, e)
        BY <3>2, <3>5, <1>10 DEF Kind
      <3>7. Leads(u, q, e)
        BY <3>1, <3>5, <3>6, <1>13 DEF Leads
      <3> QED
        BY <2>2, <3>1, <3>6, <3>7, <1>11 DEF Shape
    <2> QED
      BY <2>1, <2>2
  <1>15. Absorbed(t, u, q, c)
    BY <1>3, <1>6, <1>10, <1>11, <1>12, <1>14 DEF Absorbed
  <1> QED
    BY <1>8, <1>15

(* A branch or a digest goes under an extension. *)
LEMMA PrependBranch ==
  ASSUME NEW t, IsTrie(t), NEW q \in DOMAIN t, NEW nibs \in Positions, NEW c, c = q \o nibs,
         Leads(t, q, c), Kind(t, c) \in {"Branch", "Digest"}
  PROVE  Absorbed(t, Prepend(t, q, nibs), q, c)
  <1>0. /\ q \in Positions /\ c \in DOMAIN t /\ IsStrictPrefix(q, c) /\ q # c
        /\ DOMAIN t \subseteq Positions
        /\ \A x \in DOMAIN t : IsStrictPrefix(q, x) => IsPrefix(c, x)
    BY DEF IsTrie, Leads, IsStrictPrefix
  <1>1. PICK d : d = Extension(nibs)
    OBVIOUS
  <1>2. IsData(d) /\ d.kind = "Extension" /\ d.nibs = nibs
    BY <1>1, ExtensionIs
  <1>3. PICK u : u = Put(t, q, d)
    OBVIOUS
  <1>4. Prepend(t, q, nibs) = u
    <2>1. t[c].data.kind # "Leaf" /\ t[c].data.kind # "Extension"
      BY DEF Kind
    <2>2. Prepend(t, q, nibs) = Put(t, q, Extension(nibs))
      BY <2>1, <1>0 DEF Prepend
    <2> QED
      BY <2>2, <1>1, <1>3
  <1>5. IsPut(t, u, q, d)
    BY <1>3, PutDone, Zenon
  <1>6. /\ u = [x \in DOMAIN u |-> u[x]]
        /\ DOMAIN u = DOMAIN t
        /\ u[q].data = d /\ u[q].cached_reference = NoReference
        /\ \A x \in DOMAIN u : x # q => u[x] = t[x]
    BY <1>5 DEF IsPut
  <1>7. Kind(u, q) = "Extension" /\ End(u, q) = c
    <2>1. Kind(u, q) = "Extension" /\ u[q].data.nibs = nibs
      BY <1>2, <1>6 DEF Kind
    <2> QED
      BY <2>1, Zenon DEF End
  <1>8. IsTrie(u)
    BY <1>0, <1>2, <1>6 DEF IsTrie
  <1>9. Leads(u, q, c) /\ Kind(u, c) = Kind(t, c)
    BY <1>0, <1>6 DEF Leads, Kind
  <1>10. Shape(u, q)
    BY <1>7, <1>9 DEF Shape
  <1>11. Absorbed(t, u, q, c)
    BY <1>0, <1>6, <1>7, <1>8, <1>10 DEF Absorbed
  <1> QED
    BY <1>4, <1>11

(* Prepend replaces the only way down from a node by a single step. *)
LEMMA PrependIs ==
  ASSUME NEW t, IsTrie(t), NEW q \in DOMAIN t, NEW nibs \in Positions, NEW c, c = q \o nibs,
         Leads(t, q, c), Shape(t, c)
  PROVE  Absorbed(t, Prepend(t, q, nibs), q, c)
  <1>1. c \in DOMAIN t
    BY DEF Leads
  <1>2. Kind(t, c) \in {"Branch", "Leaf", "Extension", "Digest"}
    BY <1>1, KindIs
  <1>3. CASE Kind(t, c) \in {"Leaf", "Extension"}
    BY <1>3, PrependLeaf
  <1>4. CASE Kind(t, c) \in {"Branch", "Digest"}
    BY <1>4, PrependBranch
  <1> QED
    BY <1>2, <1>3, <1>4

(* The only sibling of the node at p. *)
Orphan(t, p, x) ==
  /\ p # << >>
  /\ {Append(SubSeq(p, 1, Len(p) - 1), i) : i \in Children(t, SubSeq(p, 1, Len(p) - 1))} \ {p} = {x}

(* What delete has reached once the nodes above p of length m or more have been put in order. *)
Unwinding(t, map, key, p, u, m) ==
  /\ IsTrie(u)
  /\ DOMAIN u \subseteq DOMAIN t \ {p}
  /\ p # << >> => << >> \in DOMAIN u
  /\ \A q \in DOMAIN t : IsPrefix(q, p) /\ Len(q) < m => q \in DOMAIN u /\ u[q] = t[q]
  /\ \A q \in DOMAIN u : IsPrefix(q, p) /\ m <= Len(q) =>
       Shape(u, q) /\ u[q].cached_reference = NoReference /\ Kind(u, q) # "Digest"
  /\ \A q \in DOMAIN u : ~IsPrefix(q, p) => Kept(t, u, q)
  /\ \A x \in DOMAIN t :
       x \in DOMAIN u \/ x = p
         \/ \E r \in DOMAIN u : IsPrefix(r, p) /\ m <= Len(r) /\ IsStrictPrefix(r, x)
  /\ \A x \in DOMAIN t : Kind(t, x) = "Digest" => x \in DOMAIN u
  /\ LeavesIn(u, map)
  /\ ~HasLeaf(u, key)
  /\ \A k \in Keys : k # key /\ HasLeaf(t, k) => HasLeaf(u, k)
  /\ \A x \in DOMAIN t : x \in DOMAIN u \/ IsPrefix(x, p) \/ Orphan(t, p, x)

(* The leaf at p that delete takes away. *)
Doomed(t, map, key, p) ==
  /\ Good(t, map)
  /\ p \in DOMAIN t
  /\ Kind(t, p) = "Leaf"
  /\ End(t, p) = key
  /\ key \in Keys

(* The leaf is gone, and nothing above it has been looked at. *)
LEMMA UnwindingStarts ==
  ASSUME NEW t, NEW map, NEW key, NEW p, Doomed(t, map, key, p)
  PROVE  Unwinding(t, map, key, p, Without(t, p), Len(p))
  <1>0. /\ Good(t, map) /\ p \in DOMAIN t /\ Kind(t, p) = "Leaf" /\ End(t, p) = key /\ key \in Keys
        /\ IsTrie(t) /\ DOMAIN t \subseteq Positions /\ p \in Positions /\ Ends(t, p)
    BY DEF Doomed, Good, IsTrie, Shape
  <1>1. PICK u : u = Without(t, p)
    OBVIOUS
  <1>2. IsWithout(t, u, p)
    BY <1>1, WithoutDone, Zenon
  <1>3. /\ u = [q \in DOMAIN u |-> u[q]]
        /\ DOMAIN u = DOMAIN t \ {p}
        /\ \A q \in DOMAIN u : u[q] = t[q]
    BY <1>2 DEF IsWithout
  <1>4. IsTrie(u)
    BY <1>0, <1>3 DEF IsTrie
  <1>5. p # << >> => << >> \in DOMAIN u
    BY <1>0, <1>3 DEF Good, Rooted
  <1>6. \A q \in DOMAIN t : IsPrefix(q, p) /\ Len(q) < Len(p) => q \in DOMAIN u /\ u[q] = t[q]
    BY <1>0, <1>3, Lengths
  <1>7. ASSUME NEW q \in DOMAIN u
        PROVE  ~(IsPrefix(q, p) /\ Len(p) <= Len(q))
    BY <1>0, <1>3, PrefixSame
  <1>8. ASSUME NEW q \in DOMAIN u, ~IsPrefix(q, p)
        PROVE  Kept(t, u, q)
    BY <1>3, <1>8 DEF Kept
  <1>9. \A q \in DOMAIN u : Kind(u, q) = Kind(t, q) /\ End(u, q) = End(t, q)
    BY <1>3 DEF Kind, End
  <1>10. LeavesIn(u, map)
    BY <1>0, <1>3, <1>9 DEF Good, LeavesIn
  <1>11. ~HasLeaf(u, key)
    <2>1. SUFFICES ASSUME NEW q \in DOMAIN t, q # p, Kind(t, q) = "Leaf", End(t, q) = key
                   PROVE  FALSE
      BY <1>3, <1>9 DEF HasLeaf
    <2>2. q \in Positions /\ IsPrefix(q, key) /\ IsPrefix(p, key) /\ key \in Positions
      BY <2>1, <1>0, KindIs
    <2>3. IsPrefix(p, q) \/ IsPrefix(q, p)
      BY <2>2, <1>0, PrefixesOfOne, Lengths
    <2>4. Ends(t, q)
      BY <2>1, <1>0 DEF Good, Shape
    <2> QED
      BY <2>1, <2>3, <2>4, <1>0 DEF Ends, IsStrictPrefix
  <1>12. \A k \in Keys : k # key /\ HasLeaf(t, k) => HasLeaf(u, k)
    BY <1>0, <1>3, <1>9 DEF HasLeaf
  <1>13. \A x \in DOMAIN t : Kind(t, x) = "Digest" => x \in DOMAIN u
    BY <1>0, <1>3
  <1>15. \A x \in DOMAIN t : x \in DOMAIN u \/ IsPrefix(x, p) \/ Orphan(t, p, x)
    BY <1>0, <1>3, PrefixSelf
  <1>14. Unwinding(t, map, key, p, u, Len(p))
    BY <1>3, <1>4, <1>5, <1>6, <1>7, <1>8, <1>10, <1>11, <1>12, <1>13, <1>15 DEF Unwinding
  <1> QED
    BY <1>1, <1>14

(* A child of a node that is still to be put in order is still there, unless it is p. *)
LEMMA ChildStays ==
  ASSUME NEW t, NEW map, NEW key, NEW p, Doomed(t, map, key, p), NEW m \in Nat,
         NEW u, Unwinding(t, map, key, p, u, m),
         NEW q \in DOMAIN t, IsPrefix(q, p), Len(q) < m,
         NEW x \in DOMAIN t, x # p, \A r \in DOMAIN t : IsStrictPrefix(q, r) => ~IsStrictPrefix(r, x)
  PROVE  x \in DOMAIN u
  <1>0. DOMAIN t \subseteq Positions /\ p \in Positions /\ q \in Positions /\ DOMAIN u \subseteq DOMAIN t
    BY DEF Doomed, Good, IsTrie, Unwinding
  <1>1. ASSUME NEW r \in DOMAIN u, IsPrefix(r, p), m <= Len(r), IsStrictPrefix(r, x)
        PROVE  FALSE
    <2>1. r \in DOMAIN t /\ r \in Positions /\ Len(q) < Len(r)
      BY <1>0, <1>1, Lengths
    <2>2. IsPrefix(q, r)
      BY <2>1, <1>0, <1>1, PrefixesOfOne, Lengths
    <2>3. IsStrictPrefix(q, r)
      BY <2>1, <2>2, <1>0, StrictIs
    <2> QED
      BY <2>1, <2>3, <1>1
  <1> QED
    BY <1>1 DEF Unwinding

(* The nodes that are still to be put in order. *)
LEMMA StillJoined ==
  ASSUME NEW t, NEW map, NEW key, NEW p, Doomed(t, map, key, p), NEW m \in Nat,
         NEW u, Unwinding(t, map, key, p, u, m),
         NEW q \in DOMAIN t, IsPrefix(q, p), Len(q) < m, m <= Len(p)
  PROVE  /\ Kind(t, q) \in {"Branch", "Extension"}
         /\ q \in DOMAIN u /\ u[q] = t[q]
         /\ Kind(t, q) = "Branch" =>
              /\ Joined(u, q)
              /\ \A i \in Children(t, q) : Append(q, i) # p => i \in Children(u, q)
         /\ Kind(t, q) = "Extension" => Leads(u, q, End(t, q))
  <1>0. /\ Good(t, map) /\ IsTrie(t) /\ DOMAIN t \subseteq Positions /\ p \in Positions /\ q \in Positions
        /\ DOMAIN u \subseteq DOMAIN t /\ p \notin DOMAIN u /\ p \in DOMAIN t /\ Ends(t, p)
        /\ Kind(t, p) = "Leaf" /\ Shape(t, q)
    BY DEF Doomed, Good, IsTrie, Unwinding, Shape
  <1>1. IsStrictPrefix(q, p)
    BY <1>0, StrictIs, Lengths
  <1>2. Kind(t, q) \in {"Branch", "Extension"}
    <2>1. ~Ends(t, q)
      BY <1>0, <1>1 DEF Ends
    <2> QED
      BY <2>1, <1>0, KindIs DEF Shape
  <1>3. q \in DOMAIN u /\ u[q] = t[q]
    BY DEF Unwinding
  (* A position one step below q has nothing between. *)
  <1>4. ASSUME NEW c \in DOMAIN t, Len(c) = Len(q) + 1, c # p
        PROVE  c \in DOMAIN u
    <2>1. \A r \in DOMAIN t : IsStrictPrefix(q, r) => ~IsStrictPrefix(r, c)
      BY <1>0, <1>4, StrictIs, Lengths
    <2>2. c # p
      BY <1>4
    <2>3. ASSUME NEW x \in DOMAIN t, x # p,
                 \A r \in DOMAIN t : IsStrictPrefix(q, r) => ~IsStrictPrefix(r, x)
          PROVE  x \in DOMAIN u
      BY <2>3, ChildStays
    <2> QED
      BY ONLY <2>1, <2>2, <2>3, c \in DOMAIN t, Zenon
  <1>5. ASSUME Kind(t, q) = "Branch"
        PROVE  /\ Joined(u, q)
               /\ \A i \in Children(t, q) : Append(q, i) # p => i \in Children(u, q)
    <2>1. ASSUME NEW x \in DOMAIN u, IsStrictPrefix(q, x)
          PROVE  SubSeq(x, 1, Len(q) + 1) \in DOMAIN u
      <3>1. x \in DOMAIN t /\ x \in Positions /\ IsPrefix(q, x) /\ Len(q) < Len(x)
        BY <2>1, <1>0, StrictIs
      <3>2. PICK c \in Positions : c = SubSeq(x, 1, Len(q) + 1) /\ Len(c) = Len(q) + 1 /\ IsPrefix(c, x)
        BY <3>1, <1>0, NextStem, Zenon
      <3>3. c \in DOMAIN t
        BY <2>1, <3>1, <3>2, <1>0, <1>5 DEF Shape, Joined
      <3>4. c # p
        <4>1. SUFFICES ASSUME c = p
                       PROVE  FALSE
          OBVIOUS
        <4>2. x # p
          BY <1>0
        <4> QED
          BY <4>1, <4>2, <3>1, <3>2, <1>0 DEF Ends, IsStrictPrefix
      <3> QED
        BY <3>2, <3>3, <3>4, <1>4
    <2>2. ASSUME NEW i \in Children(t, q), Append(q, i) # p
          PROVE  i \in Children(u, q)
      <3>1. i \in Nibbles
        BY DEF Children
      <3>2. PICK c \in DOMAIN t : c = Append(q, i)
        BY DEF Children
      <3>3. Len(c) = Len(q) + 1
        BY <3>1, <3>2, <1>0, AppendIs, Zenon
      <3>4. c \in DOMAIN u
        BY <2>2, <3>2, <3>3, <1>4
      <3> QED
        BY <3>1, <3>2, <3>4 DEF Children
    <2> QED
      BY <2>1, <2>2 DEF Joined
  <1>6. ASSUME Kind(t, q) = "Extension"
        PROVE  Leads(u, q, End(t, q))
    <2>1. PICK c \in DOMAIN t : c = End(t, q) /\ Leads(t, q, c) /\ Kind(t, c) \in {"Branch", "Digest"}
      BY <1>0, <1>6 DEF Shape, Leads
    <2>2. c # p
      BY <2>1, <1>0
    <2>3. \A r \in DOMAIN t : IsStrictPrefix(q, r) => ~IsStrictPrefix(r, c)
      <3>1. ASSUME NEW r \in DOMAIN t, IsStrictPrefix(q, r), IsStrictPrefix(r, c)
            PROVE  FALSE
        <4>1. IsPrefix(c, r) /\ r \in Positions /\ c \in Positions
          BY <2>1, <3>1, <1>0 DEF Leads
        <4> QED
          BY <4>1, <3>1, StrictIs, PrefixLength, Lengths
      <3> QED
        BY <3>1
    <2>4. c \in DOMAIN u
      BY <2>2, <2>3, ChildStays
    <2> QED
      BY <2>1, <2>4, <1>0 DEF Leads
  <1> QED
    BY <1>2, <1>3, <1>5, <1>6

(* What hangs on a node that is put in order next has its shape already. *)
LEMMA LowerShape ==
  ASSUME NEW t, NEW map, NEW key, NEW p, Doomed(t, map, key, p), NEW m \in Nat,
         NEW u, Unwinding(t, map, key, p, u, m), NEW c \in DOMAIN u, m <= Len(c)
  PROVE  Shape(u, c)
  <1>0. IsTrie(t) /\ DOMAIN t \subseteq Positions /\ DOMAIN u \subseteq DOMAIN t /\ c \in Positions /\ Shape(t, c)
    BY DEF Doomed, Good, IsTrie, Unwinding
  <1>1. CASE IsPrefix(c, p)
    BY <1>1 DEF Unwinding
  <1>2. CASE ~IsPrefix(c, p)
    <2>1. Kept(t, u, c)
      BY <1>2 DEF Unwinding
    <2> QED
      BY <2>1, <1>0, KeptShape
  <1> QED
    BY <1>1, <1>2

(* A branch with two children stays. *)
LEMMA UnwindBranch ==
  ASSUME NEW t, NEW map, NEW key, NEW p, Doomed(t, map, key, p), NEW m \in Nat,
         NEW u, Unwinding(t, map, key, p, u, m), m <= Len(p),
         NEW q \in DOMAIN t, IsPrefix(q, p), m = Len(q) + 1,
         Kind(t, q) = "Branch", Forked(u, q), NEW w, w = Put(u, q, Branch)
  PROVE  Unwinding(t, map, key, p, w, Len(q))
  <1>0. /\ IsTrie(t) /\ DOMAIN t \subseteq Positions /\ p \in Positions /\ q \in Positions
        /\ DOMAIN u \subseteq DOMAIN t \ {p} /\ IsTrie(u) /\ Len(q) \in Nat
    BY Lengths DEF Doomed, Good, IsTrie, Unwinding
  <1>1. Len(q) < m
    BY <1>0
  <1>2. q \in DOMAIN u /\ u[q] = t[q] /\ Joined(u, q)
    BY <1>1, StillJoined
  <1>3. IsPut(u, w, q, Branch)
    BY PutDone, Zenon
  <1>4. /\ w = [x \in DOMAIN w |-> w[x]]
        /\ DOMAIN w = DOMAIN u
        /\ w[q].data = Branch /\ w[q].cached_reference = NoReference
        /\ \A x \in DOMAIN u : x # q => w[x] = u[x]
    BY <1>2, <1>3 DEF IsPut
  <1>5. Kind(w, q) = "Branch" /\ Kind(u, q) = "Branch" /\ IsData(w[q].data)
    BY <1>2, <1>4, BranchIs DEF Kind
  <1>6. \A x \in DOMAIN u : x # q => Kind(w, x) = Kind(u, x) /\ End(w, x) = End(u, x)
    BY <1>4 DEF Kind, End
  <1>7. IsTrie(w)
    BY <1>0, <1>4, <1>5 DEF IsTrie
  <1>8. Shape(w, q)
    <2>1. Joined(w, q)
      BY <1>2, <1>4 DEF Joined
    <2>2. Forked(w, q)
      BY <1>4 DEF Forked, Children
    <2> QED
      BY <2>1, <2>2, <1>5 DEF Shape
  <1>9. ASSUME NEW x \in DOMAIN u, ~IsPrefix(x, q)
        PROVE  Kept(u, w, x)
    BY <1>4, <1>9 DEF Kept
  <1>10. ASSUME NEW x \in DOMAIN t, IsPrefix(x, p), Len(x) < Len(q)
         PROVE  x \in DOMAIN w /\ w[x] = t[x]
    <2>1. x # q /\ Len(x) < m
      BY <1>0, <1>10, Lengths
    <2> QED
      BY <2>1, <1>4, <1>10 DEF Unwinding
  <1>11. ASSUME NEW x \in DOMAIN w, IsPrefix(x, p), Len(q) <= Len(x)
         PROVE  Shape(w, x) /\ w[x].cached_reference = NoReference /\ Kind(w, x) # "Digest"
    <2>1. CASE x = q
      BY <2>1, <1>4, <1>5, <1>8
    <2>2. CASE x # q
      <3>1. x \in DOMAIN u /\ x \in Positions
        BY <1>0, <1>4
      <3>2. ~IsPrefix(x, q)
        BY <2>2, <3>1, <1>0, <1>11, PrefixSame
      <3>3. IsPrefix(q, x)
        BY <3>1, <1>0, <1>11, PrefixesOfOne
      <3>4. Len(q) # Len(x)
        BY <2>2, <3>1, <3>3, <1>0, PrefixSame, Lengths
      <3>5. m <= Len(x)
        BY <3>1, <3>4, <1>0, <1>11, Lengths
      <3>6. Shape(u, x) /\ u[x].cached_reference = NoReference /\ Kind(u, x) # "Digest"
        BY <3>1, <3>5, <1>11 DEF Unwinding
      <3>7. Shape(w, x)
        BY <3>1, <3>2, <3>6, <1>0, <1>4, <1>9, KeptShape
      <3> QED
        BY <2>2, <3>1, <3>6, <3>7, <1>4, <1>6
    <2> QED
      BY <2>1, <2>2
  <1>12. ASSUME NEW x \in DOMAIN w, ~IsPrefix(x, p)
         PROVE  Kept(t, w, x)
    <2>1. x \in DOMAIN u /\ x \in Positions /\ ~IsPrefix(x, q)
      BY <1>0, <1>4, <1>12, PrefixTrans
    <2>2. Kept(t, u, x) /\ Kept(u, w, x)
      BY <2>1, <1>9, <1>12 DEF Unwinding
    <2> QED
      BY <2>1, <2>2, KeptTwice
  <1>13. ASSUME NEW x \in DOMAIN t, x \notin DOMAIN w, x # p
         PROVE  \E r \in DOMAIN w : IsPrefix(r, p) /\ Len(q) <= Len(r) /\ IsStrictPrefix(r, x)
    <2>1. PICK r \in DOMAIN u : IsPrefix(r, p) /\ m <= Len(r) /\ IsStrictPrefix(r, x)
      BY <1>4, <1>13 DEF Unwinding
    <2>2. Len(q) <= Len(r)
      BY <2>1, <1>0, Lengths
    <2> QED
      BY <2>1, <2>2, <1>4
  <1>14. LeavesIn(w, map)
    BY <1>4, <1>5, <1>6 DEF Unwinding, LeavesIn
  <1>15. \A k : HasLeaf(w, k) <=> HasLeaf(u, k)
    BY <1>4, <1>5, <1>6 DEF HasLeaf
  <1>16. ~HasLeaf(w, key) /\ \A k \in Keys : k # key /\ HasLeaf(t, k) => HasLeaf(w, k)
    BY <1>15 DEF Unwinding
  <1>17. /\ DOMAIN w \subseteq DOMAIN t \ {p} /\ (p # << >> => << >> \in DOMAIN w)
         /\ \A x \in DOMAIN t : Kind(t, x) = "Digest" => x \in DOMAIN w
         /\ \A x \in DOMAIN t : x \in DOMAIN w \/ IsPrefix(x, p) \/ Orphan(t, p, x)
    BY <1>4 DEF Unwinding
  <1> QED
    BY <1>7, <1>10, <1>11, <1>12, <1>13, <1>14, <1>16, <1>17 DEF Unwinding

(* A node whose only way on is c takes over from it. *)
LEMMA UnwindAbsorbed ==
  ASSUME NEW t, NEW map, NEW key, NEW p, Doomed(t, map, key, p), NEW m \in Nat,
         NEW u, Unwinding(t, map, key, p, u, m), m <= Len(p),
         NEW q \in DOMAIN t, IsPrefix(q, p), m = Len(q) + 1,
         NEW c, Leads(u, q, c), NEW w, Absorbed(u, w, q, c), IsPrefix(c, p) \/ Orphan(t, p, c)
  PROVE  Unwinding(t, map, key, p, w, Len(q))
  <1>0. /\ IsTrie(t) /\ DOMAIN t \subseteq Positions /\ p \in Positions /\ q \in Positions
        /\ DOMAIN u \subseteq DOMAIN t \ {p} /\ IsTrie(u) /\ Len(q) \in Nat
    BY Lengths DEF Doomed, Good, IsTrie, Unwinding
  <1>1. Len(q) < m
    BY <1>0
  <1>2. /\ q \in DOMAIN u /\ u[q] = t[q] /\ Kind(u, q) # "Leaf"
    BY <1>1, StillJoined DEF Kind
  <1>3. /\ c \in DOMAIN u /\ c \in Positions /\ IsStrictPrefix(q, c) /\ IsPrefix(q, c) /\ Len(q) < Len(c) /\ c # q
        /\ \A x \in DOMAIN u : IsStrictPrefix(q, x) => IsPrefix(c, x)
    BY <1>0, StrictIs DEF Leads, IsStrictPrefix
  <1>4. /\ IsTrie(w)
        /\ DOMAIN w \subseteq DOMAIN u
        /\ q \in DOMAIN w
        /\ \A x \in DOMAIN u : x # c => x \in DOMAIN w
        /\ \A x \in DOMAIN w : x # q => w[x] = u[x]
        /\ w[q].cached_reference = NoReference
        /\ Kind(w, q) \in {"Leaf", "Extension"}
        /\ Shape(w, q)
        /\ Kind(u, c) = "Leaf" => /\ c \notin DOMAIN w
                                  /\ Kind(w, q) = "Leaf"
                                  /\ End(w, q) = End(u, c)
                                  /\ w[q].data.value = u[c].data.value
        /\ Kind(u, c) # "Leaf" => Kind(w, q) = "Extension"
        /\ Kind(u, c) = "Digest" => c \in DOMAIN w
    BY DEF Absorbed
  <1>5. \A x \in DOMAIN w : x # q => Kind(w, x) = Kind(u, x) /\ End(w, x) = End(u, x)
    BY <1>4 DEF Kind, End
  <1>6. ASSUME NEW x \in DOMAIN w, ~IsPrefix(x, q)
        PROVE  Kept(u, w, x)
    <2>1. x \in DOMAIN u /\ x \in Positions
      BY <1>0, <1>4
    <2>2. ASSUME NEW y \in Positions, IsPrefix(x, y), y \in DOMAIN u
          PROVE  y \in DOMAIN w
      <3>1. SUFFICES ASSUME y = c, c \notin DOMAIN w
                     PROVE  FALSE
        BY <2>2, <1>4
      <3>2. CASE Len(x) <= Len(q)
        <4>1. IsPrefix(x, q)
          BY <2>1, <2>2, <3>1, <3>2, <1>0, <1>3, PrefixesOfOne
        <4> QED
          BY <4>1, <1>6
      <3>3. CASE Len(q) < Len(x)
        <4>1. IsPrefix(q, x)
          BY <2>1, <2>2, <3>1, <3>3, <1>0, <1>3, PrefixesOfOne, Lengths
        <4>2. IsPrefix(c, x)
          BY <2>1, <3>3, <4>1, <1>0, <1>3, StrictIs
        <4>3. x = c
          BY <2>1, <2>2, <3>1, <4>2, <1>3, PrefixSame, PrefixLength
        <4> QED
          BY <4>3, <3>1
      <3> QED
        BY <3>2, <3>3, <2>1, <1>0, Lengths
    <2>3. \A y \in Positions : IsPrefix(x, y) => y # q
      BY <1>6
    <2> QED
      BY <2>1, <2>2, <2>3, <1>4 DEF Kept
  <1>7. ASSUME NEW x \in DOMAIN t, IsPrefix(x, p), Len(x) < Len(q)
        PROVE  x \in DOMAIN w /\ w[x] = t[x]
    <2>1. x # q /\ Len(x) < m /\ x # c
      BY <1>0, <1>3, <1>7, Lengths
    <2>2. x \in DOMAIN u /\ u[x] = t[x]
      BY <2>1, <1>7 DEF Unwinding
    <2> QED
      BY <2>1, <2>2, <1>4
  <1>8. ASSUME NEW x \in DOMAIN w, IsPrefix(x, p), Len(q) <= Len(x)
        PROVE  Shape(w, x) /\ w[x].cached_reference = NoReference /\ Kind(w, x) # "Digest"
    <2>1. CASE x = q
      BY <2>1, <1>4
    <2>2. CASE x # q
      <3>1. x \in DOMAIN u /\ x \in Positions
        BY <1>0, <1>4
      <3>2. ~IsPrefix(x, q)
        BY <2>2, <3>1, <1>0, <1>8, PrefixSame
      <3>3. IsPrefix(q, x)
        BY <3>1, <1>0, <1>8, PrefixesOfOne
      <3>4. Len(q) # Len(x)
        BY <2>2, <3>1, <3>3, <1>0, PrefixSame, Lengths
      <3>5. m <= Len(x)
        BY <3>1, <3>4, <1>0, <1>8, Lengths
      <3>6. Shape(u, x) /\ u[x].cached_reference = NoReference /\ Kind(u, x) # "Digest"
        BY <3>1, <3>5, <1>8 DEF Unwinding
      <3>7. DOMAIN w \subseteq Positions
        BY <1>0, <1>4
      <3>8. Shape(w, x)
        BY <3>1, <3>2, <3>6, <3>7, <1>0, <1>6, KeptShape
      <3> QED
        BY <2>2, <3>6, <3>8, <1>4, <1>5
    <2> QED
      BY <2>1, <2>2
  <1>9. ASSUME NEW x \in DOMAIN w, ~IsPrefix(x, p)
        PROVE  Kept(t, w, x)
    <2>1. x \in DOMAIN u /\ x \in Positions /\ ~IsPrefix(x, q)
      BY <1>0, <1>4, <1>9, PrefixTrans
    <2>2. Kept(t, u, x) /\ Kept(u, w, x)
      BY <2>1, <1>6, <1>9 DEF Unwinding
    <2> QED
      BY <2>1, <2>2, KeptTwice
  <1>10. ASSUME NEW x \in DOMAIN t, x \notin DOMAIN w, x # p
         PROVE  \E r \in DOMAIN w : IsPrefix(r, p) /\ Len(q) <= Len(r) /\ IsStrictPrefix(r, x)
    <2>1. Len(q) <= Len(q)
      BY <1>0
    <2>2. CASE x = c
      BY <2>1, <2>2, <1>3, <1>4
    <2>3. CASE x # c
      <3>1. PICK r \in DOMAIN u : IsPrefix(r, p) /\ m <= Len(r) /\ IsStrictPrefix(r, x)
        BY <2>3, <1>4, <1>10 DEF Unwinding
      <3>2. Len(q) <= Len(r) /\ r \in Positions /\ x \in Positions
        BY <3>1, <1>0, Lengths
      <3>3. CASE r # c
        BY <3>1, <3>2, <3>3, <1>4
      <3>4. CASE r = c
        <4>1. IsPrefix(q, x) /\ Len(q) < Len(x)
          BY <3>1, <3>2, <3>4, <1>0, <1>3, StrictIs, PrefixTrans, Lengths
        <4>2. IsStrictPrefix(q, x)
          BY <4>1, <3>2, <1>0, StrictIs
        <4> QED
          BY <4>2, <2>1, <1>4
      <3> QED
        BY <3>3, <3>4
    <2> QED
      BY <2>2, <2>3
  <1>11. LeavesIn(w, map)
    <2>1. ASSUME NEW x \in DOMAIN w, Kind(w, x) = "Leaf"
          PROVE  End(w, x) \in Keys /\ map[End(w, x)] = w[x].data.value
      <3>1. CASE x = q
        <4>1. Kind(u, c) = "Leaf" /\ End(w, q) = End(u, c) /\ w[q].data.value = u[c].data.value
          BY <2>1, <3>1, <1>4
        <4> QED
          BY <3>1, <4>1, <1>3 DEF Unwinding, LeavesIn
      <3>2. CASE x # q
        BY <2>1, <3>2, <1>4, <1>5 DEF Unwinding, LeavesIn
      <3> QED
        BY <3>1, <3>2
    <2> QED
      BY <2>1 DEF LeavesIn
  <1>12. ASSUME NEW k
         PROVE  HasLeaf(w, k) <=> HasLeaf(u, k)
    <2>1. ASSUME HasLeaf(w, k)
          PROVE  HasLeaf(u, k)
      <3>1. PICK x \in DOMAIN w : Kind(w, x) = "Leaf" /\ End(w, x) = k
        BY <2>1 DEF HasLeaf
      <3>2. CASE x = q
        <4>1. Kind(u, c) = "Leaf" /\ End(u, c) = k
          BY <3>1, <3>2, <1>4
        <4> QED
          BY <4>1, <1>3 DEF HasLeaf
      <3>3. CASE x # q
        BY <3>1, <3>3, <1>4, <1>5 DEF HasLeaf
      <3> QED
        BY <3>2, <3>3
    <2>2. ASSUME HasLeaf(u, k)
          PROVE  HasLeaf(w, k)
      <3>1. PICK x \in DOMAIN u : Kind(u, x) = "Leaf" /\ End(u, x) = k
        BY <2>2 DEF HasLeaf
      <3>2. CASE x = c
        BY <3>1, <3>2, <1>4 DEF HasLeaf
      <3>3. CASE x # c
        <4>1. x \in DOMAIN w /\ x # q
          BY <3>1, <3>3, <1>2, <1>4
        <4> QED
          BY <3>1, <4>1, <1>5 DEF HasLeaf
      <3> QED
        BY <3>2, <3>3
    <2> QED
      BY <2>1, <2>2
  <1>13. ~HasLeaf(w, key) /\ \A k \in Keys : k # key /\ HasLeaf(t, k) => HasLeaf(w, k)
    BY <1>12 DEF Unwinding
  <1>14. DOMAIN w \subseteq DOMAIN t \ {p}
    BY <1>0, <1>4
  <1>15. p # << >> => << >> \in DOMAIN w
    <2>1. << >> # c
      BY <1>0, <1>3, EmptyPosition
    <2> QED
      BY <2>1, <1>4 DEF Unwinding
  <1>16. ASSUME NEW x \in DOMAIN t, Kind(t, x) = "Digest"
         PROVE  x \in DOMAIN w
    <2>1. x \in DOMAIN u /\ x \in Positions
      BY <1>0, <1>16 DEF Unwinding
    <2>2. ~IsPrefix(x, p)
      <3>1. Ends(t, x) /\ Kind(t, p) = "Leaf" /\ p \in DOMAIN t
        BY <1>16 DEF Doomed, Good, Shape
      <3> QED
        BY <3>1, <1>16 DEF Ends, IsStrictPrefix
    <2>3. u[x] = t[x]
      BY <2>1, <2>2, PrefixSelf DEF Unwinding, Kept
    <2>4. Kind(u, x) = "Digest"
      BY <2>3, <1>16 DEF Kind
    <2> QED
      BY <2>1, <2>4, <1>4
  <1>17. \A x \in DOMAIN t : x \in DOMAIN w \/ IsPrefix(x, p) \/ Orphan(t, p, x)
    BY <1>4 DEF Unwinding
  <1> QED
    BY <1>4, <1>7, <1>8, <1>9, <1>10, <1>11, <1>13, <1>14, <1>15, <1>16, <1>17 DEF Unwinding

(* One round on the way back to the root. *)
UnwindRound(t, p, n, u) ==
  LET q == SubSeq(p, 1, Len(p) - n)
  IN  CASE q \in DOMAIN t /\ Kind(t, q) = "Branch" -> Collapse(u, q)
        [] q \in DOMAIN t /\ Kind(t, q) = "Extension" -> Prepend(u, q, t[q].data.nibs)
        [] OTHER -> u

(* Without its last nibble. *)
LEMMA LastDropped ==
  ASSUME NEW q \in Positions, NEW j \in Nibbles, NEW p, Append(q, j) = p
  PROVE  q = SubSeq(p, 1, Len(p) - 1) /\ p # << >>
  BY AppendIs DEF Positions

(* The way back passes a branch. *)
LEMMA CollapseUnwinds ==
  ASSUME NEW t, NEW map, NEW key, NEW p, Doomed(t, map, key, p), NEW m \in Nat,
         NEW u, Unwinding(t, map, key, p, u, m), m <= Len(p),
         NEW q \in DOMAIN t, IsPrefix(q, p), m = Len(q) + 1, Kind(t, q) = "Branch"
  PROVE  Unwinding(t, map, key, p, Collapse(u, q), Len(q))
  <1>0. /\ IsTrie(t) /\ DOMAIN t \subseteq Positions /\ p \in Positions /\ q \in Positions
        /\ DOMAIN u \subseteq DOMAIN t \ {p} /\ IsTrie(u) /\ Len(q) \in Nat /\ Forked(t, q)
    BY Lengths DEF Doomed, Good, IsTrie, Unwinding, Shape
  <1>1. Len(q) < m
    BY <1>0
  <1>2. /\ q \in DOMAIN u /\ Joined(u, q)
        /\ \A i \in Children(t, q) : Append(q, i) # p => i \in Children(u, q)
    BY <1>1, StillJoined
  <1>3. CASE Forked(u, q)
    <2>1. PICK w : w = Put(u, q, Branch)
      OBVIOUS
    <2>2. Collapse(u, q) = w
      BY <2>1, <1>3 DEF Collapse, Forked
    <2>3. Unwinding(t, map, key, p, w, Len(q))
      BY <2>1, <1>3, UnwindBranch
    <2> QED
      BY <2>2, <2>3
  <1>4. CASE ~Forked(u, q)
    <2>1. Children(u, q) # {}
      <3>1. PICK i \in Children(t, q), j \in Children(t, q) : i # j
        BY <1>0 DEF Forked
      <3>2. i \in Nibbles /\ j \in Nibbles
        BY DEF Children
      <3>3. Append(q, i) # Append(q, j)
        <4>1. Append(q, i)[Len(q) + 1] = i /\ Append(q, j)[Len(q) + 1] = j
          BY <3>2, <1>0, AppendIs, Zenon
        <4> QED
          BY <4>1, <3>1, Zenon
      <3> QED
        BY <3>3, <1>2
    <2>2. PICK i : i = CHOOSE j \in Children(u, q) : TRUE
      OBVIOUS
    <2>3. i \in Children(u, q) /\ i \in Nibbles
      BY <2>1, <2>2 DEF Children
    <2>4. \A j \in Children(u, q) : j = i
      BY <2>3, <1>4 DEF Forked
    <2>5. PICK nibs \in Positions : nibs = <<i>>
      BY <2>3, <1>0, AppendIs
    <2>6. PICK c \in Positions : c = q \o nibs /\ c = Append(q, i) /\ Len(c) = Len(q) + 1 /\ IsPrefix(q, c)
      BY <2>3, <2>5, <1>0, AppendIs, Zenon
    <2>7. Collapse(u, q) = Prepend(u, q, nibs)
      BY <2>2, <2>5, <1>4 DEF Collapse, Forked
    <2>8. c \in DOMAIN u
      BY <2>3, <2>6 DEF Children
    <2>9. IsStrictPrefix(q, c)
      <3>1. Len(c) = Len(q) + 1 /\ IsPrefix(q, c)
        BY <2>6
      <3>2. Len(q) < Len(c)
        BY <3>1, <1>0
      <3> QED
        BY <3>1, <3>2, <1>0, StrictIs
    <2>10. ASSUME NEW x \in DOMAIN u, IsStrictPrefix(q, x)
           PROVE  IsPrefix(c, x)
      <3>1. x \in Positions /\ IsPrefix(q, x) /\ Len(q) < Len(x)
        BY <2>10, <1>0, StrictIs
      <3>2. PICK j \in Nibbles : j = x[Len(q) + 1]
        BY <3>1, <1>0, NextStem
      <3>3. SubSeq(x, 1, Len(q) + 1) = Append(q, j) /\ IsPrefix(SubSeq(x, 1, Len(q) + 1), x)
        BY <3>1, <3>2, <1>0, NextStem, Zenon
      <3>4. SubSeq(x, 1, Len(q) + 1) \in DOMAIN u
        BY <2>10, <1>2 DEF Joined
      <3>5. j \in Children(u, q)
        BY <3>2, <3>3, <3>4, Zenon DEF Children
      <3>6. j = i
        BY <3>5, <2>4
      <3> QED
        BY <3>3, <3>6, <2>6, Zenon
    <2>11. Leads(u, q, c)
      BY <2>8, <2>9, <2>10 DEF Leads
    <2>12. m <= Len(c)
      BY <2>6, <1>0
    <2>13. Shape(u, c)
      BY <2>8, <2>12, LowerShape
    <2>14. Absorbed(u, Prepend(u, q, nibs), q, c)
      BY <2>6, <2>11, <2>13, <1>0, <1>2, PrependIs
    <2>16. IsPrefix(c, p) \/ Orphan(t, p, c)
      <3> SUFFICES ASSUME ~IsPrefix(c, p)
                   PROVE  Orphan(t, p, c)
        OBVIOUS
      <3>1. p \in DOMAIN t /\ IsStrictPrefix(q, p) /\ Len(q) < Len(p) /\ Joined(t, q)
        BY <1>0, <1>1, StrictIs, Lengths DEF Doomed, Good, Shape
      <3>2. PICK j \in Nibbles : j = p[Len(q) + 1]
        BY <3>1, <1>0, NextStem
      <3>3. SubSeq(p, 1, Len(q) + 1) = Append(q, j) /\ IsPrefix(SubSeq(p, 1, Len(q) + 1), p)
        BY <3>1, <3>2, <1>0, NextStem, Zenon
      <3>4. SubSeq(p, 1, Len(q) + 1) \in DOMAIN t
        BY <3>1 DEF Joined
      <3>5. j \in Children(t, q)
        BY <3>2, <3>3, <3>4, Zenon DEF Children
      <3>6. j # i
        BY <3>3, <2>6, Zenon
      <3>7. Append(q, j) = p
        BY <3>5, <3>6, <2>4, <1>2
      <3>8. q = SubSeq(p, 1, Len(p) - 1) /\ p # << >>
        BY <3>7, <3>2, <1>0, LastDropped
      <3>9. i \in Children(t, q) /\ c # p
        <4>1. c \in DOMAIN t
          BY <2>8, <1>0
        <4> QED
          BY <4>1, <2>3, <2>6, <2>8, <1>0 DEF Children
      <3>10. \A k \in Children(t, q) : Append(q, k) # p => k = i
        BY <2>4, <1>2
      <3>11. {Append(q, k) : k \in Children(t, q)} \ {p} = {c}
        <4>1. \A x : x \in {Append(q, k) : k \in Children(t, q)} \ {p} => x = c
          BY <3>10, <2>6
        <4>2. c \in {Append(q, k) : k \in Children(t, q)} \ {p}
          BY <3>9, <2>6
        <4> QED
          BY <4>1, <4>2
      <3> QED
        BY <3>8, <3>11 DEF Orphan
    <2>15. Unwinding(t, map, key, p, Prepend(u, q, nibs), Len(q))
      BY <2>11, <2>14, <2>16, UnwindAbsorbed
    <2> QED
      BY <2>7, <2>15
  <1> QED
    BY <1>3, <1>4

(* The way back passes an extension. *)
LEMMA ExtensionUnwinds ==
  ASSUME NEW t, NEW map, NEW key, NEW p, Doomed(t, map, key, p), NEW m \in Nat,
         NEW u, Unwinding(t, map, key, p, u, m), m <= Len(p),
         NEW q \in DOMAIN t, IsPrefix(q, p), m = Len(q) + 1, Kind(t, q) = "Extension"
  PROVE  Unwinding(t, map, key, p, Prepend(u, q, t[q].data.nibs), Len(q))
  <1>0. /\ IsTrie(t) /\ DOMAIN t \subseteq Positions /\ p \in Positions /\ q \in Positions
        /\ DOMAIN u \subseteq DOMAIN t \ {p} /\ IsTrie(u) /\ Len(q) \in Nat
    BY Lengths DEF Doomed, Good, IsTrie, Unwinding
  <1>1. Len(q) < m
    BY <1>0
  <1>2. q \in DOMAIN u /\ Leads(u, q, End(t, q))
    BY <1>1, StillJoined
  <1>3. PICK nibs \in Positions : nibs = t[q].data.nibs
    BY <1>0, KindIs
  <1>4. PICK c : c = End(t, q) /\ c = q \o nibs
    BY <1>3, Zenon DEF End
  <1>5. Leads(u, q, c) /\ c \in DOMAIN u /\ c \in Positions
    BY <1>0, <1>2, <1>4 DEF Leads
  <1>6. m <= Len(c)
    <2>1. Len(q) < Len(c)
      BY <1>0, <1>5, StrictIs DEF Leads
    <2> QED
      BY <2>1, <1>0, <1>5, Lengths
  <1>7. Shape(u, c)
    BY <1>5, <1>6, LowerShape
  <1>8. Absorbed(u, Prepend(u, q, nibs), q, c)
    BY <1>0, <1>2, <1>4, <1>5, <1>7, PrependIs
  <1>10. IsPrefix(c, p)
    <2>1. p \in DOMAIN t /\ Leads(t, q, c)
      BY <1>4 DEF Doomed, Good, Shape
    <2>2. IsStrictPrefix(q, p)
      BY <1>0, StrictIs, Lengths
    <2> QED
      BY <2>1, <2>2 DEF Leads
  <1>9. Unwinding(t, map, key, p, Prepend(u, q, nibs), Len(q))
    BY <1>5, <1>8, <1>10, UnwindAbsorbed
  <1> QED
    BY <1>3, <1>9

(* One nibble of the way back. *)
LEMMA RoundUnwinds ==
  ASSUME NEW t, NEW map, NEW key, NEW p, Doomed(t, map, key, p), NEW n \in 1..Len(p),
         NEW u, Unwinding(t, map, key, p, u, Len(p) - n + 1)
  PROVE  Unwinding(t, map, key, p, UnwindRound(t, p, n, u), Len(p) - n)
  <1>0. /\ Good(t, map) /\ IsTrie(t) /\ DOMAIN t \subseteq Positions /\ p \in DOMAIN t /\ p \in Positions
        /\ Len(p) \in Nat /\ Kind(t, p) = "Leaf" /\ Ends(t, p)
    BY Lengths DEF Doomed, Good, IsTrie, Shape
  <1>1. PICK l \in 0..Len(p) : l = Len(p) - n /\ l < Len(p)
    BY <1>0, SMTT(30)
  <1>2. PICK q \in Positions : q = SubSeq(p, 1, l) /\ Len(q) = l /\ IsPrefix(q, p)
    BY <1>0, StemPrefix, Zenon
  <1>3. PICK m \in Nat : m = Len(p) - n + 1 /\ m = Len(q) + 1 /\ m <= Len(p)
    <2>1. Len(q) = l
      BY <1>2
    <2> QED
      BY <2>1, <1>0, <1>1
  <1>4. Unwinding(t, map, key, p, u, m)
    BY <1>3
  <1>5. PICK w : w = UnwindRound(t, p, n, u)
    OBVIOUS
  <1>6. w = CASE q \in DOMAIN t /\ Kind(t, q) = "Branch" -> Collapse(u, q)
              [] q \in DOMAIN t /\ Kind(t, q) = "Extension" -> Prepend(u, q, t[q].data.nibs)
              [] OTHER -> u
    <2>1. q = SubSeq(p, 1, Len(p) - n)
      BY <1>1, <1>2
    <2> QED
      BY ONLY <2>1, <1>5, Zenon DEF UnwindRound
  <1>7. CASE q \in DOMAIN t
    <2>1. Kind(t, q) \in {"Branch", "Extension"}
      <3>1. Len(q) < m
        BY <1>0, <1>1, <1>2, <1>3
      <3> QED
        BY <1>2, <1>3, <1>4, <1>7, <3>1, StillJoined
    <2>2. CASE Kind(t, q) = "Branch"
      <3>1. w = Collapse(u, q)
        BY <2>2, <1>6, <1>7
      <3>2. Unwinding(t, map, key, p, w, Len(q))
        BY <2>2, <3>1, <1>2, <1>3, <1>4, <1>7, CollapseUnwinds
      <3> QED
        BY <3>2, <1>1, <1>2, <1>5
    <2>3. CASE Kind(t, q) = "Extension"
      <3>1. w = Prepend(u, q, t[q].data.nibs)
        BY <2>3, <1>6, <1>7
      <3>2. Unwinding(t, map, key, p, w, Len(q))
        BY <2>3, <3>1, <1>2, <1>3, <1>4, <1>7, ExtensionUnwinds
      <3> QED
        BY <3>2, <1>1, <1>2, <1>5
    <2> QED
      BY <2>1, <2>2, <2>3
  <1>8. CASE q \notin DOMAIN t
    <2>1. w = u
      BY <1>6, <1>8
    <2>2. DOMAIN u \subseteq DOMAIN t /\ q \notin DOMAIN u
      BY <1>4, <1>8 DEF Unwinding
    <2>3. ASSUME NEW x \in DOMAIN u, IsPrefix(x, p), l <= Len(x)
          PROVE  m <= Len(x)
      <3>1. x \in Positions /\ Len(x) \in Nat
        BY <2>2, <1>0, Lengths
      <3>2. Len(q) # Len(x)
        <4>1. SUFFICES ASSUME Len(q) = Len(x)
                       PROVE  x = q
          BY <2>2
        <4>2. Len(x) <= Len(q) /\ Len(q) <= Len(x)
          BY <4>1, <3>1
        <4>3. IsPrefix(x, q)
          BY <4>2, <3>1, <2>3, <1>0, <1>2, PrefixesOfOne
        <4> QED
          BY <4>2, <4>3, <3>1, PrefixSame
      <3>3. Len(q) = l /\ m = Len(q) + 1
        BY <1>2, <1>3
      <3> QED
        BY <3>1, <3>2, <3>3, <2>3, <1>1, <1>0
    <2>4. ASSUME NEW x \in DOMAIN t, IsPrefix(x, p), Len(x) < l
          PROVE  Len(x) < m
      <3>1. Len(x) \in Nat
        BY <1>0, Lengths
      <3>2. m = l + 1
        BY <1>2, <1>3
      <3> QED
        BY <3>1, <3>2, <2>4, <1>1, <1>0
    <2>5. \A r \in DOMAIN u : m <= Len(r) => l <= Len(r)
      <3>1. \A r \in DOMAIN u : Len(r) \in Nat
        BY <2>2, <1>0, Lengths
      <3>2. m = l + 1 /\ l \in Nat
        BY <1>0, <1>1, <1>2, <1>3
      <3> QED
        BY <3>1, <3>2
    <2>6. Unwinding(t, map, key, p, u, l)
      BY <2>3, <2>4, <2>5, <1>4 DEF Unwinding
    <2> QED
      BY <2>1, <2>6, <1>1, <1>5
  <1> QED
    BY <1>7, <1>8

(* The rounds of Unwound. *)
LEMMA UnwoundRounds ==
  ASSUME NEW t, NEW p, Len(p) \in Nat
  PROVE  \E g : /\ g[0] = Without(t, p)
                /\ \A n \in 1..Len(p) : g[n] = UnwindRound(t, p, n, g[n - 1])
                /\ Unwound(t, p) = g[Len(p)]
  <1> DEFINE N == Len(p)
             At(f, n) == IF n = 0 THEN Without(t, p) ELSE UnwindRound(t, p, n, f[n - 1])
             Def(f, m) == f = [n \in 0..m |-> At(f, n)]
             S == {m \in 0..N : \E f : Def(f, m)}
             g == CHOOSE f : Def(f, N)
  <1>1. 0 \in S
    <2> DEFINE f == [n \in 0..0 |-> Without(t, p)]
    <2>1. Def(f, 0)
      OBVIOUS
    <2>2. \E x : Def(x, 0)
      BY <2>1, Zenon
    <2> HIDE DEF Def
    <2> QED
      BY <2>2
  <1>2. ASSUME NEW m \in 0..(N - 1), m \in S
        PROVE  m + 1 \in S
    <2>1. PICK f : Def(f, m)
      BY <1>2
    <2> DEFINE h == [n \in 0..(m + 1) |-> IF n = m + 1 THEN At(f, n) ELSE f[n]]
    <2>2. ASSUME NEW n \in 0..(m + 1)
          PROVE  h[n] = At(h, n)
      <3>1. CASE n = m + 1
        <4>1. n - 1 \in 0..(m + 1) /\ n - 1 # m + 1 /\ h[n - 1] = f[n - 1]
          BY <3>1
        <4> QED
          BY <3>1, <4>1
      <3>2. CASE n # m + 1
        <4>1. n \in 0..m /\ h[n] = f[n]
          BY <3>2
        <4>2. f[n] = At(f, n)
          BY <4>1, <2>1
        <4>3. n # 0 => n - 1 \in 0..(m + 1) /\ n - 1 # m + 1 /\ h[n - 1] = f[n - 1]
          BY <4>1
        <4> QED
          BY <4>1, <4>2, <4>3
      <3> QED
        BY <3>1, <3>2
    <2>3. Def(h, m + 1)
      <3>1. h = [n \in 0..(m + 1) |-> h[n]]
        OBVIOUS
      <3> HIDE DEF h, At
      <3> QED
        BY <3>1, <2>2
    <2>4. \E x : Def(x, m + 1)
      BY <2>3, Zenon
    <2>5. m + 1 \in 0..N
      BY <1>2
    <2> HIDE DEF Def
    <2> QED
      BY <2>4, <2>5
  <1>3. N \in S
    <2> HIDE DEF S
    <2>1. 0..N \subseteq S
      BY <1>1, <1>2, InductionUpTo
    <2> QED
      BY <2>1
  <1>4. \E f : Def(f, N)
    <2> HIDE DEF Def
    <2> QED
      BY <1>3
  <1>5. Def(g, N)
    BY <1>4, Zenon
  <1>6. Unwound(t, p) = g[N]
    BY Zenon DEF Unwound, UnwindRound
  <1> HIDE DEF g
  <1>7. g[0] = Without(t, p) /\ \A n \in 1..N : g[n] = UnwindRound(t, p, n, g[n - 1])
    BY <1>5
  <1> QED
    BY <1>6, <1>7, Zenon

(* The way back ends at the root. *)
LEMMA UnwoundIs ==
  ASSUME NEW t, NEW map, NEW key, NEW p, Doomed(t, map, key, p)
  PROVE  Unwinding(t, map, key, p, Unwound(t, p), 0)
  <1>0. Len(p) \in Nat
    BY Lengths DEF Doomed, Good, IsTrie
  <1>1. PICK g : /\ g[0] = Without(t, p)
                 /\ \A n \in 1..Len(p) : g[n] = UnwindRound(t, p, n, g[n - 1])
                 /\ Unwound(t, p) = g[Len(p)]
    BY <1>0, UnwoundRounds
  <1> DEFINE S == {n \in 0..Len(p) : Unwinding(t, map, key, p, g[n], Len(p) - n)}
  <1>2. 0 \in S
    <2>1. Len(p) - 0 = Len(p) /\ 0 \in 0..Len(p)
      BY <1>0
    <2> QED
      BY <2>1, <1>1, UnwindingStarts
  <1>3. ASSUME NEW n \in 0..(Len(p) - 1), n \in S
        PROVE  n + 1 \in S
    <2>1. PICK k \in 1..Len(p) : k = n + 1 /\ k - 1 = n /\ Len(p) - n = Len(p) - k + 1
      BY <1>0
    <2>2. Unwinding(t, map, key, p, g[n], Len(p) - n)
      BY <1>3
    <2>3. Unwinding(t, map, key, p, g[n], Len(p) - k + 1)
      BY <2>1, <2>2
    <2>4. Unwinding(t, map, key, p, UnwindRound(t, p, k, g[n]), Len(p) - k)
      BY <2>3, RoundUnwinds
    <2>5. g[k] = UnwindRound(t, p, k, g[n])
      BY <2>1, <1>1
    <2>6. Unwinding(t, map, key, p, g[k], Len(p) - k) /\ k \in 0..Len(p)
      BY <2>4, <2>5, <1>0
    <2> QED
      BY <2>1, <2>6
  <1>4. 0..Len(p) \subseteq S
    <2> HIDE DEF S
    <2> QED
      BY <1>0, <1>2, <1>3, InductionUpTo
  <1>5. Unwinding(t, map, key, p, g[Len(p)], Len(p) - Len(p))
    BY <1>0, <1>4
  <1>6. Len(p) - Len(p) = 0
    BY <1>0
  <1> QED
    BY <1>1, <1>5, <1>6

(* When the root is reached, the trie is good for the map without the key. *)
LEMMA UnwoundGood ==
  ASSUME NEW t, NEW map, NEW new, NEW key, NEW p, Doomed(t, map, key, p), UpdatedTo(map, new, key, NoValue),
         NEW u, Unwinding(t, map, key, p, u, 0)
  PROVE  /\ Good(u, new)
         /\ DigestsKept(t, u)
         /\ CachesFrom(t, u)
  <1>0. /\ Good(t, map) /\ IsTrie(t) /\ DOMAIN t \subseteq Positions /\ p \in DOMAIN t /\ p \in Positions
        /\ Ends(t, p) /\ key \in Keys /\ IsTrie(u) /\ DOMAIN u \subseteq DOMAIN t /\ DOMAIN u \subseteq DOMAIN t \ {p}
        /\ DOMAIN u \subseteq Positions
    BY DEF Doomed, Good, IsTrie, Shape, Unwinding
  <1>1. ASSUME NEW q \in DOMAIN u, IsPrefix(q, p)
        PROVE  Shape(u, q) /\ u[q].cached_reference = NoReference /\ Kind(u, q) # "Digest"
    <2>1. 0 <= Len(q)
      BY <1>0, Lengths
    <2> QED
      BY <2>1, <1>1 DEF Unwinding
  <1>2. ASSUME NEW q \in DOMAIN u, ~IsPrefix(q, p)
        PROVE  Kept(t, u, q) /\ Shape(u, q) /\ u[q] = t[q]
    <2>1. Kept(t, u, q)
      BY <1>2 DEF Unwinding
    <2>2. Shape(t, q) /\ q \in Positions
      BY <1>0 DEF Good
    <2>3. Shape(u, q)
      BY <2>1, <2>2, <1>0, KeptShape
    <2>4. u[q] = t[q]
      BY <2>1, <2>2, <1>0, PrefixSelf DEF Kept
    <2> QED
      BY <2>1, <2>3, <2>4
  <1>3. Rooted(u)
    <2>1. CASE p = << >>
      <3>1. \A q \in DOMAIN t : q = << >>
        BY <2>1, <1>0, PrefixEmpty DEF Ends, IsStrictPrefix
      <3>2. DOMAIN u = {}
        BY <2>1, <3>1, <1>0
      <3> QED
        BY <3>2 DEF Rooted
    <2>2. CASE p # << >>
      BY <2>2 DEF Rooted, Unwinding
    <2> QED
      BY <2>1, <2>2
  <1>4. Bounded(u)
    BY <1>0 DEF Good, Bounded
  <1>5. LeavesIn(u, new)
    <2>1. ASSUME NEW q \in DOMAIN u, Kind(u, q) = "Leaf"
          PROVE  End(u, q) \in Keys /\ new[End(u, q)] = u[q].data.value
      <3>1. End(u, q) \in Keys /\ map[End(u, q)] = u[q].data.value
        BY <2>1 DEF Unwinding, LeavesIn
      <3>2. End(u, q) # key
        BY <2>1 DEF Unwinding, HasLeaf
      <3> QED
        BY <3>1, <3>2 DEF UpdatedTo
    <2> QED
      BY <2>1 DEF LeavesIn
  <1>6. Good(u, new)
    BY <1>0, <1>1, <1>2, <1>3, <1>4, <1>5 DEF Good
  <1>7. CachesFrom(t, u)
    BY <1>1, <1>2 DEF CachesFrom
  <1>8. ASSUME NEW q \in DOMAIN t, Kind(t, q) = "Digest"
        PROVE  q \in DOMAIN u /\ Kind(u, q) = "Digest"
    <2>1. Ends(t, q) /\ Kind(t, p) = "Leaf"
      BY <1>8 DEF Doomed, Good, Shape
    <2>2. q \in DOMAIN u /\ ~IsPrefix(q, p)
      BY <2>1, <1>0, <1>8 DEF Unwinding, Ends, IsStrictPrefix
    <2> QED
      BY <2>2, <1>2, <1>8 DEF Kind
  <1>9. DigestsKept(t, u)
    BY <1>0, <1>1, <1>2, <1>8 DEF DigestsKept, Kind
  <1> QED
    BY <1>6, <1>7, <1>9

(***************************************************************************)
(* delete, whatever the trie: the trie is good for the updated map and the *)
(* answer is true.                                                         *)
(***************************************************************************)
LEMMA DeleteDone ==
  ASSUME NEW t, NEW map, NEW new, Good(t, map), NEW key \in Keys,
         UpdatedTo(map, new, key, NoValue)
  PROVE  Done(t, map, new, key, NoValue, Delete(t, key))
  <1>0. key \in Positions /\ IsTrie(t) /\ DOMAIN t \subseteq Positions
    BY KeysLength DEF Good, IsTrie
  (* Nothing happens to a trie without the key. *)
  <1>1. ASSUME ~HasLeaf(t, key), Open(t, key)
        PROVE  Done(t, map, new, key, NoValue, Same(t))
    <2>1. \A p \in DOMAIN t : Kind(t, p) = "Leaf" => End(t, p) # key
      BY <1>1 DEF HasLeaf
    <2>2. Good(t, new)
      BY <2>1 DEF Good, LeavesIn, UpdatedTo
    <2>4. Sure(t, map, key) => map[key] = NoValue
      BY <1>1 DEF Sure
    <2>5. Sure(t, new, key)
      BY <1>1 DEF Sure, UpdatedTo
    <2>6. \A k \in Keys : k # key /\ Sure(t, map, k) => Sure(t, new, k)
      BY DEF Sure, UpdatedTo
    <2> QED
      BY <2>2, <2>4, <2>5, <2>6, SameIs DEF Done
  <1>2. CASE DOMAIN t = {}
    <2>1. Delete(t, key) = Same(t)
      BY <1>0, <1>2, NullIs DEF Delete
    <2>2. ~HasLeaf(t, key) /\ Open(t, key)
      BY <1>2 DEF HasLeaf, Open
    <2> QED
      BY <2>1, <2>2, <1>1
  <1>3. CASE DOMAIN t # {}
    <2>1. PICK p : p = Deepest(t, key)
      OBVIOUS
    <2>2. DeepestAt(t, key, p) /\ p \in DOMAIN t /\ p \in Positions /\ IsPrefix(p, key)
      BY <2>1, <1>0, <1>3, DeepestIs DEF DeepestAt
    <2>3. Delete(t, key) = DeleteAt(t, p, key)
      <3>1. t # Null
        BY <1>0, <1>3, NullIs
      <3> QED
        BY <3>1, <2>1 DEF Delete
    <2>4. PICK rest \in Positions : rest = Drop(key, Len(p)) /\ Len(rest) = Len(key) - Len(p)
      BY <2>2, <1>0, PrefixRest, Zenon
    <2>5. HasLeaf(t, key) <=> Kind(t, p) = "Leaf" /\ t[p].data.nibs = rest
      BY <2>2, <2>4, LeafAtEnd
    <2>6. CASE HasLeaf(t, key)
      <3>1. Kind(t, p) = "Leaf" /\ t[p].data.nibs = rest /\ End(t, p) = key
        BY <2>2, <2>5, <2>6, LeafAtEnd
      <3>2. Delete(t, key) = Changed(Unwound(t, p))
        BY <2>3, <2>4, <3>1 DEF DeleteAt
      <3>3. Doomed(t, map, key, p)
        BY <2>2, <3>1 DEF Doomed
      <3>4. PICK u : u = Unwound(t, p)
        OBVIOUS
      <3>5. Unwinding(t, map, key, p, u, 0)
        BY <3>3, <3>4, UnwoundIs
      <3>6. /\ Good(u, new)
            /\ DigestsKept(t, u)
            /\ CachesFrom(t, u)
        BY <3>3, <3>5, UnwoundGood
      <3>7. map[key] # NoValue
        <4>1. map[key] = t[p].data.value /\ t[p].data.value # NoValue
          BY <2>2, <2>6, <3>1, <1>0, LeafAtEnd, KindIs
        <4> QED
          BY <4>1
      <3>8. /\ Open(t, key) => Open(u, key)
            /\ \A k \in Keys : k # key /\ Sure(t, map, k) => Sure(u, new, k)
        BY <3>5, <3>6, StaysSure DEF Unwinding
      <3>9. Sure(u, new, key)
        BY <2>6, <3>8, LeafOpen DEF Sure, UpdatedTo
      <3> QED
        BY <3>2, <3>4, <3>6, <3>7, <3>8, <3>9, ChangedIs DEF Done
    <2>7. CASE ~HasLeaf(t, key) /\ Kind(t, p) = "Digest"
      <3>1. Delete(t, key) = Failed("NodeNotResolved", t)
        BY <2>3, <2>7 DEF DeleteAt
      <3>2. ~Open(t, key)
        BY <2>2, <2>7 DEF Open
      <3> QED
        BY <3>1, <3>2, FailedIs DEF Done
    <2>8. CASE ~HasLeaf(t, key) /\ Kind(t, p) # "Digest"
      <3>1. Kind(t, p) = "Branch" => rest # << >>
        <4>1. SUFFICES ASSUME Kind(t, p) = "Branch"
                       PROVE  rest # << >>
          OBVIOUS
        <4>2. PICK i \in Nibbles : Append(p, i) \in DOMAIN t
          BY <4>1, <2>2 DEF Good, Shape, Forked, Children
        <4>3. PICK c \in DOMAIN t : c = Append(p, i)
          BY <4>2
        <4>4. Len(c) = Len(p) + 1
          BY <4>3, <2>2, AppendIs, Zenon
        <4>5. Len(c) <= KeyLength /\ KeyLength \in Nat /\ Len(key) = KeyLength
          BY KeysLength DEF Good, Bounded
        <4>6. Len(rest) # 0
          <5>1. Len(rest) = Len(key) - Len(p) /\ Len(p) \in Nat
            BY <2>2, <2>4, Lengths
          <5> QED
            BY <4>4, <4>5, <5>1
        <4> QED
          BY <4>6, EmptyPosition
      <3>2. Delete(t, key) = Same(t)
        <4>1. ~(Kind(t, p) = "Branch" /\ rest = << >>) /\ ~(Kind(t, p) = "Leaf" /\ t[p].data.nibs = rest)
          BY <2>5, <2>8, <3>1
        <4> QED
          BY <2>3, <2>4, <2>8, <4>1 DEF DeleteAt
      <3>3. Open(t, key)
        BY <2>2, <2>8, DeepestOpen
      <3> QED
        BY <2>8, <3>2, <3>3, <1>1
    <2> QED
      BY <2>6, <2>7, <2>8
  <1> QED
    BY <1>2, <1>3

-----------------------------------------------------------------------------
(* A whole trie is the trie of its map.  keys are the keys that have a value. *)
Settled(t, map, keys) ==
  /\ Good(t, map)
  /\ Whole(t, map)
  /\ DOMAIN map = Keys
  /\ keys = {k \in Keys : map[k] # NoValue}

(* The leaf of a key. *)
LEMMA LeafOf ==
  ASSUME NEW t, NEW map, NEW keys, Settled(t, map, keys), NEW k \in keys
  PROVE  /\ k \in Keys /\ k \in Positions
         /\ \E x \in DOMAIN t : x \in Positions /\ Kind(t, x) = "Leaf" /\ End(t, x) = k /\ IsPrefix(x, k) /\ Ends(t, x)
  <1>1. k \in Keys /\ k \in Positions /\ HasLeaf(t, k)
    BY KeysLength DEF Settled, Whole
  <1>2. PICK x \in DOMAIN t : Kind(t, x) = "Leaf" /\ End(t, x) = k
    BY <1>1 DEF HasLeaf
  <1>3. x \in Positions /\ IsPrefix(x, k) /\ Ends(t, x)
    BY <1>2, KindIs DEF Settled, Good, Shape
  <1> QED
    BY <1>1, <1>2, <1>3

(* A node on the way to a key is above its leaf or is that leaf. *)
LEMMA WayToLeaf ==
  ASSUME NEW t, NEW map, NEW keys, Settled(t, map, keys), NEW q \in DOMAIN t, NEW k, IsPrefix(q, k),
         k \in Positions, NEW x \in DOMAIN t, x \in Positions, Kind(t, x) = "Leaf", IsPrefix(x, k), Ends(t, x)
  PROVE  IsPrefix(q, x) /\ (Kind(t, q) # "Leaf" => IsStrictPrefix(q, x)) /\ (Ends(t, q) => q = x)
  <1>1. q \in Positions
    BY DEF Settled, Good, IsTrie
  <1>2. IsPrefix(q, x) \/ IsPrefix(x, q)
    BY <1>1, PrefixesOfOne, Lengths
  <1>3. IsPrefix(q, x)
    BY <1>1, <1>2, PrefixSelf DEF Ends, IsStrictPrefix
  <1> QED
    BY <1>3 DEF Ends, IsStrictPrefix

(* Below every node there is a key. *)
LEMMA KeyBelow ==
  ASSUME NEW t, NEW map, NEW keys, Settled(t, map, keys), NEW q \in DOMAIN t
  PROVE  \E k \in keys : k \in Positions /\ IsPrefix(q, k)
  <1>0. IsTrie(t) /\ DOMAIN t \subseteq Positions /\ q \in Positions /\ NoDigest(t) /\ KeyLength \in Nat
    BY KeysLength DEF Settled, Good, IsTrie, Whole
  <1>1. PICK S \in SUBSET Positions : S = {x \in DOMAIN t : IsPrefix(q, x)}
    BY <1>0
  <1>2. S # {} /\ \A x \in S : Len(x) <= KeyLength
    BY <1>0, <1>1, PrefixSelf DEF Settled, Good, Bounded
  <1>3. PICK x \in S : \A y \in S : Len(y) <= Len(x)
    BY <1>0, <1>1, <1>2, LongestOne
  <1>4. x \in DOMAIN t /\ x \in Positions /\ IsPrefix(q, x) /\ Shape(t, x) /\ Len(x) \in Nat
    BY <1>0, <1>1, <1>3, Lengths DEF Settled, Good
  <1>5. ASSUME NEW y \in DOMAIN t, IsPrefix(x, y), Len(x) < Len(y)
        PROVE  FALSE
    <2>1. y \in S
      BY <1>0, <1>1, <1>4, <1>5, PrefixTrans
    <2> QED
      BY <2>1, <1>0, <1>3, <1>4, <1>5, Lengths
  <1>6. Kind(t, x) # "Branch"
    <2>1. SUFFICES ASSUME Kind(t, x) = "Branch"
                   PROVE  FALSE
      OBVIOUS
    <2>2. PICK i \in Nibbles : Append(x, i) \in DOMAIN t
      BY <2>1, <1>4 DEF Shape, Forked, Children
    <2>3. PICK y \in DOMAIN t : y = Append(x, i)
      BY <2>2
    <2>4. IsPrefix(x, y) /\ Len(y) = Len(x) + 1
      BY <2>3, <1>4, AppendIs, Zenon
    <2>5. Len(x) < Len(y)
      BY <2>4, <1>4
    <2> QED
      BY <2>4, <2>5, <1>5
  <1>7. Kind(t, x) # "Extension"
    BY <1>0, <1>4, <1>5, StrictIs DEF Shape, Leads
  <1>8. Kind(t, x) = "Leaf"
    BY <1>0, <1>4, <1>6, <1>7, KindIs DEF NoDigest
  <1>9. PICK k : k = End(t, x)
    OBVIOUS
  <1>10. k \in Keys /\ map[k] = t[x].data.value /\ t[x].data.value # NoValue /\ IsPrefix(x, k)
    BY <1>0, <1>4, <1>8, <1>9, KindIs DEF Settled, Good, LeavesIn
  <1>11. k \in keys /\ k \in Positions
    BY <1>10, KeysLength DEF Settled
  <1> QED
    BY <1>0, <1>4, <1>10, <1>11, PrefixTrans

(* The stems of the keys. *)
LEMMA StemsAre ==
  ASSUME NEW keys, keys \subseteq Positions
  PROVE  \A p : p \in Stems(keys) <=> p \in Positions /\ \E k \in keys : IsPrefix(p, k)
  <1>1. ASSUME NEW p, NEW k \in keys, p \in Prefixes(k)
        PROVE  p \in Positions /\ IsPrefix(p, k)
    <2>1. PICK l \in 0..Len(k) : p = SubSeq(k, 1, l)
      BY <1>1 DEF Prefixes
    <2> QED
      BY <2>1, StemPrefix, Zenon
  <1>2. ASSUME NEW p \in Positions, NEW k \in keys, IsPrefix(p, k)
        PROVE  p \in Prefixes(k)
    <2>1. SubSeq(k, 1, Len(p)) = p /\ Len(p) \in 0..Len(k)
      BY <1>2, StemOfPrefix, PrefixLength, Lengths
    <2> QED
      BY <2>1, Zenon DEF Prefixes
  <1>3. \A p : p \in Stems(keys) <=> \E k \in keys : p \in Prefixes(k)
    BY DEF Stems
  <1> QED
    BY <1>1, <1>2, <1>3

(* Two keys part at p. *)
Part(keys, p) ==
  \E k, l \in keys : IsStrictPrefix(p, k) /\ IsStrictPrefix(p, l) /\ k[Len(p) + 1] # l[Len(p) + 1]

(* Forks are the positions at which two keys part. *)
LEMMA ForksAre ==
  ASSUME NEW keys, keys \subseteq Positions
  PROVE  \A p : p \in Forks(keys) <=> p \in Positions /\ Part(keys, p)
  <1>1. \A p : p \in Forks(keys) <=> p \in Stems(keys) /\ Part(keys, p)
    BY DEF Forks, Part
  <1>2. \A p : Part(keys, p) => \E k \in keys : IsPrefix(p, k)
    BY DEF Part, IsStrictPrefix
  <1> QED
    BY <1>1, <1>2, StemsAre

(* Two keys part at every branch. *)
LEMMA BranchParts ==
  ASSUME NEW t, NEW map, NEW keys, Settled(t, map, keys), NEW q \in DOMAIN t, Kind(t, q) = "Branch"
  PROVE  Part(keys, q)
  <1>0. IsTrie(t) /\ DOMAIN t \subseteq Positions /\ q \in Positions
    BY DEF Settled, Good, IsTrie
  <1>1. PICK i \in Children(t, q), j \in Children(t, q) : i # j
    BY DEF Settled, Good, Shape, Forked
  <1>2. ASSUME NEW n \in Children(t, q)
        PROVE  \E k \in keys : IsStrictPrefix(q, k) /\ k[Len(q) + 1] = n
    <2>1. n \in Nibbles
      BY DEF Children
    <2>2. PICK c \in DOMAIN t : c = Append(q, n)
      BY DEF Children
    <2>3. PICK k \in keys : k \in Positions /\ IsPrefix(c, k)
      BY KeyBelow
    <2>4. IsPrefix(q, k) /\ Len(q) < Len(k) /\ k[Len(q) + 1] = n
      BY <2>1, <2>2, <2>3, <1>0, ChildPrefix, Zenon
    <2> QED
      BY <2>3, <2>4, <1>0, StrictIs
  <1>3. PICK k \in keys : IsStrictPrefix(q, k) /\ k[Len(q) + 1] = i
    BY <1>2
  <1>4. PICK l \in keys : IsStrictPrefix(q, l) /\ l[Len(q) + 1] = j
    BY <1>2
  <1> QED
    BY <1>1, <1>3, <1>4 DEF Part

(* There is a branch where two keys part. *)
LEMMA PartIsBranch ==
  ASSUME NEW t, NEW map, NEW keys, Settled(t, map, keys), NEW f \in Positions, Part(keys, f)
  PROVE  f \in DOMAIN t /\ Kind(t, f) = "Branch"
  <1>0. IsTrie(t) /\ DOMAIN t \subseteq Positions /\ NoDigest(t) /\ KeyLength \in Nat /\ Len(f) \in Nat
    BY KeysLength, Lengths DEF Settled, Good, IsTrie, Whole
  <1>1. PICK k \in keys, l \in keys : IsStrictPrefix(f, k) /\ IsStrictPrefix(f, l) /\ k[Len(f) + 1] # l[Len(f) + 1]
    BY DEF Part
  <1>2. k \in Positions /\ l \in Positions
    BY LeafOf
  <1>3. IsPrefix(f, k) /\ IsPrefix(f, l) /\ Len(f) < Len(k) /\ Len(f) < Len(l)
    BY <1>1, <1>2, StrictIs
  <1>4. PICK a \in DOMAIN t : a \in Positions /\ Kind(t, a) = "Leaf" /\ End(t, a) = k /\ IsPrefix(a, k) /\ Ends(t, a)
    BY LeafOf
  <1>5. PICK b \in DOMAIN t : b \in Positions /\ Kind(t, b) = "Leaf" /\ End(t, b) = l /\ IsPrefix(b, l) /\ Ends(t, b)
    BY LeafOf
  <1>6. PICK S \in SUBSET Positions : S = {x \in DOMAIN t : IsPrefix(x, f)}
    BY <1>0
  <1>7. S # {} /\ \A x \in S : Len(x) <= Len(f)
    <2>1. << >> \in DOMAIN t
      BY <1>4 DEF Settled, Good, Rooted
    <2> QED
      BY <2>1, <1>6, PrefixEmpty, PrefixLength
  <1>8. PICK x \in S : \A y \in S : Len(y) <= Len(x)
    BY <1>0, <1>6, <1>7, LongestOne
  <1>9. /\ x \in DOMAIN t /\ x \in Positions /\ IsPrefix(x, f) /\ Shape(t, x) /\ Len(x) \in Nat
        /\ IsPrefix(x, k) /\ IsPrefix(x, l)
    BY <1>0, <1>2, <1>3, <1>6, <1>8, Lengths, PrefixTrans DEF Settled, Good
  <1>10. ASSUME NEW y \in DOMAIN t, IsStrictPrefix(x, y), IsPrefix(y, f)
         PROVE  FALSE
    <2>1. y \in S /\ y \in Positions
      BY <1>0, <1>6, <1>10
    <2>2. Len(x) < Len(y)
      BY <2>1, <1>9, <1>10, StrictIs
    <2> QED
      BY <2>1, <2>2, <1>8, <1>9, Lengths
  <1>11. Kind(t, x) # "Leaf"
    <2>1. SUFFICES ASSUME Kind(t, x) = "Leaf"
                   PROVE  FALSE
      OBVIOUS
    <2>2. Ends(t, x)
      BY <2>1, <1>9 DEF Shape
    <2>3. x = a
      BY <2>2, <1>2, <1>4, <1>9, WayToLeaf
    <2>4. x = b
      BY <2>2, <1>2, <1>5, <1>9, WayToLeaf
    <2> QED
      BY <2>3, <2>4, <1>1, <1>4, <1>5
  <1>12. IsStrictPrefix(x, a) /\ IsStrictPrefix(x, b)
    <2>1. IsStrictPrefix(x, a)
      BY <1>2, <1>4, <1>9, <1>11, WayToLeaf
    <2>2. IsStrictPrefix(x, b)
      BY <1>2, <1>5, <1>9, <1>11, WayToLeaf
    <2> QED
      BY <2>1, <2>2
  <1>13. Kind(t, x) # "Extension"
    <2>1. SUFFICES ASSUME Kind(t, x) = "Extension"
                   PROVE  FALSE
      OBVIOUS
    <2>2. PICK e \in DOMAIN t : e = End(t, x) /\ Leads(t, x, e)
      BY <2>1, <1>9 DEF Shape, Leads
    <2>3. e \in Positions /\ IsStrictPrefix(x, e) /\ IsPrefix(e, a) /\ IsPrefix(e, b)
      BY <2>2, <1>0, <1>4, <1>5, <1>12 DEF Leads
    <2>4. IsPrefix(e, k) /\ IsPrefix(e, l)
      BY <2>3, <1>2, <1>4, <1>5, PrefixTrans
    <2>5. CASE Len(e) <= Len(f)
      <3>1. IsPrefix(e, f)
        BY <2>3, <2>4, <2>5, <1>2, <1>3, PrefixesOfOne
      <3> QED
        BY <3>1, <2>3, <1>10
    <2>6. CASE Len(f) < Len(e)
      <3>1. Len(f) + 1 \in 1..Len(e)
        BY <2>3, <2>6, <1>0, Lengths
      <3>2. e[Len(f) + 1] = k[Len(f) + 1]
        BY <3>1, <2>3, <2>4, <1>2, PrefixIs
      <3>3. e[Len(f) + 1] = l[Len(f) + 1]
        BY <3>1, <2>3, <2>4, <1>2, PrefixIs
      <3> QED
        BY <3>2, <3>3, <1>1
    <2> QED
      BY <2>3, <2>5, <2>6, <1>0, Lengths
  <1>14. Kind(t, x) = "Branch"
    BY <1>0, <1>9, <1>11, <1>13, KindIs DEF NoDigest
  <1>15. x = f
    <2>1. SUFFICES ASSUME x # f
                   PROVE  FALSE
      OBVIOUS
    <2>2. IsPrefix(x, a) /\ Len(x) < Len(a) /\ Len(x) < Len(f)
      BY <2>1, <1>4, <1>9, <1>12, StrictIs DEF IsStrictPrefix
    <2>3. PICK c \in Positions : /\ c = SubSeq(a, 1, Len(x) + 1) /\ Len(c) = Len(x) + 1
                                 /\ IsPrefix(x, c) /\ IsPrefix(c, a)
      BY <2>2, <1>4, <1>9, NextStem, Zenon
    <2>4. c \in DOMAIN t
      BY <2>3, <1>4, <1>9, <1>12, <1>14 DEF Shape, Joined
    <2>5. Len(c) <= Len(f) /\ Len(x) < Len(c)
      <3>1. Len(c) = Len(x) + 1
        BY <2>3
      <3> QED
        BY <2>2, <3>1, <1>0, <1>9
    <2>6. IsPrefix(c, k)
      BY <2>3, <1>2, <1>4, PrefixTrans
    <2>7. IsPrefix(c, f) /\ IsStrictPrefix(x, c)
      BY <2>3, <2>5, <2>6, <1>2, <1>3, <1>9, PrefixesOfOne, StrictIs
    <2> QED
      BY <2>4, <2>7, <1>10
  <1> QED
    BY <1>9, <1>14, <1>15

(* The keys of a settled trie are positions, and a settled trie has its forks at its branches. *)
LEMMA SettledKeys ==
  ASSUME NEW t, NEW map, NEW keys, Settled(t, map, keys)
  PROVE  /\ keys \subseteq Positions
         /\ IsTrie(t) /\ DOMAIN t \subseteq Positions /\ NoDigest(t) /\ Rooted(t)
         /\ \A q \in DOMAIN t : Shape(t, q) /\ Kind(t, q) # "Digest"
         /\ \A f : f \in Forks(keys) <=> f \in DOMAIN t /\ Kind(t, f) = "Branch"
  <1>1. keys \subseteq Positions
    BY LeafOf
  <1>2. IsTrie(t) /\ DOMAIN t \subseteq Positions /\ NoDigest(t) /\ Rooted(t)
    BY DEF Settled, Good, Whole, IsTrie
  <1>3. \A q \in DOMAIN t : Shape(t, q) /\ Kind(t, q) # "Digest"
    BY <1>2 DEF Settled, Good, NoDigest
  <1>4. \A f : f \in Forks(keys) <=> f \in Positions /\ Part(keys, f)
    BY <1>1, ForksAre
  <1>5. \A f : f \in Forks(keys) <=> f \in DOMAIN t /\ Kind(t, f) = "Branch"
    BY <1>2, <1>4, BranchParts, PartIsBranch
  <1> QED
    BY <1>1, <1>2, <1>3, <1>5

(* A place where the trie of some keys has a node. *)
Place(keys, p) ==
  /\ p \in Stems(keys)
  /\ p \in Forks(keys) \/ p = << >> \/ SubSeq(p, 1, Len(p) - 1) \in Forks(keys)

(* Every node is in such a place. *)
LEMMA NodeHasPlace ==
  ASSUME NEW t, NEW map, NEW keys, Settled(t, map, keys), NEW q \in DOMAIN t
  PROVE  Place(keys, q)
  <1>0. /\ keys \subseteq Positions /\ IsTrie(t) /\ DOMAIN t \subseteq Positions /\ Rooted(t)
        /\ \A y \in DOMAIN t : Shape(t, y) /\ Kind(t, y) # "Digest"
        /\ \A f : f \in Forks(keys) <=> f \in DOMAIN t /\ Kind(t, f) = "Branch"
    BY SettledKeys
  <1>1. q \in Positions /\ Len(q) \in Nat
    BY <1>0, Lengths
  <1>2. q \in Stems(keys)
    BY <1>0, <1>1, KeyBelow, StemsAre
  <1>3. CASE q = << >>
    BY <1>2, <1>3 DEF Place
  <1>4. CASE q # << >>
    <2>1. PICK S \in SUBSET Positions : S = {x \in DOMAIN t : IsStrictPrefix(x, q)}
      BY <1>0
    <2>2. << >> \in S
      BY <2>1, <1>0, <1>1, <1>4, PrefixEmpty DEF Rooted, IsStrictPrefix
    <2>3. \A x \in S : Len(x) <= Len(q)
      BY <2>1, <1>1, PrefixLength DEF IsStrictPrefix
    <2>4. PICK x \in S : \A y \in S : Len(y) <= Len(x)
      BY <2>1, <2>2, <2>3, <1>1, LongestOne
    <2>5. x \in DOMAIN t /\ x \in Positions /\ IsStrictPrefix(x, q) /\ Shape(t, x) /\ Len(x) \in Nat
      BY <2>1, <2>4, <1>0, Lengths
    <2>6. IsPrefix(x, q) /\ Len(x) < Len(q)
      BY <2>5, <1>1, StrictIs
    <2>7. ASSUME NEW y \in DOMAIN t, IsPrefix(y, q), Len(x) < Len(y)
          PROVE  y = q
      <3>1. SUFFICES ASSUME y # q
                     PROVE  FALSE
        OBVIOUS
      <3>2. y \in S /\ y \in Positions
        BY <3>1, <2>1, <2>7, <1>0 DEF IsStrictPrefix
      <3> QED
        BY <3>2, <2>4, <2>5, <2>7, Lengths
    <2>8. CASE Kind(t, x) = "Branch"
      <3>1. PICK c \in Positions : /\ c = SubSeq(q, 1, Len(x) + 1) /\ Len(c) = Len(x) + 1
                                   /\ IsPrefix(x, c) /\ IsPrefix(c, q)
        BY <2>5, <2>6, <1>1, NextStem, Zenon
      <3>2. c \in DOMAIN t
        BY <3>1, <2>5, <2>8 DEF Shape, Joined
      <3>3. Len(c) = Len(x) + 1
        BY <3>1
      <3>4. Len(x) < Len(c)
        BY <3>3, <2>5
      <3>5. c = q
        BY <3>1, <3>2, <3>4, <2>7
      <3>6. Len(q) - 1 = Len(x)
        BY <3>3, <3>5, <2>5
      <3>7. SubSeq(q, 1, Len(x)) = x
        BY <2>5, <2>6, <1>1, StemOfPrefix
      <3>8. SubSeq(q, 1, Len(q) - 1) \in Forks(keys)
        BY <3>6, <3>7, <2>5, <2>8, <1>0
      <3> QED
        BY <3>8, <1>2 DEF Place
    <2>9. CASE Kind(t, x) = "Extension"
      <3>1. PICK e \in DOMAIN t : Leads(t, x, e) /\ Kind(t, e) = "Branch"
        BY <2>5, <2>9, <1>0 DEF Shape, Leads
      <3>2. e \in Positions /\ IsPrefix(e, q) /\ IsStrictPrefix(x, e)
        BY <3>1, <2>5, <1>0 DEF Leads
      <3>3. e = q
        BY <3>1, <3>2, <2>5, <2>7, StrictIs
      <3> QED
        BY <3>1, <3>3, <1>0, <1>2 DEF Place
    <2>10. Kind(t, x) # "Leaf"
      BY <2>5 DEF Shape, Ends
    <2> QED
      BY <2>5, <2>8, <2>9, <2>10, <1>0, KindIs
  <1> QED
    BY <1>3, <1>4

(* Every such place has a node. *)
LEMMA PlaceHasNode ==
  ASSUME NEW t, NEW map, NEW keys, Settled(t, map, keys), NEW n, Place(keys, n)
  PROVE  n \in DOMAIN t
  <1>0. /\ keys \subseteq Positions /\ IsTrie(t) /\ DOMAIN t \subseteq Positions /\ Rooted(t)
        /\ \A y \in DOMAIN t : Shape(t, y) /\ Kind(t, y) # "Digest"
        /\ \A f : f \in Forks(keys) <=> f \in DOMAIN t /\ Kind(t, f) = "Branch"
    BY SettledKeys
  <1>1. PICK k \in keys : n \in Positions /\ k \in Positions /\ IsPrefix(n, k)
    BY <1>0, StemsAre DEF Place
  <1>2. PICK a \in DOMAIN t : a \in Positions /\ Kind(t, a) = "Leaf" /\ End(t, a) = k /\ IsPrefix(a, k) /\ Ends(t, a)
    BY LeafOf
  <1>3. CASE n \in Forks(keys)
    BY <1>0, <1>3
  <1>4. CASE n = << >>
    BY <1>0, <1>2, <1>4 DEF Rooted
  <1>5. CASE n # << >> /\ SubSeq(n, 1, Len(n) - 1) \in Forks(keys)
    <2>1. Len(n) \in Nat /\ Len(n) # 0
      <3>1. Len(n) \in Nat
        BY <1>1, Lengths
      <3>2. ASSUME Len(n) = 0
            PROVE  n = << >>
        BY <1>1, <3>2, EmptyPosition, SameSequence
      <3> QED
        BY <3>1, <3>2, <1>5
    <2>2. Len(n) - 1 \in 0..Len(n)
      BY <2>1
    <2>3. PICK f \in Positions : f = SubSeq(n, 1, Len(n) - 1) /\ Len(f) = Len(n) - 1 /\ IsPrefix(f, n)
      BY <2>2, <1>1, StemPrefix, Zenon
    <2>4. f \in DOMAIN t /\ Kind(t, f) = "Branch"
      BY <2>3, <1>0, <1>5
    <2>5. IsPrefix(f, k)
      BY <2>3, <1>1, PrefixTrans
    <2>6. IsStrictPrefix(f, a)
      BY <2>4, <2>5, <1>1, <1>2, WayToLeaf
    <2>7. IsPrefix(f, a) /\ Len(f) < Len(a)
      BY <2>3, <2>6, <1>2, StrictIs
    <2>8. PICK c \in Positions : c = SubSeq(a, 1, Len(f) + 1) /\ Len(c) = Len(f) + 1 /\ IsPrefix(c, a)
      BY <2>7, <2>3, <1>2, NextStem, Zenon
    <2>9. c \in DOMAIN t
      BY <2>8, <2>4, <2>6, <1>0, <1>2 DEF Shape, Joined
    <2>10. Len(c) = Len(n)
      <3>1. Len(c) = Len(f) + 1 /\ Len(f) = Len(n) - 1
        BY <2>3, <2>8
      <3> QED
        BY <3>1, <2>1
    <2>11. IsPrefix(c, k)
      BY <2>8, <1>1, <1>2, PrefixTrans
    <2>12. c = n
      <3>1. Len(c) <= Len(n) /\ Len(n) <= Len(c)
        BY <2>1, <2>10
      <3>2. IsPrefix(c, n)
        BY <3>1, <2>8, <2>11, <1>1, PrefixesOfOne
      <3> QED
        BY <3>1, <3>2, <2>8, <1>1, PrefixSame
    <2> QED
      BY <2>9, <2>12
  <1> QED
    BY <1>3, <1>4, <1>5 DEF Place

(* Each node holds what belongs in its place. *)
LEMMA NodeHasData ==
  ASSUME NEW t, NEW map, NEW keys, Settled(t, map, keys), NEW q \in DOMAIN t
  PROVE  DataAt(q, map, keys, Forks(keys)) = t[q].data
  <1> DEFINE forks == Forks(keys)
             below == {f \in forks : IsPrefix(q, f)}
             next == CHOOSE f \in below : \A g \in below : Len(f) <= Len(g)
             key == CHOOSE k \in keys : IsPrefix(q, k)
  <1>1. DataAt(q, map, keys, Forks(keys)) =
          CASE q \in forks -> Branch
            [] below = {}  -> Leaf(Drop(key, Len(q)), map[key])
            [] OTHER       -> Extension(Drop(next, Len(q)))
    BY Zenon DEF DataAt
  <1>2. /\ keys \subseteq Positions /\ IsTrie(t) /\ DOMAIN t \subseteq Positions
        /\ \A y \in DOMAIN t : Shape(t, y) /\ Kind(t, y) # "Digest"
        /\ \A f : f \in forks <=> f \in DOMAIN t /\ Kind(t, f) = "Branch"
    BY SettledKeys
  <1>3. \A f : f \in below <=> f \in forks /\ IsPrefix(q, f)
    OBVIOUS
  <1>4. (\E k \in keys : IsPrefix(q, k)) => key \in keys /\ IsPrefix(q, key)
    OBVIOUS
  <1>5. (\E f \in below : \A g \in below : Len(f) <= Len(g)) =>
          next \in below /\ \A g \in below : Len(next) <= Len(g)
    BY Zenon
  <1> HIDE DEF forks, below, next, key
  <1>6. /\ q \in Positions
        /\ IsData(t[q].data)
        /\ Kind(t, q) \in {"Branch", "Leaf", "Extension"}
        /\ Kind(t, q) = t[q].data.kind
    BY <1>2, KindIs DEF IsTrie, Kind
  <1>7. CASE Kind(t, q) = "Branch"
    <2>1. q \in forks
      BY <1>2, <1>7
    <2>2. t[q].data = Branch
      BY <1>6, <1>7, DataIs
    <2>3. below # {}
      BY <2>1, <1>3, <1>6, PrefixSelf
    <2> QED
      BY <2>1, <2>2, <2>3, <1>1
  <1>8. CASE Kind(t, q) = "Leaf"
    <2>1. Ends(t, q)
      BY <1>2, <1>8 DEF Shape
    <2>2. q \notin forks
      BY <1>2, <1>8
    <2>3. below = {}
      BY <2>1, <2>2, <1>2, <1>3 DEF Ends, IsStrictPrefix
    <2>4. key \in keys /\ IsPrefix(q, key) /\ key \in Positions
      BY <1>2, <1>4, KeyBelow
    <2>5. PICK a \in DOMAIN t : a \in Positions /\ Kind(t, a) = "Leaf" /\ End(t, a) = key /\ IsPrefix(a, key) /\ Ends(t, a)
      BY <2>4, LeafOf
    <2>6. q = a
      BY <2>1, <2>4, <2>5, WayToLeaf
    <2>7. End(t, q) = key /\ map[key] = t[q].data.value
      BY <2>5, <2>6 DEF Settled, Good, LeavesIn
    <2>8. PICK nibs \in Positions : nibs = t[q].data.nibs /\ t[q].data = Leaf(nibs, t[q].data.value)
      BY <1>6, <1>8, DataIs
    <2>9. key = q \o nibs
      BY <2>7, <2>8, Zenon DEF End
    <2>10. Drop(key, Len(q)) = nibs
      BY <2>9, <1>6, DropConcat, Zenon
    <2>11. DataAt(q, map, keys, Forks(keys)) = Leaf(Drop(key, Len(q)), map[key])
      BY <2>2, <2>3, <1>1, Zenon
    <2> QED
      BY <2>7, <2>8, <2>10, <2>11, Zenon
  <1>9. CASE Kind(t, q) = "Extension"
    <2>1. PICK e \in DOMAIN t : e = End(t, q) /\ Leads(t, q, e) /\ Kind(t, e) = "Branch"
      BY <1>2, <1>9 DEF Shape, Leads
    <2>2. q \notin forks /\ e \in forks /\ e \in Positions
      BY <2>1, <1>2, <1>9
    <2>3. e \in below
      BY <2>1, <2>2, <1>3 DEF Leads, IsStrictPrefix
    <2>4. \A f \in below : f \in Positions /\ IsPrefix(e, f)
      BY <2>1, <2>2, <1>2, <1>3 DEF Leads, IsStrictPrefix
    <2>5. \A f \in below : Len(e) <= Len(f)
      BY <2>2, <2>4, PrefixLength
    <2>6. next \in below /\ Len(next) <= Len(e)
      BY <2>3, <2>5, <1>5
    <2>7. next = e
      BY <2>2, <2>4, <2>6, PrefixSame
    <2>8. PICK nibs \in Positions : nibs = t[q].data.nibs /\ t[q].data = Extension(nibs)
      BY <1>6, <1>9, DataIs
    <2>9. e = q \o nibs
      BY <2>1, <2>8, Zenon DEF End
    <2>10. Drop(e, Len(q)) = nibs
      BY <2>9, <1>6, DropConcat, Zenon
    <2>11. below # {}
      BY <2>3
    <2>12. DataAt(q, map, keys, Forks(keys)) = Extension(Drop(next, Len(q)))
      BY <2>2, <2>11, <1>1
    <2> QED
      BY <2>7, <2>8, <2>10, <2>12
  <1> QED
    BY <1>6, <1>7, <1>8, <1>9

(* The root of a map is the trie of its keys. *)
LEMMA RootIs ==
  ASSUME NEW t, NEW map, NEW keys, Settled(t, map, keys)
  PROVE  /\ Root(map) = [p \in DOMAIN Root(map) |-> Root(map)[p]]
         /\ DOMAIN Root(map) = DOMAIN t
         /\ \A p \in DOMAIN t : Root(map)[p] = t[p].data
  <1> DEFINE nodes == {p \in Stems(keys) : \/ p \in Forks(keys) \union {<< >>}
                                           \/ SubSeq(p, 1, Len(p) - 1) \in Forks(keys)}
  <1>1. keys = {k \in DOMAIN map : map[k] # NoValue}
    BY DEF Settled
  <1>2. Root(map) = [p \in nodes |-> DataAt(p, map, keys, Forks(keys))]
    BY <1>1, Zenon DEF Root
  <1>3. \A p : p \in nodes <=> Place(keys, p)
    BY DEF Place
  <1>4. nodes = DOMAIN t
    BY <1>3, NodeHasPlace, PlaceHasNode
  <1> HIDE DEF nodes
  <1>5. Root(map) = [p \in DOMAIN t |-> DataAt(p, map, keys, Forks(keys))]
    BY <1>2, <1>4
  <1>6. DOMAIN Root(map) = DOMAIN t /\ \A p \in DOMAIN t : Root(map)[p] = DataAt(p, map, keys, Forks(keys))
    BY <1>5
  <1>7. Root(map) = [p \in DOMAIN Root(map) |-> Root(map)[p]]
    BY <1>5
  <1> QED
    BY <1>6, <1>7, NodeHasData

-----------------------------------------------------------------------------
(* What a truncated trie stands for. *)
Digests(t) == {q \in DOMAIN t : Kind(t, q) = "Digest"}

(***************************************************************************)
(* w is t with everything that its digests stand for; the digests and the  *)
(* caches of t are the references of w.                                    *)
(***************************************************************************)
Reveals(t, w) ==
  /\ \A q : q \in DOMAIN t <=> q \in DOMAIN w /\ \A r \in Digests(t) : ~IsStrictPrefix(r, q)
  /\ \A q \in DOMAIN t : Kind(t, q) # "Digest" => t[q].data = w[q].data
  /\ \A q \in DOMAIN t : Kind(t, q) = "Digest" => t[q].data.digest = Subreference(DataOf(w), q)
  /\ \A q \in DOMAIN t : t[q].cached_reference \in {NoReference, Subreference(DataOf(w), q)}

(* Shape, but for the node that an extension leads to. *)
Loose(w, p) ==
  /\ Kind(w, p) = "Branch" => Forked(w, p) /\ Joined(w, p)
  /\ Kind(w, p) = "Extension" => Leads(w, p, End(w, p))
  /\ Kind(w, p) = "Leaf" => Ends(w, p)

(* w holds map, without digests and without caches. *)
Holds(w, map) ==
  /\ IsTrie(w)
  /\ Rooted(w)
  /\ Bounded(w)
  /\ \A p \in DOMAIN w : w[p] = Node(w[p].data) /\ Loose(w, p)
  /\ LeavesIn(w, map)
  /\ Whole(w, map)

Faithful(t, map) == \E w : Reveals(t, w) /\ Holds(w, map)

(* The data of a trie, place by place. *)
LEMMA DataOfIs ==
  ASSUME NEW w
  PROVE  /\ DataOf(w) = [q \in DOMAIN DataOf(w) |-> DataOf(w)[q]]
         /\ DOMAIN DataOf(w) = DOMAIN w
         /\ \A q \in DOMAIN w : DataOf(w)[q] = w[q].data
  BY DEF DataOf

(* Where everything is kept the reference stays the same. *)
LEMMA KeptReference ==
  ASSUME NEW w, NEW v, DOMAIN w \subseteq Positions, DOMAIN v \subseteq Positions,
         NEW q \in Positions, Kept(w, v, q)
  PROVE  Subreference(DataOf(v), q) = Subreference(DataOf(w), q)
  <1>1. PICK f : f = DataOf(w)
    OBVIOUS
  <1>2. PICK g : g = DataOf(v)
    OBVIOUS
  <1>3. /\ DOMAIN f = DOMAIN w /\ \A x \in DOMAIN w : f[x] = w[x].data
        /\ DOMAIN g = DOMAIN v /\ \A x \in DOMAIN v : g[x] = v[x].data
    BY <1>1, <1>2, DataOfIs
  <1>4. ASSUME NEW s \in Positions
        PROVE  /\ q \o s \in DOMAIN g <=> q \o s \in DOMAIN f
               /\ q \o s \in DOMAIN f => g[q \o s] = f[q \o s]
    <2>1. PICK x \in Positions : x = q \o s
      BY PrefixConcat, Zenon
    <2>2. IsPrefix(q, x)
      BY <2>1, PrefixConcat, Zenon
    <2>3. (x \in DOMAIN v <=> x \in DOMAIN w) /\ (x \in DOMAIN w => v[x] = w[x])
      BY <2>1, <2>2 DEF Kept
    <2>4. (x \in DOMAIN g <=> x \in DOMAIN f) /\ (x \in DOMAIN f => g[x] = f[x])
      BY <2>3, <1>3
    <2> QED
      BY <2>1, <2>4, Zenon
  <1>5. PICK a : a = Subreference(f, q)
    OBVIOUS
  <1>6. PICK b : b = Subreference(g, q)
    OBVIOUS
  <1>7. /\ a = [s \in DOMAIN a |-> a[s]]
        /\ \A s : s \in DOMAIN a <=> s \in Positions /\ q \o s \in DOMAIN f
        /\ \A s \in DOMAIN a : a[s] = f[q \o s]
    <2>1. DOMAIN f \subseteq Positions
      BY <1>3
    <2> QED
      BY <2>1, <1>5, SubreferenceIs, Zenon
  <1>8. /\ b = [s \in DOMAIN b |-> b[s]]
        /\ \A s : s \in DOMAIN b <=> s \in Positions /\ q \o s \in DOMAIN g
        /\ \A s \in DOMAIN b : b[s] = g[q \o s]
    <2>1. DOMAIN g \subseteq Positions
      BY <1>3
    <2> QED
      BY <2>1, <1>6, SubreferenceIs, Zenon
  <1>9. DOMAIN b = DOMAIN a
    BY <1>4, <1>7, <1>8, Zenon
  <1>10. \A s \in DOMAIN b : b[s] = a[s]
    BY ONLY <1>4, <1>7, <1>8, <1>9, Zenon
  <1>11. b = a
    BY <1>7, <1>8, <1>9, <1>10, SameFunction
  <1> QED
    BY <1>1, <1>2, <1>5, <1>6, <1>11

(* A trie is a view of what it stands for. *)
LEMMA RevealsView ==
  ASSUME NEW t, NEW w, DOMAIN w \subseteq Positions, Reveals(t, w)
  PROVE  View(t, DataOf(w), Digests(t))
  <1>1. PICK f : f = DataOf(w)
    OBVIOUS
  <1>2. f = [q \in DOMAIN f |-> f[q]] /\ DOMAIN f = DOMAIN w /\ \A q \in DOMAIN w : f[q] = w[q].data
    BY <1>1, DataOfIs
  <1>3. /\ \A q : q \in DOMAIN t <=> q \in DOMAIN w /\ \A r \in Digests(t) : ~IsStrictPrefix(r, q)
        /\ \A q \in DOMAIN t : Kind(t, q) # "Digest" => t[q].data = w[q].data
        /\ \A q \in DOMAIN t : Kind(t, q) = "Digest" => t[q].data.digest = Subreference(f, q)
        /\ \A q \in DOMAIN t : t[q].cached_reference \in {NoReference, Subreference(f, q)}
    BY <1>1 DEF Reveals
  <1>4. Digests(t) \subseteq DOMAIN f
    BY <1>2, <1>3 DEF Digests
  <1>5. \A q \in DOMAIN t : q \in Digests(t) => Known(t, q)
    BY DEF Digests, Known
  <1>6. \A q \in DOMAIN t : Known(t, q) => KnownReference(t, q) = Subreference(f, q)
    BY <1>3 DEF Known, KnownReference
  <1>7. \A q \in DOMAIN t : ~Known(t, q) => t[q].data = f[q]
    BY <1>2, <1>3 DEF Known
  <1>8. \A q : q \in DOMAIN t <=> q \in DOMAIN f /\ \A r \in Digests(t) : ~IsStrictPrefix(r, q)
    BY <1>2, <1>3
  <1>9. View(t, f, Digests(t))
    BY <1>2, <1>4, <1>5, <1>6, <1>7, <1>8 DEF View
  <1> QED
    BY <1>1, <1>9

(* hash() and reference() are those of what the trie stands for. *)
LEMMA RevealsHash ==
  ASSUME NEW t, NEW w, IsTrie(t), IsTrie(w), Rooted(w), Reveals(t, w)
  PROVE  /\ Hash(t) = DataOf(w)
         /\ \A p \in DOMAIN t : Reference(t, p) = Subreference(DataOf(w), p)
  <1>1. PICK f : f = DataOf(w)
    OBVIOUS
  <1>2. f = [q \in DOMAIN f |-> f[q]] /\ DOMAIN f = DOMAIN w
    BY <1>1, DataOfIs
  <1>3. View(t, f, Digests(t))
    BY <1>1, RevealsView DEF IsTrie
  <1>4. ASSUME DOMAIN w # {}
        PROVE  Hash(t) = f
    BY <1>2, <1>3, <1>4, ViewHash DEF Rooted
  <1>5. ASSUME DOMAIN w = {}
        PROVE  Hash(t) = f
    <2>1. DOMAIN t = {}
      BY <1>5 DEF Reveals
    <2>2. t = Null
      BY <2>1, NullIs
    <2>3. f = Null
      BY <1>2, <1>5 DEF Null
    <2> QED
      BY <2>2, <2>3 DEF Hash, EmptyRoot
  <1>6. \A p \in DOMAIN t : Reference(t, p) = Subreference(f, p)
    BY <1>3, ViewReference
  <1> QED
    BY <1>1, <1>4, <1>5, <1>6

(* What is kept keeps its shape. *)
LEMMA KeptLoose ==
  ASSUME NEW t, NEW u, IsTrie(t), DOMAIN u \subseteq Positions, NEW q \in Positions,
         Kept(t, u, q), Loose(t, q)
  PROVE  q \in DOMAIN u /\ Loose(u, q)
  <1>1. q \in DOMAIN t /\ DOMAIN t \subseteq Positions
    BY DEF Kept, IsTrie
  <1>2. \A x \in Positions : IsPrefix(q, x) => (x \in DOMAIN u <=> x \in DOMAIN t) /\ (x \in DOMAIN t => u[x] = t[x])
    BY DEF Kept
  <1>3. q \in DOMAIN u /\ u[q] = t[q] /\ Kind(u, q) = Kind(t, q) /\ End(u, q) = End(t, q)
    BY <1>1, <1>2, PrefixSelf DEF Kind, End
  <1>4. \A x \in Positions : IsStrictPrefix(q, x) => (x \in DOMAIN u <=> x \in DOMAIN t)
    BY <1>2 DEF IsStrictPrefix
  <1>5. Kind(t, q) = "Branch" => Forked(u, q) /\ Joined(u, q)
    <2>1. ASSUME NEW i \in Nibbles
          PROVE  Append(q, i) \in DOMAIN t => Append(q, i) \in DOMAIN u
      <3>1. PICK c \in Positions : c = Append(q, i) /\ IsPrefix(q, c)
        BY AppendIs, Zenon
      <3> QED
        BY <3>1, <1>2, Zenon
    <2>2. Forked(t, q) => Forked(u, q)
      BY <2>1 DEF Forked, Children
    <2>3. Joined(t, q) => Joined(u, q)
      <3>1. SUFFICES ASSUME Joined(t, q), NEW x \in DOMAIN u, IsStrictPrefix(q, x)
                     PROVE  SubSeq(x, 1, Len(q) + 1) \in DOMAIN u
        BY DEF Joined
      <3>2. x \in Positions /\ x \in DOMAIN t
        BY <3>1, <1>4
      <3>3. IsPrefix(q, x) /\ Len(q) < Len(x)
        BY <3>1, <3>2, StrictIs
      <3>4. PICK c \in Positions : c = SubSeq(x, 1, Len(q) + 1) /\ IsPrefix(q, c)
        BY <3>2, <3>3, NextStem, Zenon
      <3>5. c \in DOMAIN t
        BY <3>1, <3>2, <3>4, Zenon DEF Joined
      <3> QED
        BY <3>4, <3>5, <1>2, Zenon
    <2> QED
      BY <2>2, <2>3 DEF Loose
  <1>6. Kind(t, q) = "Extension" => Leads(u, q, End(u, q))
    <2>1. SUFFICES ASSUME Kind(t, q) = "Extension"
                   PROVE  Leads(u, q, End(u, q))
      OBVIOUS
    <2>2. PICK c \in Positions : c = End(t, q)
      BY <2>1, <1>1, KindIs
    <2>3. Leads(t, q, c)
      BY <2>1, <2>2 DEF Loose
    <2>4. c \in DOMAIN u /\ IsStrictPrefix(q, c)
      BY <2>3, <1>2 DEF Leads, IsStrictPrefix
    <2>5. Leads(u, q, c)
      BY <2>3, <2>4, <1>4 DEF Leads
    <2> QED
      BY <2>2, <2>5, <1>3
  <1>7. Kind(t, q) = "Leaf" => Ends(u, q)
    BY <1>4 DEF Loose, Ends
  <1> QED
    BY <1>3, <1>5, <1>6, <1>7 DEF Loose

(* Computing the hash fills caches, with what they should be. *)
LEMMA HashedFaithful ==
  ASSUME NEW t, NEW map, Good(t, map), Faithful(t, map)
  PROVE  /\ Good(WithReferences(t), map)
         /\ Faithful(WithReferences(t), map)
         /\ Hash(WithReferences(t)) = Hash(t)
         /\ \A k : Sure(t, map, k) => Sure(WithReferences(t), map, k)
  <1>1. PICK u : u = WithReferences(t)
    OBVIOUS
  <1>2. /\ u = [p \in DOMAIN u |-> u[p]]
        /\ DOMAIN u = DOMAIN t
        /\ \A p \in DOMAIN t :
             \/ u[p] = t[p]
             \/ u[p] = [data |-> t[p].data, cached_reference |-> Reference(t, p)]
    BY <1>1 DEF WithReferences
  <1>3. SameForm(t, u)
    BY <1>2 DEF SameForm
  <1>4. Good(u, map) /\ \A k : Sure(t, map, k) => Sure(u, map, k)
    BY <1>2, <1>3, SameFormGood
  <1>5. PICK w : Reveals(t, w) /\ Holds(w, map)
    BY DEF Faithful
  <1>6. IsTrie(t) /\ IsTrie(u) /\ IsTrie(w) /\ Rooted(w)
    BY <1>4, <1>5 DEF Good, Holds
  <1>7. PICK f : f = DataOf(w)
    OBVIOUS
  <1>8. Hash(t) = f /\ \A p \in DOMAIN t : Reference(t, p) = Subreference(f, p)
    BY <1>5, <1>6, <1>7, RevealsHash
  <1>9. /\ \A q : q \in DOMAIN t <=> q \in DOMAIN w /\ \A r \in Digests(t) : ~IsStrictPrefix(r, q)
        /\ \A q \in DOMAIN t : Kind(t, q) # "Digest" => t[q].data = w[q].data
        /\ \A q \in DOMAIN t : Kind(t, q) = "Digest" => t[q].data.digest = Subreference(f, q)
        /\ \A q \in DOMAIN t : t[q].cached_reference \in {NoReference, Subreference(f, q)}
    BY <1>5, <1>7 DEF Reveals
  <1>10. \A q \in DOMAIN t : u[q].data = t[q].data /\ Kind(u, q) = Kind(t, q)
    BY <1>3 DEF SameForm, Kind
  <1>11. Digests(u) = Digests(t)
    BY <1>2, <1>10 DEF Digests
  <1>12. \A q \in DOMAIN u : u[q].cached_reference \in {NoReference, Subreference(f, q)}
    BY <1>2, <1>8, <1>9
  <1>13. Reveals(u, w)
    BY <1>2, <1>7, <1>9, <1>10, <1>11, <1>12 DEF Reveals
  <1>14. Hash(u) = f
    BY <1>6, <1>7, <1>13, RevealsHash
  <1> QED
    BY <1>1, <1>4, <1>5, <1>8, <1>13, <1>14 DEF Faithful

(* What is cut off is known by its digest. *)
LEMMA CutReveals ==
  ASSUME NEW t, NEW w, Reveals(t, w), DOMAIN w \subseteq Positions, NEW u, NEW cut, Cut(t, u, cut),
         \A p \in DOMAIN u :
           /\ p \in cut => u[p].data = Digest(Subreference(DataOf(w), p))
           /\ u[p].cached_reference \in {NoReference, Subreference(DataOf(w), p)}
  PROVE  Reveals(u, w)
  <1>1. PICK f : f = DataOf(w)
    OBVIOUS
  <1>2. /\ \A q : q \in DOMAIN t <=> q \in DOMAIN w /\ \A r \in Digests(t) : ~IsStrictPrefix(r, q)
        /\ \A q \in DOMAIN t : Kind(t, q) # "Digest" => t[q].data = w[q].data
        /\ \A q \in DOMAIN t : Kind(t, q) = "Digest" => t[q].data.digest = Subreference(f, q)
    BY <1>1 DEF Reveals
  <1>3. /\ cut \subseteq DOMAIN t
        /\ \A p : p \in DOMAIN u <=> p \in DOMAIN t /\ \A q \in cut : ~IsStrictPrefix(q, p)
        /\ \A p \in DOMAIN u : p \in cut => Kind(u, p) = "Digest"
        /\ \A p \in DOMAIN u : p \notin cut => u[p].data = t[p].data /\ Kind(u, p) = Kind(t, p)
    BY DEF Cut
  <1>4. DOMAIN t \subseteq Positions
    BY <1>2
  <1>5. \A r : r \in Digests(u) <=> r \in DOMAIN u /\ (r \in cut \/ r \in Digests(t))
    BY <1>3 DEF Digests
  <1>6. ASSUME NEW q \in DOMAIN u
        PROVE  q \in DOMAIN w /\ \A r \in Digests(u) : ~IsStrictPrefix(r, q)
    BY <1>2, <1>3, <1>5
  <1>7. ASSUME NEW q \in DOMAIN w, \A r \in Digests(u) : ~IsStrictPrefix(r, q)
        PROVE  q \in DOMAIN u
    <2>1. PICK above : above = {r \in cut \union Digests(t) : IsStrictPrefix(r, q)}
      OBVIOUS
    <2>2. \A r : r \in above <=> (r \in cut \/ r \in Digests(t)) /\ IsStrictPrefix(r, q)
      BY <2>1
    <2>3. above \subseteq DOMAIN t /\ above \subseteq Positions
      BY <2>2, <1>3, <1>4 DEF Digests
    <2>4. above = {}
      <3>1. SUFFICES ASSUME above # {}
                     PROVE  FALSE
        OBVIOUS
      <3>2. PICK r \in above : \A s \in above : Len(r) <= Len(s)
        BY <3>1, <2>3, ShortestOne
      <3>3. ASSUME NEW c \in cut, IsStrictPrefix(c, r)
            PROVE  FALSE
        <4>1. c \in Positions /\ r \in Positions /\ q \in Positions
          BY <2>3, <1>3, <1>4
        <4>2. IsPrefix(c, r) /\ Len(c) < Len(r)
          BY <4>1, <3>3, StrictIs
        <4>3. IsPrefix(r, q) /\ Len(r) < Len(q)
          BY <4>1, <2>2, StrictIs
        <4>4. IsPrefix(c, q) /\ Len(c) < Len(q)
          BY <4>1, <4>2, <4>3, PrefixTrans, Lengths
        <4>5. IsStrictPrefix(c, q)
          BY <4>1, <4>4, StrictIs
        <4>6. c \in above
          BY <4>5, <2>2
        <4>7. Len(r) <= Len(c)
          BY <4>6, <3>2
        <4> QED
          BY <4>1, <4>2, <4>7, Lengths
      <3>4. r \in DOMAIN u
        BY <3>3, <2>3, <1>3
      <3>5. r \in Digests(u)
        BY <3>4, <2>2, <1>5
      <3> QED
        BY <3>5, <2>2, <1>7
    <2>5. q \in DOMAIN t
      BY <2>2, <2>4, <1>2
    <2> QED
      BY <2>2, <2>4, <2>5, <1>3
  <1>8. \A q \in DOMAIN u : Kind(u, q) # "Digest" => u[q].data = w[q].data
    BY <1>2, <1>3
  <1>9. ASSUME NEW q \in DOMAIN u, Kind(u, q) = "Digest"
        PROVE  u[q].data.digest = Subreference(f, q)
    <2>1. CASE q \in cut
      <3>1. u[q].data = Digest(Subreference(f, q))
        BY <2>1, <1>1
      <3> QED
        BY <3>1 DEF Digest
    <2>2. CASE q \notin cut
      BY <2>2, <1>2, <1>3, <1>9
    <2> QED
      BY <2>1, <2>2
  <1> QED
    BY <1>1, <1>6, <1>7, <1>8, <1>9 DEF Reveals

(* Pruning changes neither the hash nor what the trie stands for. *)
LEMMA PruneFaithful ==
  ASSUME NEW t, NEW map, Good(t, map), Faithful(t, map), NEW refs
  PROVE  Faithful(Prune(t, refs), map) /\ Hash(Prune(t, refs)) = Hash(t)
  <1>1. PICK w : Reveals(t, w) /\ Holds(w, map)
    BY DEF Faithful
  <1>2. IsTrie(t) /\ IsTrie(w) /\ Rooted(w) /\ DOMAIN w \subseteq Positions
    BY <1>1 DEF Good, Holds, IsTrie
  <1>3. PICK f : f = DataOf(w)
    OBVIOUS
  <1>4. Hash(t) = f /\ \A p \in DOMAIN t : Reference(t, p) = Subreference(f, p)
    BY <1>1, <1>2, <1>3, RevealsHash
  <1>5. PICK u : u = Prune(t, refs)
    OBVIOUS
  <1>6. PICK cut : /\ Cut(t, u, cut)
                   /\ \A p \in DOMAIN u :
                        /\ p \in cut => u[p].data = Digest(Reference(t, p)) /\ u[p].cached_reference = Reference(t, p)
                        /\ p \notin cut => u[p].cached_reference = NoReference
    BY <1>5, PruneIs
  <1>7. \A p \in DOMAIN u : p \in DOMAIN t
    BY <1>6 DEF Cut
  <1>8. \A p \in DOMAIN u : /\ p \in cut => u[p].data = Digest(Subreference(f, p))
                            /\ u[p].cached_reference \in {NoReference, Subreference(f, p)}
    BY <1>4, <1>6, <1>7
  <1>9. Reveals(u, w)
    BY <1>1, <1>2, <1>3, <1>6, <1>8, CutReveals
  <1>10. IsTrie(u)
    BY <1>5, PruneGood DEF Good
  <1>11. Hash(u) = f
    BY <1>2, <1>3, <1>9, <1>10, RevealsHash
  <1> QED
    BY <1>1, <1>4, <1>5, <1>9, <1>11 DEF Faithful

(* What a faithful trie knows of a key where its way ends at no digest. *)
LEMMA SureOfOpen ==
  ASSUME NEW t, NEW map, Good(t, map), Faithful(t, map), NEW k \in Keys, Open(t, k)
  PROVE  Sure(t, map, k)
  <1>1. SUFFICES ASSUME map[k] # NoValue
                 PROVE  HasLeaf(t, k)
    BY DEF Sure
  <1>2. PICK w : Reveals(t, w) /\ Holds(w, map)
    BY DEF Faithful
  <1>3. IsTrie(w) /\ DOMAIN w \subseteq Positions /\ k \in Positions /\ DOMAIN t \subseteq Positions
    BY <1>2, KeysLength DEF Holds, IsTrie, Good
  <1>4. PICK p \in DOMAIN w : Kind(w, p) = "Leaf" /\ End(w, p) = k
    BY <1>1, <1>2 DEF Holds, Whole, HasLeaf
  <1>5. IsPrefix(p, k)
    BY <1>3, <1>4, KindIs
  <1>6. ASSUME NEW r \in Digests(t), IsStrictPrefix(r, p)
        PROVE  FALSE
    <2>1. r \in DOMAIN t /\ Kind(t, r) = "Digest" /\ IsPrefix(r, p)
      BY <1>6 DEF Digests, IsStrictPrefix
    <2>2. IsPrefix(r, k)
      BY <2>1, <1>3, <1>5, PrefixTrans
    <2> QED
      BY <2>1, <2>2 DEF Open
  <1>7. p \in DOMAIN t
    BY <1>2, <1>6 DEF Reveals
  <1>8. Kind(t, p) # "Digest"
    BY <1>5, <1>7 DEF Open
  <1>9. t[p].data = w[p].data
    BY <1>2, <1>7, <1>8 DEF Reveals
  <1> QED
    BY <1>4, <1>7, <1>9 DEF HasLeaf, Kind, End

(* A trie that holds nothing is empty. *)
LEMMA NoLeafEmpty ==
  ASSUME NEW t, NEW map, Faithful(t, map), \A k \in Keys : map[k] = NoValue
  PROVE  DOMAIN t = {}
  <1>1. PICK w : Reveals(t, w) /\ Holds(w, map)
    BY DEF Faithful
  <1>2. SUFFICES ASSUME DOMAIN w # {}
                 PROVE  FALSE
    BY <1>1 DEF Reveals
  <1>3. IsTrie(w) /\ DOMAIN w \subseteq Positions /\ \A p \in DOMAIN w : Len(p) <= KeyLength
    BY <1>1 DEF Holds, IsTrie, Bounded
  <1>4. PICK p \in DOMAIN w : \A q \in DOMAIN w : Len(q) <= Len(p)
    BY <1>2, <1>3, KeysLength, LongestOne
  <1>5. p \in Positions /\ Kind(w, p) \in {"Branch", "Leaf", "Extension"} /\ Loose(w, p)
    BY <1>1, <1>3, KindIs DEF Holds, Whole, NoDigest
  <1>6. CASE Kind(w, p) = "Branch"
    <2>1. PICK i \in Nibbles : Append(p, i) \in DOMAIN w
      BY <1>5, <1>6 DEF Loose, Forked, Children
    <2>2. PICK c \in DOMAIN w : c = Append(p, i)
      BY <2>1
    <2>3. Len(c) = Len(p) + 1
      BY <2>2, <1>5, AppendIs, Zenon
    <2>4. Len(c) <= Len(p) /\ Len(p) \in Nat
      BY <1>4, <1>5, Lengths
    <2> QED
      BY ONLY <2>3, <2>4
  <1>7. CASE Kind(w, p) = "Extension"
    <2>1. PICK c \in DOMAIN w : IsStrictPrefix(p, c)
      BY <1>5, <1>7 DEF Loose, Leads
    <2>2. Len(p) < Len(c) /\ c \in Positions
      BY <2>1, <1>3, <1>5, StrictIs
    <2> QED
      BY <2>1, <2>2, <1>4, <1>5, Lengths
  <1>8. CASE Kind(w, p) = "Leaf"
    <2>1. End(w, p) \in Keys /\ map[End(w, p)] = w[p].data.value
      BY <1>1, <1>8 DEF Holds, LeavesIn
    <2>2. w[p].data.value # NoValue
      BY <1>3, <1>8, KindIs
    <2> QED
      BY <2>1, <2>2
  <1> QED
    BY <1>5, <1>6, <1>7, <1>8

(***************************************************************************)
(* If no extension leads to another one, or if nothing is cut off, what    *)
(* the trie stands for is the root of the map.                             *)
(***************************************************************************)
LEMMA FaithfulRoot ==
  ASSUME NEW t, NEW map, Good(t, map), Faithful(t, map), DOMAIN map = Keys, Proper(Hash(t)) \/ NoDigest(t)
  PROVE  Hash(t) = Root(map)
  <1>1. PICK w : Reveals(t, w) /\ Holds(w, map)
    BY DEF Faithful
  <1>2. /\ IsTrie(t) /\ IsTrie(w) /\ Rooted(w) /\ Bounded(w) /\ LeavesIn(w, map) /\ Whole(w, map)
        /\ \A p \in DOMAIN w : Loose(w, p)
    BY <1>1 DEF Good, Holds
  <1>3. PICK f : f = DataOf(w)
    OBVIOUS
  <1>4. f = [q \in DOMAIN f |-> f[q]] /\ DOMAIN f = DOMAIN w /\ \A q \in DOMAIN w : f[q] = w[q].data
    BY <1>3, DataOfIs
  <1>5. Hash(t) = f
    BY <1>1, <1>2, <1>3, RevealsHash
  <1>6. Good(w, map)
    <2>1. CASE NoDigest(t)
      <3>1. Digests(t) = {}
        BY <2>1 DEF NoDigest, Digests
      <3>2. DOMAIN t = DOMAIN w /\ \A q \in DOMAIN t : t[q].data = w[q].data
        BY <2>1, <3>1, <1>1 DEF Reveals, NoDigest
      <3>3. SameForm(t, w) /\ w = [p \in DOMAIN w |-> w[p]]
        BY <3>2, <1>2 DEF SameForm, IsTrie
      <3> QED
        BY <3>3, SameFormGood
    <2>2. CASE Proper(Hash(t))
      <3>1. ASSUME NEW p \in DOMAIN w
            PROVE  Shape(w, p)
        <4>1. Loose(w, p) /\ Kind(w, p) # "Digest" /\ Kind(w, p) = f[p].kind
          BY <1>2, <1>4 DEF Whole, NoDigest, Kind
        <4>2. ASSUME Kind(w, p) = "Extension"
              PROVE  Kind(w, End(w, p)) = "Branch"
          <5>1. PICK c \in DOMAIN w : c = End(w, p)
            BY <4>1, <4>2 DEF Loose, Leads
          <5>2. c = p \o f[p].nibs
            BY <5>1, <1>4, Zenon DEF End
          <5>3. f[p \o f[p].nibs].kind = "Branch"
            BY <2>2, <4>1, <4>2, <1>4, <1>5 DEF Proper
          <5>4. f[c].kind = "Branch"
            BY <5>2, <5>3, Zenon
          <5>5. Kind(w, c) = "Branch"
            BY <5>4, <1>4 DEF Kind
          <5> QED
            BY <5>1, <5>5
        <4> QED
          BY <4>1, <4>2 DEF Loose, Shape
      <3> QED
        BY <3>1, <1>2 DEF Good
    <2> QED
      BY <2>1, <2>2
  <1>7. PICK keys : keys = {k \in Keys : map[k] # NoValue}
    OBVIOUS
  <1>8. Settled(w, map, keys)
    BY <1>2, <1>6, <1>7 DEF Settled
  <1>9. /\ Root(map) = [p \in DOMAIN Root(map) |-> Root(map)[p]]
        /\ DOMAIN Root(map) = DOMAIN w
        /\ \A p \in DOMAIN w : Root(map)[p] = w[p].data
    BY <1>8, RootIs
  <1>10. f = Root(map)
    BY <1>4, <1>9, SameFunction
  <1> QED
    BY <1>5, <1>10

(***************************************************************************)
(* What u shows, together with what w has behind the digests of u, which   *)
(* are those of t.                                                         *)
(***************************************************************************)
Shown(u, x) == x \in DOMAIN u /\ Kind(u, x) # "Digest"
Hidden(u, w, x) == x \in DOMAIN w /\ \E r \in Digests(u) : IsPrefix(r, x)
Combined(u, w, v) ==
  /\ v = [x \in DOMAIN v |-> v[x]]
  /\ \A x : x \in DOMAIN v <=> Shown(u, x) \/ Hidden(u, w, x)
  /\ \A x : Shown(u, x) => v[x] = Node(u[x].data)
  /\ \A x : Hidden(u, w, x) => v[x] = w[x]

(* Nothing that is shown is behind a digest. *)
LEMMA ShownNotHidden ==
  ASSUME NEW u, NEW map, Good(u, map), NEW x, Shown(u, x), NEW r \in Digests(u)
  PROVE  ~IsPrefix(r, x)
  <1>1. r \in DOMAIN u /\ Kind(u, r) = "Digest" /\ Ends(u, r)
    BY DEF Digests, Good, Shape
  <1>2. x \in DOMAIN u /\ x # r
    BY <1>1 DEF Shown
  <1> QED
    BY <1>1, <1>2 DEF Ends, IsStrictPrefix

(* There is such a trie. *)
LEMMA CombinedIs ==
  ASSUME NEW u, NEW map, Good(u, map), NEW w, \A p \in DOMAIN w : w[p] = Node(w[p].data)
  PROVE  \E v : Combined(u, w, v)
  <1> DEFINE all == {x \in DOMAIN u : Kind(u, x) # "Digest"} \union
                    {x \in DOMAIN w : \E r \in Digests(u) : IsPrefix(r, x)}
             new(x) == Node(IF Shown(u, x) THEN u[x].data ELSE w[x].data)
  <1>1. \A x : x \in all <=> Shown(u, x) \/ Hidden(u, w, x)
    BY DEF Shown, Hidden
  <1>2. \A x : Shown(u, x) => new(x) = Node(u[x].data)
    OBVIOUS
  <1>3. ASSUME NEW x, Hidden(u, w, x)
        PROVE  new(x) = w[x]
    <2>1. ~Shown(u, x)
      BY <1>3, ShownNotHidden DEF Hidden
    <2> QED
      BY <2>1, <1>3 DEF Hidden
  <1> HIDE DEF all, new
  <1>4. PICK v : v = [x \in all |-> new(x)]
    OBVIOUS
  <1>5. DOMAIN v = all /\ v = [x \in DOMAIN v |-> v[x]] /\ \A x \in all : v[x] = new(x)
    BY <1>4
  <1> QED
    BY <1>1, <1>2, <1>3, <1>5 DEF Combined

(***************************************************************************)
(* After a change the trie still stands for the whole map: the digests     *)
(* stay, what is behind them is not touched, and no cache is stale.        *)
(***************************************************************************)
LEMMA UpdateFaithful ==
  ASSUME NEW t, NEW u, NEW map, NEW new, Good(t, map), Good(u, new), Faithful(t, map),
         DigestsKept(t, u), CachesFrom(t, u),
         NEW key \in Keys, NEW value, UpdatedTo(map, new, key, value), Sure(u, new, key),
         \A k \in Keys : k # key /\ Sure(t, map, k) => Sure(u, new, k)
  PROVE  Faithful(u, new)
  <1>1. PICK w : Reveals(t, w) /\ Holds(w, map)
    BY DEF Faithful
  <1>2. /\ IsTrie(w) /\ Rooted(w) /\ Bounded(w) /\ LeavesIn(w, map) /\ Whole(w, map)
        /\ \A p \in DOMAIN w : w[p] = Node(w[p].data) /\ Loose(w, p)
        /\ DOMAIN w \subseteq Positions
    BY <1>1 DEF Holds, IsTrie
  <1>3. /\ IsTrie(t) /\ DOMAIN t \subseteq Positions
        /\ IsTrie(u) /\ DOMAIN u \subseteq Positions /\ Rooted(u) /\ Bounded(u) /\ LeavesIn(u, new)
        /\ \A p \in DOMAIN u : Shape(u, p)
    BY DEF Good, IsTrie
  <1>4. PICK v : Combined(u, w, v)
    BY <1>2, CombinedIs
  <1>5. /\ v = [x \in DOMAIN v |-> v[x]]
        /\ \A x : x \in DOMAIN v <=> Shown(u, x) \/ Hidden(u, w, x)
        /\ \A x : Shown(u, x) => v[x].data = u[x].data /\ v[x].cached_reference = NoReference
        /\ \A x : Hidden(u, w, x) => v[x] = w[x]
    BY <1>4, NodeIs DEF Combined
  (* The digests. *)
  <1>6. /\ \A r : r \in Digests(u) <=> r \in Digests(t)
        /\ \A r \in Digests(u) : r \in DOMAIN t /\ r \in DOMAIN u /\ u[r].data = t[r].data /\ r \in DOMAIN w
    BY <1>1 DEF DigestsKept, Digests, Reveals
  <1>7. /\ \A q : q \in DOMAIN t <=> q \in DOMAIN w /\ \A r \in Digests(t) : ~IsStrictPrefix(r, q)
        /\ \A q \in DOMAIN t : Kind(t, q) # "Digest" => t[q].data = w[q].data
        /\ \A q \in DOMAIN t : Kind(t, q) = "Digest" => t[q].data.digest = Subreference(DataOf(w), q)
        /\ \A q \in DOMAIN t : t[q].cached_reference \in {NoReference, Subreference(DataOf(w), q)}
    BY <1>1 DEF Reveals
  <1>8. \A r \in Digests(u) : Ends(u, r)
    BY <1>3 DEF Digests, Shape
  <1>9. \A x, r : Shown(u, x) /\ r \in Digests(u) => ~IsPrefix(r, x)
    BY ShownNotHidden
  <1>10. DOMAIN v \subseteq Positions
    BY <1>2, <1>3, <1>5 DEF Shown, Hidden
  <1>11. \A q \in DOMAIN u : q \in Digests(u) \/ Shown(u, q)
    BY DEF Digests, Shown
  <1>12. \A r \in Digests(u) : Hidden(u, w, r)
    BY <1>2, <1>6, PrefixSelf DEF Hidden
  <1>13. \A q : q \in DOMAIN u <=> q \in DOMAIN v /\ \A r \in Digests(u) : ~IsStrictPrefix(r, q)
    <2>1. ASSUME NEW q \in DOMAIN u
          PROVE  q \in DOMAIN v /\ \A r \in Digests(u) : ~IsStrictPrefix(r, q)
      BY <1>5, <1>8, <1>11, <1>12 DEF Ends
    <2>2. ASSUME NEW q \in DOMAIN v, \A r \in Digests(u) : ~IsStrictPrefix(r, q)
          PROVE  q \in DOMAIN u
      <3>1. CASE Shown(u, q)
        BY <3>1 DEF Shown
      <3>2. CASE Hidden(u, w, q)
        <4>1. PICK r \in Digests(u) : IsPrefix(r, q)
          BY <3>2 DEF Hidden
        <4>2. r = q
          BY <4>1, <2>2 DEF IsStrictPrefix
        <4> QED
          BY <4>2, <1>6
      <3> QED
        BY <3>1, <3>2, <1>5
    <2> QED
      BY <2>1, <2>2
  (* Behind a digest everything is as it was. *)
  <1>14. ASSUME NEW x \in Positions, NEW r \in Digests(u), IsPrefix(r, x)
         PROVE  (x \in DOMAIN v <=> x \in DOMAIN w) /\ (x \in DOMAIN w => v[x] = w[x])
    <2>1. ~Shown(u, x)
      BY <1>9, <1>14
    <2>2. x \in DOMAIN w => Hidden(u, w, x)
      BY <1>14 DEF Hidden
    <2>3. Hidden(u, w, x) => x \in DOMAIN w
      BY DEF Hidden
    <2> QED
      BY <2>1, <2>2, <2>3, <1>5
  <1>15. ASSUME NEW q, Hidden(u, w, q)
         PROVE  q \in DOMAIN w /\ q \in Positions /\ Kept(w, v, q)
    <2>1. PICK r \in Digests(u) : IsPrefix(r, q)
      BY <1>15 DEF Hidden
    <2>2. q \in DOMAIN w /\ q \in Positions /\ r \in Positions
      BY <1>15, <1>2, <1>6 DEF Hidden
    <2>3. \A x \in Positions : IsPrefix(q, x) => IsPrefix(r, x)
      BY <2>1, <2>2, PrefixTrans
    <2>4. \A x \in Positions : IsPrefix(q, x) => (x \in DOMAIN v <=> x \in DOMAIN w) /\ (x \in DOMAIN w => v[x] = w[x])
      BY <2>3, <1>14
    <2> QED
      BY <2>2, <2>4 DEF Kept
  <1>16. ASSUME NEW q \in Digests(u)
         PROVE  u[q].data.digest = Subreference(DataOf(v), q)
    <2>1. Subreference(DataOf(v), q) = Subreference(DataOf(w), q)
      BY <1>2, <1>10, <1>12, <1>15, KeptReference
    <2>2. q \in DOMAIN t /\ Kind(t, q) = "Digest" /\ u[q].data = t[q].data
      BY <1>6 DEF Digests
    <2> QED
      BY <2>1, <2>2, <1>7
  (* A cache of u is one of t with nothing changed below it, shown or hidden. *)
  <1>17. ASSUME NEW q \in DOMAIN u, u[q].cached_reference # NoReference
         PROVE  u[q].cached_reference = Subreference(DataOf(v), q)
    <2>1. Kept(t, u, q) /\ q \in Positions
      BY <1>17, <1>3 DEF CachesFrom
    <2>2. \A x \in Positions : IsPrefix(q, x) => (x \in DOMAIN u <=> x \in DOMAIN t) /\ (x \in DOMAIN t => u[x] = t[x])
      BY <2>1 DEF Kept
    <2>3. q \in DOMAIN t /\ u[q] = t[q] /\ q \in DOMAIN w
      BY <2>1, <2>2, <1>7, PrefixSelf DEF Kept
    <2>4. ASSUME NEW x \in Positions, IsPrefix(q, x)
          PROVE  (x \in DOMAIN v <=> x \in DOMAIN w) /\ (x \in DOMAIN w => v[x] = w[x])
      <3>1. CASE \E r \in Digests(u) : IsPrefix(r, x)
        BY <3>1, <1>14
      <3>2. CASE \A r \in Digests(u) : ~IsPrefix(r, x)
        <4>1. x \notin Digests(u) /\ ~Hidden(u, w, x) /\ \A r \in Digests(u) : ~IsStrictPrefix(r, x)
          BY <3>2, PrefixSelf DEF Hidden, IsStrictPrefix
        <4>2. x \in DOMAIN v <=> x \in DOMAIN u
          BY <4>1, <1>13
        <4>3. x \in DOMAIN u <=> x \in DOMAIN t
          BY <2>2, <2>4
        <4>4. x \in DOMAIN t <=> x \in DOMAIN w
          BY <4>1, <1>6, <1>7
        <4>5. ASSUME x \in DOMAIN w
              PROVE  v[x] = w[x]
          <5>1. x \in DOMAIN t /\ x \in DOMAIN u /\ u[x] = t[x]
            BY <4>3, <4>4, <4>5, <2>2, <2>4
          <5>2. Shown(u, x) /\ Kind(t, x) # "Digest"
            BY <5>1, <4>1, <1>6 DEF Shown, Digests
          <5>3. u[x].data = w[x].data
            BY <5>1, <5>2, <1>7
          <5>4. v[x] = Node(u[x].data)
            BY <5>2, <1>4 DEF Combined
          <5>5. w[x] = Node(w[x].data)
            BY <4>5, <1>2
          <5> QED
            BY <5>3, <5>4, <5>5, Zenon
        <4> QED
          BY <4>2, <4>3, <4>4, <4>5
      <3> QED
        BY <3>1, <3>2
    <2>5. Kept(w, v, q)
      BY <2>3, <2>4 DEF Kept
    <2>6. Subreference(DataOf(v), q) = Subreference(DataOf(w), q)
      BY <2>1, <2>5, <1>2, <1>10, KeptReference
    <2> QED
      BY <2>3, <2>6, <1>7, <1>17
  <1>18. Reveals(u, v)
    <2>1. \A q \in DOMAIN u : Kind(u, q) # "Digest" => u[q].data = v[q].data
      BY <1>5 DEF Shown
    <2>2. \A q \in DOMAIN u : Kind(u, q) = "Digest" => u[q].data.digest = Subreference(DataOf(v), q)
      BY <1>16 DEF Digests
    <2>3. \A q \in DOMAIN u : u[q].cached_reference \in {NoReference, Subreference(DataOf(v), q)}
      BY <1>17
    <2> QED
      BY <2>1, <2>2, <2>3, <1>13 DEF Reveals
  (* What v holds. *)
  <1>19. IsTrie(v)
    <2>1. \A p \in DOMAIN v : IsData(v[p].data)
      BY <1>2, <1>3, <1>5 DEF IsTrie, Shown, Hidden
    <2> QED
      BY <2>1, <1>5, <1>10 DEF IsTrie
  <1>20. Rooted(v)
    <2>1. SUFFICES ASSUME NEW x \in DOMAIN v
                   PROVE  << >> \in DOMAIN v
      BY DEF Rooted
    <2>2. DOMAIN u # {}
      BY <1>5, <1>6 DEF Shown, Hidden
    <2> QED
      BY <2>2, <1>3, <1>13 DEF Rooted
  <1>21. Bounded(v)
    BY <1>2, <1>3, <1>5 DEF Bounded, Shown, Hidden
  <1>22. ASSUME NEW p \in DOMAIN v
         PROVE  v[p] = Node(v[p].data)
    BY <1>2, <1>4, <1>5 DEF Combined, Hidden
  <1>23. ASSUME NEW p, Shown(u, p), NEW q \in DOMAIN v, IsStrictPrefix(p, q)
         PROVE  \E r \in DOMAIN u : IsStrictPrefix(p, r) /\ IsPrefix(r, q)
    <2>1. p \in Positions /\ q \in Positions /\ p \in DOMAIN u
      BY <1>23, <1>3, <1>10 DEF Shown
    <2>2. CASE Shown(u, q)
      BY <2>1, <2>2, <1>23, PrefixSelf DEF Shown
    <2>3. CASE Hidden(u, w, q)
      <3>1. PICK r \in Digests(u) : IsPrefix(r, q)
        BY <2>3 DEF Hidden
      <3>2. r \in DOMAIN u /\ r \in Positions /\ ~IsPrefix(r, p)
        BY <1>3, <1>6, <1>9, <1>23
      <3>3. IsPrefix(p, q)
        BY <1>23 DEF IsStrictPrefix
      <3>4. IsPrefix(p, r)
        BY <3>1, <3>2, <3>3, <2>1, PrefixesOfOne, Lengths
      <3>5. p # r
        BY <3>2, <2>1, PrefixSelf
      <3> QED
        BY <3>1, <3>2, <3>4, <3>5 DEF IsStrictPrefix
    <2> QED
      BY <2>2, <2>3, <1>5
  <1>24. ASSUME NEW p \in DOMAIN v
         PROVE  Loose(v, p)
    <2>1. CASE Hidden(u, w, p)
      <3>1. Kept(w, v, p) /\ p \in Positions /\ Loose(w, p)
        BY <2>1, <1>2, <1>15
      <3> QED
        BY <3>1, <1>2, <1>10, KeptLoose
    <2>2. CASE Shown(u, p)
      <3>1. p \in DOMAIN u /\ p \in Positions /\ Shape(u, p) /\ Kind(v, p) = Kind(u, p) /\ End(v, p) = End(u, p)
        BY <2>2, <1>3, <1>5 DEF Shown, Kind, End
      <3>2. \A q \in DOMAIN u : q \in DOMAIN v
        BY <1>13
      <3>3. ASSUME Kind(u, p) = "Branch"
            PROVE  Forked(v, p) /\ Joined(v, p)
        <4>1. Forked(u, p) /\ Joined(u, p)
          BY <3>1, <3>3 DEF Shape
        <4>2. Forked(v, p)
          BY <4>1, <3>2 DEF Forked, Children
        <4>3. ASSUME NEW q \in DOMAIN v, IsStrictPrefix(p, q)
              PROVE  SubSeq(q, 1, Len(p) + 1) \in DOMAIN v
          <5>1. PICK r \in DOMAIN u : IsStrictPrefix(p, r) /\ IsPrefix(r, q)
            BY <4>3, <2>2, <1>23
          <5>2. r \in Positions /\ q \in Positions
            BY <1>3, <1>10
          <5>3. Len(p) + 1 \in 0..Len(r)
            BY <5>1, <5>2, <3>1, StrictIs, Lengths
          <5>4. SubSeq(q, 1, Len(p) + 1) = SubSeq(r, 1, Len(p) + 1)
            BY <5>1, <5>2, <5>3, StemThrough
          <5>5. SubSeq(r, 1, Len(p) + 1) \in DOMAIN u
            BY <5>1, <4>1 DEF Joined
          <5> QED
            BY <5>4, <5>5, <3>2, Zenon
        <4> QED
          BY <4>2, <4>3 DEF Joined
      <3>4. ASSUME Kind(u, p) = "Extension"
            PROVE  Leads(v, p, End(u, p))
        <4>1. PICK c \in DOMAIN u : c = End(u, p) /\ Leads(u, p, c)
          BY <3>1, <3>4 DEF Shape, Leads
        <4>2. c \in DOMAIN v /\ c \in Positions /\ IsStrictPrefix(p, c)
          BY <4>1, <3>2, <1>3 DEF Leads
        <4>3. ASSUME NEW q \in DOMAIN v, IsStrictPrefix(p, q)
              PROVE  IsPrefix(c, q)
          <5>1. PICK r \in DOMAIN u : IsStrictPrefix(p, r) /\ IsPrefix(r, q)
            BY <4>3, <2>2, <1>23
          <5>2. r \in Positions /\ q \in Positions
            BY <1>3, <1>10
          <5>3. IsPrefix(c, r)
            BY <5>1, <4>1 DEF Leads
          <5> QED
            BY <5>1, <5>2, <5>3, <4>2, PrefixTrans
        <4>4. Leads(v, p, c)
          BY <4>2, <4>3 DEF Leads
        <4> QED
          BY <4>1, <4>4
      <3>5. ASSUME Kind(u, p) = "Leaf"
            PROVE  Ends(v, p)
        <4>1. Ends(u, p)
          BY <3>1, <3>5 DEF Shape
        <4> QED
          BY <4>1, <2>2, <1>23 DEF Ends
      <3> QED
        BY <3>1, <3>3, <3>4, <3>5 DEF Loose
    <2> QED
      BY <2>1, <2>2, <1>5
  <1>25. LeavesIn(v, new)
    <2>1. SUFFICES ASSUME NEW p \in DOMAIN v, Kind(v, p) = "Leaf"
                   PROVE  End(v, p) \in Keys /\ new[End(v, p)] = v[p].data.value
      BY DEF LeavesIn
    <2>2. CASE Shown(u, p)
      <3>1. p \in DOMAIN u /\ Kind(v, p) = Kind(u, p) /\ End(v, p) = End(u, p) /\ v[p].data = u[p].data
        BY <2>2, <1>5 DEF Shown, Kind, End
      <3> QED
        BY <3>1, <2>1, <1>3 DEF LeavesIn
    <2>3. CASE Hidden(u, w, p)
      <3>1. p \in DOMAIN w /\ Kind(w, p) = "Leaf" /\ End(v, p) = End(w, p) /\ v[p].data = w[p].data
        BY <2>1, <2>3, <1>5 DEF Hidden, Kind, End
      <3>2. PICK k \in Keys : k = End(w, p) /\ map[k] = w[p].data.value
        BY <3>1, <1>2 DEF LeavesIn
      <3>3. PICK r \in Digests(u) : IsPrefix(r, p)
        BY <2>3 DEF Hidden
      <3>4. r \in DOMAIN u /\ Kind(u, r) = "Digest" /\ r \in Positions /\ p \in Positions /\ k \in Positions
        BY <1>2, <1>3, <3>1, KeysLength DEF Digests
      <3>5. IsPrefix(p, k)
        BY <3>1, <3>2, <1>2, KindIs
      <3>6. IsPrefix(r, k)
        BY <3>3, <3>4, <3>5, PrefixTrans
      <3>7. k # key
        BY <3>4, <3>6 DEF Sure, Open
      <3>8. new[k] = map[k]
        BY <3>7 DEF UpdatedTo
      <3> QED
        BY <3>1, <3>2, <3>8
    <2> QED
      BY <2>2, <2>3, <1>5
  <1>26. Whole(v, new)
    <2>1. NoDigest(v)
      BY <1>2, <1>5 DEF Whole, NoDigest, Shown, Hidden, Kind
    <2>2. ASSUME NEW k \in Keys, HasLeaf(u, k)
          PROVE  HasLeaf(v, k)
      <3>1. PICK p \in DOMAIN u : Kind(u, p) = "Leaf" /\ End(u, p) = k
        BY <2>2 DEF HasLeaf
      <3>2. Shown(u, p)
        BY <3>1 DEF Shown
      <3> QED
        BY <3>1, <3>2, <1>5 DEF HasLeaf, Kind, End
    <2>3. ASSUME NEW k \in Keys, new[k] # NoValue
          PROVE  HasLeaf(v, k)
      <3>1. CASE k = key
        BY <3>1, <2>2, <2>3 DEF Sure
      <3>2. CASE k # key
        <4>1. map[k] # NoValue
          BY <3>2, <2>3 DEF UpdatedTo
        <4>2. PICK p \in DOMAIN w : Kind(w, p) = "Leaf" /\ End(w, p) = k
          BY <4>1, <1>2 DEF Whole, HasLeaf
        <4>3. CASE Hidden(u, w, p)
          BY <4>2, <4>3, <1>5 DEF HasLeaf, Kind, End
        <4>4. CASE ~Hidden(u, w, p)
          <5>1. \A r \in Digests(t) : ~IsPrefix(r, p)
            BY <4>4, <1>6 DEF Hidden
          <5>2. p \in DOMAIN t /\ p \in Positions
            BY <5>1, <1>2, <1>7 DEF IsStrictPrefix
          <5>3. Kind(t, p) # "Digest"
            BY <5>1, <5>2, PrefixSelf DEF Digests
          <5>4. t[p].data = w[p].data
            BY <5>2, <5>3, <1>7
          <5>5. HasLeaf(t, k)
            BY <5>2, <5>4, <4>2 DEF HasLeaf, Kind, End
          <5>6. Sure(t, map, k)
            BY <5>5, LeafOpen DEF Sure
          <5>7. Sure(u, new, k)
            BY <5>6, <3>2
          <5> QED
            BY <5>7, <2>2, <2>3 DEF Sure
        <4> QED
          BY <4>3, <4>4
      <3> QED
        BY <3>1, <3>2
    <2> QED
      BY <2>1, <2>3 DEF Whole
  <1>27. Holds(v, new)
    BY <1>19, <1>20, <1>21, <1>22, <1>24, <1>25, <1>26 DEF Holds
  <1> QED
    BY <1>18, <1>27 DEF Faithful

-----------------------------------------------------------------------------
(* The root of a map, read as a trie, is in good shape itself. *)

(* There is a fork where two stems part. *)
LEMMA StemsPart ==
  ASSUME NEW keys, keys \subseteq Positions, NEW k \in keys, NEW l \in keys,
         NEW a \in Positions, NEW b \in Positions, NEW p \in Positions,
         IsPrefix(a, k), IsPrefix(b, l), IsPrefix(p, a), IsPrefix(p, b), ~IsPrefix(a, b), ~IsPrefix(b, a)
  PROVE  \E f \in Forks(keys) : f \in Positions /\ IsPrefix(p, f) /\ IsStrictPrefix(f, a) /\ IsStrictPrefix(f, b)
  <1>1. PICK n : n = lcp(a, b)
    BY SMTT(30)
  <1>2. /\ n \in 0..Len(a) /\ n <= Len(b) /\ SubSeq(a, 1, n) = SubSeq(b, 1, n)
        /\ n < Len(a) /\ n < Len(b) => a[n + 1] # b[n + 1]
    BY <1>1, LcpIs
  <1>3. /\ Len(a) \in Nat /\ Len(b) \in Nat /\ Len(p) \in Nat /\ n \in 0..Len(b)
        /\ k \in Positions /\ l \in Positions
    BY <1>2, Lengths
  <1>4. PICK f \in Positions : f = SubSeq(a, 1, n) /\ Len(f) = n /\ IsPrefix(f, a)
    BY <1>2, StemPrefix, Zenon
  <1>5. IsPrefix(f, b)
    BY <1>2, <1>3, <1>4, StemPrefix, Zenon
  <1>6. IsStrictPrefix(f, a) /\ IsStrictPrefix(f, b)
    BY <1>4, <1>5 DEF IsStrictPrefix
  <1>7. Len(f) < Len(a) /\ Len(f) < Len(b) /\ Len(f) \in Nat
    BY <1>6, StrictIs, Lengths
  <1>8. a[Len(f) + 1] # b[Len(f) + 1]
    BY <1>2, <1>4, <1>7
  <1>9. Len(f) + 1 \in 1..Len(a) /\ Len(f) + 1 \in 1..Len(b)
    BY <1>3, <1>7
  <1>10. a[Len(f) + 1] = k[Len(f) + 1] /\ b[Len(f) + 1] = l[Len(f) + 1]
    BY <1>3, <1>9, PrefixIs
  <1>11. IsStrictPrefix(f, k) /\ IsStrictPrefix(f, l)
    <2>1. IsPrefix(f, k) /\ IsPrefix(f, l)
      BY <1>3, <1>4, <1>5, PrefixTrans
    <2>2. Len(a) <= Len(k) /\ Len(b) <= Len(l) /\ Len(k) \in Nat /\ Len(l) \in Nat
      BY <1>3, PrefixLength, Lengths
    <2>3. Len(f) < Len(k) /\ Len(f) < Len(l)
      BY <2>2, <1>3, <1>7
    <2> QED
      BY <2>1, <2>3, <1>3, StrictIs
  <1>12. Part(keys, f)
    BY <1>8, <1>10, <1>11 DEF Part
  <1>13. f \in Forks(keys)
    BY <1>12, ForksAre
  <1>14. IsPrefix(p, f)
    <2>1. CASE Len(p) <= Len(f)
      BY <2>1, <1>4, PrefixesOfOne
    <2>2. CASE Len(f) < Len(p)
      <3>1. Len(f) + 1 \in 1..Len(p)
        BY <2>2, <1>3, <1>7
      <3>2. p[Len(f) + 1] = a[Len(f) + 1] /\ p[Len(f) + 1] = b[Len(f) + 1]
        BY <3>1, PrefixIs
      <3> QED
        BY <3>2, <1>8
    <2> QED
      BY <2>1, <2>2, <1>3, <1>7
  <1> QED
    BY <1>6, <1>13, <1>14

(* What belongs in a place, by cases. *)
LEMMA DataAtIs ==
  ASSUME NEW keys, keys \subseteq Positions, NEW map, NEW p, p \in Stems(keys), NEW d,
         d = DataAt(p, map, keys, Forks(keys))
  PROVE  /\ p \in Forks(keys) => d = Branch
         /\ (\A f \in Forks(keys) : ~IsPrefix(p, f)) =>
              \E k \in keys : IsPrefix(p, k) /\ d = Leaf(Drop(k, Len(p)), map[k])
         /\ p \notin Forks(keys) /\ (\E f \in Forks(keys) : IsPrefix(p, f)) =>
              \E f \in Forks(keys) : /\ IsStrictPrefix(p, f)
                                     /\ \A g \in Forks(keys) : IsPrefix(p, g) => Len(f) <= Len(g)
                                     /\ d = Extension(Drop(f, Len(p)))
  <1> DEFINE forks == Forks(keys)
             below == {f \in forks : IsPrefix(p, f)}
             next == CHOOSE f \in below : \A g \in below : Len(f) <= Len(g)
             key == CHOOSE k \in keys : IsPrefix(p, k)
  <1>1. d = CASE p \in forks -> Branch
              [] below = {}  -> Leaf(Drop(key, Len(p)), map[key])
              [] OTHER       -> Extension(Drop(next, Len(p)))
    BY Zenon DEF DataAt
  <1>2. \A f : f \in below <=> f \in forks /\ IsPrefix(p, f)
    OBVIOUS
  <1>3. (\E k \in keys : IsPrefix(p, k)) => key \in keys /\ IsPrefix(p, key)
    OBVIOUS
  <1>4. (\E f \in below : \A g \in below : Len(f) <= Len(g)) =>
          next \in below /\ \A g \in below : Len(next) <= Len(g)
    BY Zenon
  <1>5. p \in Positions /\ key \in keys /\ IsPrefix(p, key)
    BY <1>3, StemsAre
  <1>6. \A f \in forks : f \in Positions
    BY ForksAre
  <1> HIDE DEF forks, below, next, key
  <1>7. p \in forks => d = Branch
    <2>1. p \in forks => below # {}
      BY <1>2, <1>5, PrefixSelf
    <2> QED
      BY <2>1, <1>1
  <1>8. ASSUME \A f \in forks : ~IsPrefix(p, f)
        PROVE  d = Leaf(Drop(key, Len(p)), map[key])
    <2>1. below = {} /\ p \notin forks
      BY <1>2, <1>5, <1>8, PrefixSelf
    <2> QED
      BY <2>1, <1>1, Zenon
  <1>9. ASSUME p \notin forks, \E f \in forks : IsPrefix(p, f)
        PROVE  /\ next \in forks /\ IsStrictPrefix(p, next)
               /\ \A g \in forks : IsPrefix(p, g) => Len(next) <= Len(g)
               /\ d = Extension(Drop(next, Len(p)))
    <2>1. below # {} /\ below \subseteq Positions
      BY <1>2, <1>6, <1>9
    <2>2. \E f \in below : \A g \in below : Len(f) <= Len(g)
      BY <2>1, ShortestOne
    <2>3. next \in below /\ \A g \in below : Len(next) <= Len(g)
      BY <2>2, <1>4
    <2>4. d = Extension(Drop(next, Len(p)))
      BY <2>1, <1>1, <1>9, Zenon
    <2> QED
      BY <2>3, <2>4, <1>2, <1>9 DEF IsStrictPrefix
  <1> QED
    BY <1>5, <1>7, <1>8, <1>9 DEF forks

(* The root of a map as a trie. *)
TrieOf(map) == [p \in DOMAIN Root(map) |-> Node(Root(map)[p])]

KeysIn(map) == {k \in Keys : map[k] # NoValue}

(* The nodes of the trie of a map. *)
LEMMA TrieOfIs ==
  ASSUME NEW map, IsMap(map), NEW keys, keys = KeysIn(map), NEW t, t = TrieOf(map)
  PROVE  /\ keys \subseteq Positions
         /\ t = [p \in DOMAIN t |-> t[p]]
         /\ \A p : p \in DOMAIN t <=> Place(keys, p)
         /\ \A p \in DOMAIN t : /\ t[p].data = DataAt(p, map, keys, Forks(keys))
                                /\ t[p].cached_reference = NoReference
                                /\ t[p] = Node(t[p].data)
         /\ DataOf(t) = Root(map)
  <1> DEFINE nodes == {p \in Stems(keys) : \/ p \in Forks(keys) \union {<< >>}
                                           \/ SubSeq(p, 1, Len(p) - 1) \in Forks(keys)}
  <1>1. keys = {k \in DOMAIN map : map[k] # NoValue}
    BY DEF KeysIn, IsMap
  <1>2. Root(map) = [p \in nodes |-> DataAt(p, map, keys, Forks(keys))]
    BY <1>1, Zenon DEF Root
  <1>3. \A p : p \in nodes <=> Place(keys, p)
    BY DEF Place
  <1> HIDE DEF nodes
  <1>4. PICK f : f = Root(map)
    OBVIOUS
  <1>5. /\ f = [p \in DOMAIN f |-> f[p]] /\ DOMAIN f = nodes
        /\ \A p \in nodes : f[p] = DataAt(p, map, keys, Forks(keys))
    BY <1>2, <1>4
  <1>6. t = [p \in DOMAIN f |-> Node(f[p])]
    BY <1>4, Zenon DEF TrieOf
  <1>7. DOMAIN t = DOMAIN f /\ t = [p \in DOMAIN t |-> t[p]] /\ \A p \in DOMAIN t : t[p] = Node(f[p])
    BY <1>6
  <1>8. \A p \in DOMAIN t : t[p].data = f[p] /\ t[p].cached_reference = NoReference /\ t[p] = Node(t[p].data)
    BY <1>7, NodeIs
  <1>9. keys \subseteq Positions
    BY KeysLength DEF KeysIn
  <1>10. DataOf(t) = f
    <2>1. PICK g : g = DataOf(t)
      OBVIOUS
    <2>2. g = [p \in DOMAIN g |-> g[p]] /\ DOMAIN g = DOMAIN t /\ \A p \in DOMAIN t : g[p] = t[p].data
      BY <2>1 DEF DataOf
    <2>3. g = f
      BY <2>2, <1>5, <1>7, <1>8, SameFunction
    <2> QED
      BY <2>1, <2>3
  <1> QED
    BY <1>3, <1>4, <1>5, <1>7, <1>8, <1>9, <1>10

(* Its nodes. *)
Fitting(t, map, keys, p) ==
  \/ /\ Kind(t, p) = "Branch"
     /\ p \in Forks(keys)
  \/ /\ Kind(t, p) = "Leaf"
     /\ End(t, p) \in keys /\ map[End(t, p)] = t[p].data.value /\ IsPrefix(p, End(t, p))
     /\ \A f \in Forks(keys) : ~IsPrefix(p, f)
  \/ /\ Kind(t, p) = "Extension"
     /\ p \notin Forks(keys)
     /\ End(t, p) \in Forks(keys) /\ IsStrictPrefix(p, End(t, p))
     /\ \A g \in Forks(keys) : IsPrefix(p, g) => Len(End(t, p)) <= Len(g)

(* Each node of it is what its place among the keys calls for. *)
LEMMA TrieOfFits ==
  ASSUME NEW map, IsMap(map), NEW keys, keys = KeysIn(map), NEW t, t = TrieOf(map),
         NEW p \in DOMAIN t
  PROVE  IsData(t[p].data) /\ Fitting(t, map, keys, p)
  <1>1. /\ keys \subseteq Positions
        /\ t[p].data = DataAt(p, map, keys, Forks(keys))
        /\ Place(keys, p)
    BY TrieOfIs
  <1>2. p \in Stems(keys) /\ p \in Positions
    BY <1>1, StemsAre DEF Place
  <1>3. PICK d : d = t[p].data
    OBVIOUS
  <1>4. d = DataAt(p, map, keys, Forks(keys)) /\ Kind(t, p) = d.kind
    BY <1>1, <1>3 DEF Kind
  <1>5. \A f \in Forks(keys) : f \in Positions
    BY <1>1, ForksAre
  <1>6. CASE p \in Forks(keys)
    <2>1. d = Branch
      BY <1>1, <1>2, <1>4, <1>6, DataAtIs
    <2> QED
      BY <2>1, <1>3, <1>4, <1>6, BranchIs DEF Fitting
  <1>7. CASE \A f \in Forks(keys) : ~IsPrefix(p, f)
    <2>1. PICK k \in keys : IsPrefix(p, k) /\ d = Leaf(Drop(k, Len(p)), map[k])
      BY <1>1, <1>2, <1>4, <1>7, DataAtIs
    <2>2. k \in Positions /\ k \in Keys /\ map[k] # NoValue
      BY <1>1 DEF KeysIn
    <2>3. PICK nibs \in Positions : nibs = Drop(k, Len(p)) /\ p \o nibs = k
      BY <2>1, <2>2, <1>2, PrefixRest
    <2>4. d.kind = "Leaf" /\ d.nibs = nibs /\ d.value = map[k] /\ IsData(d)
      BY <2>1, <2>2, <2>3, LeafIs
    <2>5. End(t, p) = k
      BY <2>3, <2>4, <1>3, Zenon DEF End
    <2> QED
      BY <2>1, <2>4, <2>5, <1>3, <1>4, <1>7 DEF Fitting
  <1>8. CASE p \notin Forks(keys) /\ \E f \in Forks(keys) : IsPrefix(p, f)
    <2>1. PICK f \in Forks(keys) : /\ IsStrictPrefix(p, f)
                                   /\ \A g \in Forks(keys) : IsPrefix(p, g) => Len(f) <= Len(g)
                                   /\ d = Extension(Drop(f, Len(p)))
      BY <1>1, <1>2, <1>4, <1>8, DataAtIs
    <2>2. f \in Positions /\ IsPrefix(p, f)
      BY <2>1, <1>5 DEF IsStrictPrefix
    <2>3. PICK nibs \in Positions : nibs = Drop(f, Len(p)) /\ p \o nibs = f
      BY <2>2, <1>2, PrefixRest
    <2>4. d.kind = "Extension" /\ d.nibs = nibs /\ IsData(d)
      BY <2>1, <2>3, ExtensionIs
    <2>5. End(t, p) = f
      BY <2>3, <2>4, <1>3, Zenon DEF End
    <2> QED
      BY <2>1, <2>4, <2>5, <1>3, <1>4, <1>8 DEF Fitting
  <1> QED
    BY <1>6, <1>7, <1>8

(* Root(map), read as a trie, is a whole and good trie of the map. *)
LEMMA TrieOfGood ==
  ASSUME NEW map, IsMap(map), NEW t, t = TrieOf(map)
  PROVE  Good(t, map) /\ Whole(t, map) /\ Reveals(t, t) /\ Holds(t, map)
  <1>1. PICK keys : keys = KeysIn(map)
    OBVIOUS
  <1>2. /\ keys \subseteq Positions /\ t = [p \in DOMAIN t |-> t[p]]
        /\ \A p : p \in DOMAIN t <=> Place(keys, p)
        /\ \A p \in DOMAIN t : t[p].cached_reference = NoReference /\ t[p] = Node(t[p].data)
    BY <1>1, TrieOfIs
  <1>3. \A p \in DOMAIN t : IsData(t[p].data) /\ Fitting(t, map, keys, p)
    BY <1>1, TrieOfFits
  <1>4. /\ \A k \in keys : k \in Keys /\ Len(k) = KeyLength /\ map[k] # NoValue
        /\ KeyLength \in Nat
    BY <1>1, KeysLength DEF KeysIn
  <1>5. \A p : p \in Stems(keys) <=> p \in Positions /\ \E k \in keys : IsPrefix(p, k)
    BY <1>2, StemsAre
  <1>6. \A f \in Forks(keys) : f \in Positions /\ Part(keys, f) /\ f \in Stems(keys) /\ f \in DOMAIN t
    <2>1. ASSUME NEW f \in Forks(keys)
          PROVE  f \in Positions /\ Part(keys, f) /\ f \in Stems(keys) /\ f \in DOMAIN t
      <3>1. f \in Positions /\ Part(keys, f)
        BY <1>2, ForksAre
      <3>2. f \in Stems(keys)
        BY <3>1, <1>5 DEF Part, IsStrictPrefix
      <3> QED
        BY <3>1, <3>2, <1>2 DEF Place
    <2> QED
      BY <2>1
  <1>7. DOMAIN t \subseteq Positions
    BY <1>2, <1>5 DEF Place
  <1>8. IsTrie(t)
    BY <1>2, <1>3, <1>7 DEF IsTrie
  <1>9. Rooted(t)
    <2>1. ASSUME NEW p \in DOMAIN t
          PROVE  << >> \in DOMAIN t
      <3>1. PICK k \in keys : IsPrefix(p, k)
        BY <1>2, <1>5 DEF Place
      <3>2. << >> \in Stems(keys)
        BY <3>1, <1>2, <1>5, EmptyPosition, PrefixEmpty
      <3> QED
        BY <3>2, <1>2 DEF Place
    <2> QED
      BY <2>1 DEF Rooted
  <1>10. Bounded(t)
    <2>1. ASSUME NEW p \in DOMAIN t
          PROVE  Len(p) <= KeyLength
      <3>1. PICK k \in keys : p \in Positions /\ IsPrefix(p, k)
        BY <1>2, <1>5 DEF Place
      <3> QED
        BY <3>1, <1>2, <1>4, PrefixLength
    <2> QED
      BY <2>1 DEF Bounded
  <1>11. LeavesIn(t, map)
    BY <1>3, <1>4 DEF LeavesIn, Fitting
  <1>12. NoDigest(t)
    BY <1>3 DEF NoDigest, Fitting
  (* Strictly below a node that is no fork there is a fork before the next node. *)
  <1>13. ASSUME NEW p \in DOMAIN t, p \notin Forks(keys), NEW q \in DOMAIN t, IsStrictPrefix(p, q)
         PROVE  \E f \in Forks(keys) : IsPrefix(p, f) /\ IsPrefix(f, q)
    <2>1. p \in Positions /\ q \in Positions /\ Place(keys, q) /\ Len(p) \in Nat /\ Len(q) \in Nat
      BY <1>2, <1>7, Lengths
    <2>2. IsPrefix(p, q) /\ Len(p) < Len(q)
      BY <2>1, <1>13, StrictIs
    <2>3. CASE q \in Forks(keys)
      BY <2>1, <2>2, <2>3, PrefixSelf
    <2>4. q # << >>
      BY <2>1, <2>2, EmptyPosition
    <2>5. CASE SubSeq(q, 1, Len(q) - 1) \in Forks(keys)
      <3>1. Len(q) - 1 \in 0..Len(q) /\ Len(p) <= Len(q) - 1
        BY <2>1, <2>2
      <3>2. PICK f \in Positions : f = SubSeq(q, 1, Len(q) - 1) /\ Len(f) = Len(q) - 1 /\ IsPrefix(f, q)
        BY <3>1, <2>1, StemPrefix, Zenon
      <3>3. IsPrefix(p, f)
        <4>1. Len(p) <= Len(f)
          BY <3>1, <3>2
        <4> QED
          BY <4>1, <3>2, <2>1, <2>2, PrefixesOfOne
      <3> QED
        BY <3>2, <3>3, <2>5
    <2> QED
      BY <2>1, <2>3, <2>4, <2>5 DEF Place
  <1>14. ASSUME NEW p \in DOMAIN t
         PROVE  Shape(t, p)
    <2>1. p \in Positions /\ Len(p) \in Nat
      BY <1>7, Lengths
    <2>2. ASSUME p \in Forks(keys), NEW q \in Positions, q \in Stems(keys), IsStrictPrefix(p, q)
          PROVE  SubSeq(q, 1, Len(p) + 1) \in DOMAIN t
      <3>1. IsPrefix(p, q) /\ Len(p) < Len(q)
        BY <2>1, <2>2, StrictIs
      <3>2. PICK c \in Positions : /\ c = SubSeq(q, 1, Len(p) + 1) /\ Len(c) = Len(p) + 1
                                   /\ IsPrefix(p, c) /\ IsPrefix(c, q)
        BY <3>1, <2>1, NextStem, Zenon
      <3>3. c \in Stems(keys)
        BY <3>2, <2>2, <1>2, <1>5, PrefixTrans
      <3>4. SubSeq(c, 1, Len(p)) = p
        BY <3>2, <2>1, StemOfPrefix
      <3>5. Len(c) - 1 = Len(p)
        <4>1. Len(c) = Len(p) + 1
          BY <3>2
        <4> QED
          BY <4>1, <2>1
      <3>6. SubSeq(c, 1, Len(c) - 1) \in Forks(keys)
        BY <3>4, <3>5, <2>2
      <3> QED
        BY <3>2, <3>3, <3>6, <1>2 DEF Place
    <2>3. ASSUME p \in Forks(keys)
          PROVE  Forked(t, p) /\ Joined(t, p)
      <3>1. PICK k \in keys, l \in keys : IsStrictPrefix(p, k) /\ IsStrictPrefix(p, l) /\ k[Len(p) + 1] # l[Len(p) + 1]
        BY <2>3, <1>6 DEF Part
      <3>2. ASSUME NEW m \in keys, IsStrictPrefix(p, m)
            PROVE  m[Len(p) + 1] \in Children(t, p)
        <4>1. m \in Positions /\ IsPrefix(p, m) /\ Len(p) < Len(m)
          BY <3>2, <2>1, <1>2, StrictIs
        <4>2. m \in Stems(keys)
          BY <4>1, <1>5, PrefixSelf
        <4>3. SubSeq(m, 1, Len(p) + 1) \in DOMAIN t
          BY <4>1, <4>2, <2>2, <2>3, <3>2
        <4>4. m[Len(p) + 1] \in Nibbles /\ SubSeq(m, 1, Len(p) + 1) = Append(p, m[Len(p) + 1])
          BY <4>1, <2>1, NextStem, Zenon
        <4>5. Append(p, m[Len(p) + 1]) \in DOMAIN t
          BY ONLY <4>3, <4>4, Zenon
        <4> QED
          BY <4>4, <4>5, Zenon DEF Children
      <3>3. Forked(t, p)
        BY <3>1, <3>2, Zenon DEF Forked
      <3>4. ASSUME NEW q \in DOMAIN t, IsStrictPrefix(p, q)
            PROVE  SubSeq(q, 1, Len(p) + 1) \in DOMAIN t
        <4>1. q \in Positions /\ q \in Stems(keys)
          BY <1>2, <1>7 DEF Place
        <4> QED
          BY <4>1, <3>4, <2>2, <2>3
      <3> QED
        BY <3>3, <3>4 DEF Joined
    <2>4. CASE Kind(t, p) = "Branch"
      <3>1. p \in Forks(keys)
        BY <2>4, <1>3 DEF Fitting
      <3> QED
        BY <2>3, <2>4, <3>1 DEF Shape
    <2>5. CASE Kind(t, p) = "Leaf"
      <3>1. \A f \in Forks(keys) : ~IsPrefix(p, f)
        BY <2>5, <1>3 DEF Fitting
      <3>2. p \notin Forks(keys)
        BY <3>1, <2>1, PrefixSelf
      <3>3. Ends(t, p)
        BY <3>1, <3>2, <1>13 DEF Ends
      <3> QED
        BY <2>5, <3>3 DEF Shape
    <2>6. CASE Kind(t, p) = "Extension"
      <3>1. PICK e : e = End(t, p)
        OBVIOUS
      <3>2. /\ p \notin Forks(keys) /\ e \in Forks(keys) /\ IsStrictPrefix(p, e)
            /\ \A g \in Forks(keys) : IsPrefix(p, g) => Len(e) <= Len(g)
        BY <2>6, <3>1, <1>3 DEF Fitting
      <3>3. e \in DOMAIN t /\ e \in Positions /\ e \in Stems(keys) /\ IsPrefix(p, e)
        BY <3>2, <1>6 DEF IsStrictPrefix
      <3>4. Kind(t, e) = "Branch"
        <4>1. \E f \in Forks(keys) : IsPrefix(e, f)
          BY <3>2, <3>3, PrefixSelf
        <4> QED
          BY <4>1, <3>2, <3>3, <1>3 DEF Fitting
      <3>5. ASSUME NEW g \in Forks(keys), IsPrefix(p, g)
            PROVE  IsPrefix(e, g)
        <4>1. g \in Positions /\ g \in Stems(keys) /\ Len(e) <= Len(g)
          BY <3>2, <3>5, <1>6
        <4>2. PICK k \in keys : IsPrefix(e, k)
          BY <3>3, <1>5
        <4>3. PICK l \in keys : IsPrefix(g, l)
          BY <4>1, <1>5
        <4>4. CASE IsPrefix(g, e)
          <5>1. g = e
            BY <4>1, <4>4, <3>3, PrefixSame
          <5> QED
            BY <5>1, <3>3, PrefixSelf
        <4>5. CASE ~IsPrefix(e, g) /\ ~IsPrefix(g, e)
          <5>1. PICK f \in Forks(keys) : f \in Positions /\ IsPrefix(p, f) /\ IsStrictPrefix(f, e)
            BY <4>1, <4>2, <4>3, <4>5, <3>3, <3>5, <2>1, <1>2, StemsPart
          <5>2. Len(e) <= Len(f) /\ Len(f) < Len(e)
            BY <5>1, <3>2, <3>3, StrictIs
          <5> QED
            BY <5>1, <5>2, <3>3, Lengths
        <4> QED
          BY <4>4, <4>5
      <3>6. ASSUME NEW q \in DOMAIN t, IsStrictPrefix(p, q)
            PROVE  IsPrefix(e, q)
        <4>1. PICK f \in Forks(keys) : IsPrefix(p, f) /\ IsPrefix(f, q)
          BY <3>2, <3>6, <1>13
        <4>2. IsPrefix(e, f) /\ f \in Positions /\ q \in Positions
          BY <4>1, <3>5, <1>6, <1>7
        <4> QED
          BY <4>1, <4>2, <3>3, PrefixTrans
      <3>7. Leads(t, p, e)
        BY <3>2, <3>3, <3>6 DEF Leads
      <3> QED
        BY <2>6, <3>1, <3>4, <3>7 DEF Shape
    <2> QED
      BY <2>4, <2>5, <2>6, <1>3 DEF Fitting
  <1>15. ASSUME NEW k \in Keys, map[k] # NoValue
         PROVE  HasLeaf(t, k)
    <2>1. k \in keys /\ k \in Positions /\ Len(k) \in Nat
      BY <1>1, <1>15, KeysLength DEF KeysIn
    <2>2. PICK S \in SUBSET Positions : S = {x \in DOMAIN t : IsPrefix(x, k)}
      BY <1>7
    <2>3. << >> \in S
      <3>1. << >> \in Stems(keys)
        BY <2>1, <1>5, EmptyPosition, PrefixEmpty
      <3> QED
        BY <3>1, <2>1, <2>2, <1>2, PrefixEmpty DEF Place
    <2>4. PICK p \in S : \A y \in S : Len(y) <= Len(p)
      BY <2>1, <2>2, <2>3, PrefixLength, LongestOne
    <2>5. p \in DOMAIN t /\ p \in Positions /\ IsPrefix(p, k) /\ Shape(t, p) /\ Len(p) \in Nat
      BY <2>2, <2>4, <1>14, Lengths
    <2>6. ASSUME NEW y \in DOMAIN t, IsPrefix(y, k), Len(p) < Len(y)
          PROVE  FALSE
      <3>1. y \in S /\ y \in Positions
        BY <2>2, <2>6, <1>7
      <3>2. Len(y) <= Len(p) /\ Len(y) \in Nat
        BY <3>1, <2>4, Lengths
      <3> QED
        BY <3>2, <2>5, <2>6
    <2>7. Kind(t, p) # "Branch"
      <3>1. SUFFICES ASSUME Kind(t, p) = "Branch"
                     PROVE  FALSE
        OBVIOUS
      <3>2. p \in Forks(keys) /\ Joined(t, p)
        BY <3>1, <2>5, <1>3 DEF Fitting, Shape
      <3>3. PICK l \in keys : IsStrictPrefix(p, l)
        BY <3>2, <1>6 DEF Part
      <3>4. Len(p) < Len(k)
        BY <3>3, <2>1, <2>5, <1>2, <1>4, StrictIs
      <3>5. PICK c \in Positions : /\ c = SubSeq(k, 1, Len(p) + 1) /\ Len(c) = Len(p) + 1
                                   /\ IsPrefix(p, c) /\ IsPrefix(c, k)
        BY <3>4, <2>1, <2>5, NextStem, Zenon
      <3>6. Len(c) = Len(p) + 1
        BY <3>5
      <3>7. SubSeq(c, 1, Len(p)) = p
        BY <3>5, <2>5, StemOfPrefix
      <3>8. Len(c) - 1 = Len(p) /\ Len(p) < Len(c)
        BY <3>6, <2>5
      <3>9. c \in Stems(keys) /\ SubSeq(c, 1, Len(c) - 1) \in Forks(keys)
        BY <3>2, <3>5, <3>7, <3>8, <2>1, <1>5
      <3>10. c \in DOMAIN t
        BY <3>9, <1>2 DEF Place
      <3> QED
        BY <3>5, <3>8, <3>10, <2>6
    <2>8. Kind(t, p) # "Extension"
      <3>1. SUFFICES ASSUME Kind(t, p) = "Extension"
                     PROVE  FALSE
        OBVIOUS
      <3>2. PICK e : e = End(t, p)
        OBVIOUS
      <3>3. /\ e \in Forks(keys) /\ IsStrictPrefix(p, e)
            /\ \A g \in Forks(keys) : IsPrefix(p, g) => Len(e) <= Len(g)
        BY <3>1, <3>2, <2>5, <1>3 DEF Fitting
      <3>4. e \in DOMAIN t /\ e \in Positions /\ IsPrefix(p, e) /\ Len(p) < Len(e) /\ Len(e) \in Nat
        BY <3>3, <2>5, <1>6, StrictIs, Lengths
      <3>5. ~IsPrefix(e, k)
        BY <3>4, <2>6
      <3>6. PICK l \in keys : IsStrictPrefix(e, l)
        BY <3>3, <1>6 DEF Part
      <3>7. l \in Positions /\ IsPrefix(e, l) /\ Len(e) < Len(k)
        BY <3>4, <3>6, <2>1, <1>2, <1>4, StrictIs
      <3>8. ~IsPrefix(k, e)
        BY <3>4, <3>7, <2>1, PrefixLength
      <3>9. IsPrefix(k, k)
        BY <2>1, PrefixSelf
      <3>10. PICK f \in Forks(keys) : f \in Positions /\ IsPrefix(p, f) /\ IsStrictPrefix(f, e)
        BY <3>4, <3>5, <3>7, <3>8, <3>9, <2>1, <2>5, <1>2, StemsPart
      <3>11. Len(e) <= Len(f) /\ Len(f) < Len(e)
        BY <3>3, <3>4, <3>10, StrictIs
      <3> QED
        BY <3>4, <3>10, <3>11, Lengths
    <2>9. Kind(t, p) = "Leaf"
      BY <2>5, <2>7, <2>8, <1>3 DEF Fitting
    <2>10. PICK l \in keys : l = End(t, p) /\ IsPrefix(p, l) /\ \A f \in Forks(keys) : ~IsPrefix(p, f)
      BY <2>5, <2>9, <1>3 DEF Fitting
    <2>11. l = k
      <3>1. SUFFICES ASSUME l # k
                     PROVE  FALSE
        OBVIOUS
      <3>2. l \in Positions /\ Len(l) = Len(k)
        BY <2>1, <1>2, <1>4
      <3>3. ~IsPrefix(l, k) /\ ~IsPrefix(k, l)
        BY <3>1, <3>2, <2>1, PrefixSame
      <3>4. IsPrefix(l, l) /\ IsPrefix(k, k)
        BY <3>2, <2>1, PrefixSelf
      <3>5. PICK f \in Forks(keys) : IsPrefix(p, f)
        BY <3>2, <3>3, <3>4, <2>1, <2>5, <2>10, <1>2, StemsPart
      <3> QED
        BY <3>5, <2>10
    <2> QED
      BY <2>5, <2>9, <2>10, <2>11 DEF HasLeaf
  <1>16. Good(t, map)
    BY <1>8, <1>9, <1>10, <1>11, <1>14 DEF Good
  <1>17. Whole(t, map)
    BY <1>12, <1>15 DEF Whole
  <1>18. Reveals(t, t)
    <2>1. \A p \in DOMAIN t : Kind(t, p) # "Digest"
      BY <1>17 DEF Whole, NoDigest
    <2>2. Digests(t) = {}
      BY <2>1 DEF Digests
    <2> QED
      BY <2>1, <2>2, <1>2 DEF Reveals
  <1>19. \A p \in DOMAIN t : Loose(t, p)
    BY <1>16 DEF Good, Shape, Loose
  <1>20. Holds(t, map)
    BY <1>2, <1>16, <1>17, <1>19 DEF Good, Holds
  <1> QED
    BY <1>16, <1>17, <1>18, <1>20

-----------------------------------------------------------------------------
(* The tries that are built from the nodes a provider answers. *)

(* resolve_nodes cuts where a node is not in the store. *)
LEMMA ResolvedIs ==
  ASSUME NEW t, NEW f, f = DataOf(t), NEW store, NEW u, u = ResolveNodes(f, store)
  PROVE  \E cut : /\ Cut(t, u, cut)
                  /\ \A p \in cut : Subreference(f, p) \notin store
                  /\ \A p \in DOMAIN u : /\ p \in cut => u[p].data = Digest(Subreference(f, p))
                                         /\ u[p].cached_reference = NoReference
  <1> DEFINE resolved == {p \in DOMAIN f : Subreference(f, p) \in store}
             reached  == {p \in DOMAIN f : \A q \in DOMAIN f \ resolved : ~IsStrictPrefix(q, p)}
             cut      == DOMAIN f \ resolved
             new(p)   == Node(IF p \in resolved THEN f[p] ELSE Digest(Subreference(f, p)))
  <1>1. u = [p \in reached |-> new(p)]
    BY DEF ResolveNodes
  <1>2. DOMAIN f = DOMAIN t /\ \A p \in DOMAIN t : f[p] = t[p].data
    BY DEF DataOf
  <1>3. \A p \in cut : p \in DOMAIN t /\ Subreference(f, p) \notin store
    BY <1>2
  <1>4. \A p : p \in reached <=> p \in DOMAIN t /\ \A q \in cut : ~IsStrictPrefix(q, p)
    BY <1>2
  <1>5. \A p \in reached : /\ p \in cut => new(p).data = Digest(Subreference(f, p))
                           /\ p \notin cut => new(p).data = f[p]
                           /\ new(p).cached_reference = NoReference
    BY NodeIs
  <1> HIDE DEF resolved, reached, cut, new
  <1>6. DOMAIN u = reached /\ u = [p \in DOMAIN u |-> u[p]] /\ \A p \in reached : u[p] = new(p)
    BY <1>1
  <1>7. ASSUME NEW p \in DOMAIN u, p \in cut
        PROVE  u[p].data = Digest(Subreference(f, p)) /\ Kind(u, p) = "Digest"
    <2>1. u[p].data = Digest(Subreference(f, p))
      BY <1>5, <1>6, <1>7, Zenon
    <2> QED
      BY <2>1 DEF Kind, Digest
  <1>8. ASSUME NEW p \in DOMAIN u, p \notin cut
        PROVE  u[p].data = t[p].data /\ Kind(u, p) = Kind(t, p) /\ End(u, p) = End(t, p)
    <2>1. u[p].data = t[p].data
      BY <1>2, <1>4, <1>5, <1>6, <1>8, Zenon
    <2> QED
      BY <2>1 DEF Kind, End
  <1>9. \A p \in DOMAIN u : u[p].cached_reference = NoReference
    BY <1>5, <1>6, Zenon
  <1>10. Cut(t, u, cut)
    BY <1>3, <1>4, <1>6, <1>7, <1>8 DEF Cut
  <1> QED
    BY <1>3, <1>7, <1>9, <1>10

(* A trie of which only the root is known is cut there. *)
LEMMA DigestTrieIs ==
  ASSUME NEW t, NEW f, f = DataOf(t), DOMAIN t \subseteq Positions, << >> \in DOMAIN t, NEW u, u = DigestTrie(f)
  PROVE  /\ Cut(t, u, {<< >>})
         /\ \A p \in DOMAIN u : u[p].data = Digest(Subreference(f, p)) /\ u[p].cached_reference = NoReference
  <1>1. u = [p \in {<< >>} |-> Node(Digest(f))]
    BY DEF DigestTrie
  <1>2. DOMAIN u = {<< >>} /\ u = [p \in DOMAIN u |-> u[p]] /\ u[<< >>] = Node(Digest(f))
    BY <1>1
  <1>3. u[<< >>].data = Digest(f) /\ u[<< >>].cached_reference = NoReference
    BY <1>2, NodeIs
  <1>4. f = [p \in DOMAIN f |-> f[p]] /\ DOMAIN f = DOMAIN t
    BY DEF DataOf
  <1>5. Subreference(f, << >>) = f
    BY <1>4, SubreferenceOfAll
  <1>6. Kind(u, << >>) = "Digest"
    BY <1>3 DEF Kind, Digest
  <1>7. \A p : p \in DOMAIN u <=> p \in DOMAIN t /\ ~IsStrictPrefix(<< >>, p)
    BY <1>2, PrefixEmpty DEF IsStrictPrefix
  <1>8. Cut(t, u, {<< >>})
    BY <1>2, <1>3, <1>6, <1>7 DEF Cut
  <1> QED
    BY <1>2, <1>3, <1>5, <1>8

(* What any cut of the trie of a map is good for. *)
LEMMA CutTrie ==
  ASSUME NEW map, IsMap(map), NEW t, t = TrieOf(map), << >> \in DOMAIN t,
         NEW u, NEW cut, Cut(t, u, cut),
         \A p \in DOMAIN u : /\ p \in cut => u[p].data = Digest(Subreference(Root(map), p))
                             /\ u[p].cached_reference = NoReference
  PROVE  /\ Hash(u) = Root(map)
         /\ Good(u, map)
         /\ Faithful(u, map)
         /\ \A k \in Keys : /\ Get(u, k) \in {map[k], NoValue}
                            /\ (\A p \in cut : ~IsPrefix(p, k)) => Sure(u, map, k) /\ Get(u, k) = map[k]
  <1>1. Good(t, map) /\ Whole(t, map) /\ Reveals(t, t) /\ Holds(t, map)
    BY TrieOfGood
  <1>2. PICK f : f = Root(map)
    OBVIOUS
  <1>3. f = DataOf(t) /\ DOMAIN f = DOMAIN t /\ DOMAIN t \subseteq Positions /\ NoDigest(t)
    <2>1. f = DataOf(t)
      BY <1>2, TrieOfIs
    <2> QED
      BY <2>1, <1>1 DEF DataOf, Good, IsTrie, Whole
  <1>4. Reveals(u, t)
    <2>1. \A p \in DOMAIN u : /\ p \in cut => u[p].data = Digest(Subreference(f, p))
                              /\ u[p].cached_reference \in {NoReference, Subreference(f, p)}
      BY <1>2
    <2> QED
      BY <2>1, <1>1, <1>3, CutReveals
  <1>6. Good(u, map)
    BY <1>1, CutGood
  <1>5. Hash(u) = f
    BY <1>1, <1>3, <1>4, <1>6, RevealsHash DEF Good
  <1>7. ASSUME NEW k \in Keys
        PROVE  Get(u, k) \in {map[k], NoValue}
    BY <1>6, GetTrue
  <1>8. ASSUME NEW k \in Keys, \A p \in cut : ~IsPrefix(p, k)
        PROVE  Sure(u, map, k) /\ Get(u, k) = map[k]
    <2>1. Sure(t, map, k)
      BY <1>1 DEF Whole, NoDigest, Sure, Open
    <2>2. Sure(u, map, k)
      BY <2>1, <1>1, <1>8, CutSure
    <2> QED
      BY <2>2, <1>6, GetTrue
  <1> QED
    BY <1>1, <1>2, <1>4, <1>5, <1>6, <1>7, <1>8 DEF Faithful

(* Root(map) has a node unless map is empty. *)
LEMMA RootedRoot ==
  ASSUME NEW map, IsMap(map), NEW k \in Keys, map[k] # NoValue
  PROVE  << >> \in DOMAIN TrieOf(map)
  <1>1. PICK t : t = TrieOf(map)
    OBVIOUS
  <1>2. HasLeaf(t, k) /\ Rooted(t)
    BY <1>1, TrieOfGood DEF Whole, Good
  <1> QED
    BY <1>1, <1>2 DEF HasLeaf, Rooted

(* get, insert and delete answer for k what the map says. *)
Truthful(t, map, k) ==
  /\ Get(t, k) = map[k]
  /\ Delete(t, k).result = (IF map[k] # NoValue THEN "true" ELSE "false")
  /\ \A v : v # NoValue => Insert(t, k, v).result = (IF map[k] # v THEN "true" ELSE "false")

(* Where the way to a key is there, get, insert and delete tell the truth. *)
LEMMA SureTruthful ==
  ASSUME NEW map, IsMap(map), NEW t, Good(t, map), NEW k \in Keys, Sure(t, map, k)
  PROVE  Truthful(t, map, k)
  <1>1. Get(t, k) = map[k]
    BY GetTrue
  <1>2. ASSUME NEW value, NEW answer,
               \A new : UpdatedTo(map, new, k, value) => Done(t, map, new, k, value, answer)
        PROVE  answer.result = (IF map[k] # value THEN "true" ELSE "false")
    <2>1. PICK new : new = [map EXCEPT ![k] = value]
      OBVIOUS
    <2>2. Done(t, map, new, k, value, answer)
      BY <2>1, <1>2 DEF UpdatedTo, IsMap
    <2> QED
      BY <2>2 DEF Done, Sure
  <1>3. Delete(t, k).result = (IF map[k] # NoValue THEN "true" ELSE "false")
    <2>1. PICK answer : answer = Delete(t, k)
      OBVIOUS
    <2>3. \A new : UpdatedTo(map, new, k, NoValue) => Done(t, map, new, k, NoValue, answer)
      BY <2>1, DeleteDone
    <2> QED
      BY <2>1, <2>3, <1>2
  <1>4. ASSUME NEW v, v # NoValue
        PROVE  Insert(t, k, v).result = (IF map[k] # v THEN "true" ELSE "false")
    <2>1. PICK answer : answer = Insert(t, k, v)
      OBVIOUS
    <2>2. \A new : UpdatedTo(map, new, k, v) => Done(t, map, new, k, v, answer)
      BY <2>1, <1>4, InsertDone
    <2> QED
      BY <2>1, <2>2, <1>2
  <1> QED
    BY <1>1, <1>3, <1>4 DEF Truthful

(* What a trie that is built for the root of map must be, when the nodes of the keys in known were given. *)
StandsFor(t, map, known) ==
  /\ Hash(t) = Root(map)
  /\ WellFormed(t)
  /\ \A k \in Keys : Get(t, k) \in {map[k], NoValue}
  /\ \A k \in known : Truthful(t, map, k)

(* What it is for all that is done to it later. *)
Represents(t, map, known) ==
  /\ Good(t, map)
  /\ Faithful(t, map)
  /\ known \subseteq Keys
  /\ \A k \in known : Sure(t, map, k)

(* The keys all of whose nodes are in a store. *)
KnownBy(store, map) == {k \in Keys : NodesOnWay(Root(map), k) \subseteq store}

(* Both. *)
Built(t, map, known) == StandsFor(t, map, known) /\ Represents(t, map, known)

(* What the nodes of a store resolve of a root stands for the map. *)
LEMMA ResolvedStandsFor ==
  ASSUME NEW map, IsMap(map), \E k \in Keys : map[k] # NoValue, NEW store
  PROVE  /\ Built(ResolveNodes(Root(map), store), map, KnownBy(store, map))
         /\ Root(map) \notin store => Built(DigestTrie(Root(map)), map, KnownBy(store, map))
  <1>1. PICK t : t = TrieOf(map)
    OBVIOUS
  <1>2. << >> \in DOMAIN t
    BY <1>1, RootedRoot
  <1>3. PICK f : f = Root(map)
    OBVIOUS
  <1>4. f = DataOf(t) /\ DOMAIN f = DOMAIN t /\ DOMAIN t \subseteq Positions /\ f = [p \in DOMAIN f |-> f[p]]
    <2>1. f = DataOf(t)
      BY <1>1, <1>3, TrieOfIs
    <2>2. Good(t, map)
      BY <1>1, TrieOfGood
    <2> QED
      BY <2>1, <2>2 DEF DataOf, Good, IsTrie
  <1>5. ASSUME NEW u, NEW cut, Cut(t, u, cut), \A p \in cut : Subreference(f, p) \notin store,
               \A p \in DOMAIN u : /\ p \in cut => u[p].data = Digest(Subreference(f, p))
                                   /\ u[p].cached_reference = NoReference
        PROVE  Built(u, map, KnownBy(store, map))
    <2>1. /\ Hash(u) = Root(map)
          /\ Good(u, map)
          /\ Faithful(u, map)
          /\ \A k \in Keys : /\ Get(u, k) \in {map[k], NoValue}
                             /\ (\A p \in cut : ~IsPrefix(p, k)) => Sure(u, map, k)
      BY <1>1, <1>2, <1>3, <1>5, CutTrie
    <2>2. ASSUME NEW k \in Keys, NodesOnWay(f, k) \subseteq store
          PROVE  Sure(u, map, k) /\ Truthful(u, map, k)
      <3>1. ASSUME NEW p \in cut, IsPrefix(p, k)
            PROVE  FALSE
        <4>1. p \in {q \in DOMAIN f : IsPrefix(q, k)}
          BY <3>1, <1>4, <1>5 DEF Cut
        <4>2. Subreference(f, p) \in NodesOnWay(f, k)
          BY <4>1, Zenon DEF NodesOnWay
        <4> QED
          BY <4>2, <2>2, <1>5
      <3>2. Sure(u, map, k)
        BY <3>1, <2>1
      <3> QED
        BY <3>2, <2>1, SureTruthful
    <2>3. WellFormed(u)
      BY <2>1, ShapeWellFormed DEF Good
    <2> QED
      BY <2>1, <2>2, <2>3, <1>3 DEF Built, StandsFor, Represents, KnownBy
  <1>6. Built(ResolveNodes(f, store), map, KnownBy(store, map))
    <2>1. PICK u : u = ResolveNodes(f, store)
      OBVIOUS
    <2>2. PICK cut : /\ Cut(t, u, cut)
                     /\ \A p \in cut : Subreference(f, p) \notin store
                     /\ \A p \in DOMAIN u : /\ p \in cut => u[p].data = Digest(Subreference(f, p))
                                            /\ u[p].cached_reference = NoReference
      BY <2>1, <1>4, ResolvedIs
    <2> QED
      BY <2>1, <2>2, <1>5
  <1>7. ASSUME f \notin store
        PROVE  Built(DigestTrie(f), map, KnownBy(store, map))
    <2>1. PICK u : u = DigestTrie(f)
      OBVIOUS
    <2>2. /\ Cut(t, u, {<< >>})
          /\ \A p \in DOMAIN u : u[p].data = Digest(Subreference(f, p)) /\ u[p].cached_reference = NoReference
      BY <2>1, <1>2, <1>4, DigestTrieIs
    <2>3. Subreference(f, << >>) \notin store
      BY <1>4, <1>7, SubreferenceOfAll
    <2>4. PICK cut : cut = {<< >>}
      OBVIOUS
    <2>5. /\ Cut(t, u, cut) /\ \A p \in cut : Subreference(f, p) \notin store
          /\ \A p \in DOMAIN u : /\ p \in cut => u[p].data = Digest(Subreference(f, p))
                                 /\ u[p].cached_reference = NoReference
      BY <2>2, <2>3, <2>4
    <2> QED
      BY <2>1, <2>5, <1>5
  <1> QED
    BY <1>3, <1>6, <1>7

(* The trie of a witness. *)
LEMMA WitnessTrieBuilt ==
  ASSUME NEW map, IsMap(map), \E k \in Keys : map[k] # NoValue, NEW witness
  PROVE  Built(TrieFromWitness(Root(map), witness), map, KnownBy(witness, map))
  <1>1. CASE Root(map) \in witness
    BY <1>1, ResolvedStandsFor DEF TrieFromWitness
  <1>2. CASE Root(map) \notin witness
    BY <1>2, ResolvedStandsFor DEF TrieFromWitness
  <1> QED
    BY <1>1, <1>2

(***************************************************************************)
(* build_validated_tries: whatever nodes the witness has or lacks, the     *)
(* trie has the root that validate_state_trie demands, its nodes have      *)
(* their shape, get returns no wrong value, and for each key all of whose  *)
(* nodes are in the witness get, insert and delete answer what is true.    *)
(***************************************************************************)
THEOREM WitnessTrieReadsTrue ==
  ASSUME NEW map, IsMap(map), \E k \in Keys : map[k] # NoValue, NEW witness
  PROVE  StandsFor(TrieFromWitness(Root(map), witness), map, KnownBy(witness, map))
  BY WitnessTrieBuilt DEF Built

(* Proofs of some keys, as eth_getProof answers them: each is the nodes on the way, from the root on. *)
Proves(proofs, map) ==
  /\ DOMAIN proofs # {} /\ DOMAIN proofs \subseteq Keys
  /\ \A k \in DOMAIN proofs : /\ proofs[k] # << >> /\ proofs[k][1] = Root(map)
                               /\ ToSet(proofs[k]) = NodesOnWay(Root(map), k)

(* The trie of some proofs. *)
LEMMA ProofTrieBuilt ==
  ASSUME NEW map, IsMap(map), \E k \in Keys : map[k] # NoValue,
         NEW proofs, NEW after, Proves(proofs, map)
  PROVE  Built(TrieFromProofs(proofs, after), map, DOMAIN proofs)
  <1> DEFINE store == UNION {ToSet(proofs[k]) : k \in DOMAIN proofs}
                        \union UNION {OrphanedLeafs(k, after[k]) : k \in DOMAIN after}
             roots == {proofs[k][1] : k \in {x \in DOMAIN proofs : proofs[x] # << >>}}
  <1>1. TrieFromProofs(proofs, after) =
          IF roots = {} THEN Null ELSE ResolveNodes(CHOOSE r \in roots : TRUE, store)
    BY Zenon DEF TrieFromProofs
  <1>2. roots = {Root(map)}
    BY DEF Proves
  <1>3. \A k \in DOMAIN proofs : NodesOnWay(Root(map), k) \subseteq store
    <2>1. ASSUME NEW k \in DOMAIN proofs, NEW x \in NodesOnWay(Root(map), k)
          PROVE  x \in store
      <3>1. x \in ToSet(proofs[k])
        BY <2>1 DEF Proves
      <3> QED
        BY <3>1
    <2> QED
      BY <2>1
  <1> HIDE DEF store, roots
  <1>4. TrieFromProofs(proofs, after) = ResolveNodes(Root(map), store)
    <2>1. roots # {} /\ (CHOOSE r \in roots : TRUE) \in roots
      BY <1>2
    <2>2. (CHOOSE r \in roots : TRUE) = Root(map)
      BY <1>2, <2>1
    <2> QED
      BY <1>1, <2>1, <2>2, Zenon
  <1>5. PICK u : u = TrieFromProofs(proofs, after)
    OBVIOUS
  <1>6. Built(u, map, KnownBy(store, map))
    BY <1>4, <1>5, ResolvedStandsFor
  <1>7. \A k \in DOMAIN proofs : k \in KnownBy(store, map)
    BY <1>3 DEF KnownBy, Proves
  <1> QED
    BY <1>5, <1>6, <1>7 DEF Built, StandsFor, Represents, Proves

(***************************************************************************)
(* transition_proofs_to_tries: from proofs of some keys, each of which     *)
(* begins with the root and has the nodes on the way to its key, the trie  *)
(* that is built has that root, get, insert and delete answer what is true *)
(* for those keys, and get returns a wrong value for none, whatever nodes  *)
(* the orphans that later proofs hint at add to the store.                 *)
(***************************************************************************)
THEOREM ProofTrieReadsTrue ==
  ASSUME NEW map, IsMap(map), \E k \in Keys : map[k] # NoValue,
         NEW proofs, NEW after, Proves(proofs, map)
  PROVE  StandsFor(TrieFromProofs(proofs, after), map, DOMAIN proofs)
  BY ProofTrieBuilt DEF Built

-----------------------------------------------------------------------------
(* The inductive invariant: the trie is in good shape and its leaves hold values of the contents, *)
(* with what its digests stand for it holds all of them and its caches are right, and of the      *)
(* readable keys it knows everything.                                                             *)
ReadableSure == readable \subseteq Keys /\ \A k \in readable : Sure(trie, contents, k)

StoreInv ==
  /\ IsMap(contents)
  /\ Good(trie, contents)
  /\ Faithful(trie, contents)
  /\ ReadableSure
  /\ ResultsTruthful

(* Nothing is in the empty trie. *)
LEMMA EmptyStore ==
  ASSUME NEW map, map = [k \in Keys |-> NoValue]
  PROVE  /\ IsMap(map)
         /\ Good(Null, map) /\ Faithful(Null, map)
         /\ \A k \in Keys : Sure(Null, map, k)
  <1>1. IsMap(map) /\ \A k \in Keys : map[k] = NoValue
    BY DEF IsMap
  <1>2. Good(Null, map) /\ NoDigest(Null) /\ DOMAIN Null = {}
    BY NullGood
  <1>3. Reveals(Null, Null)
    BY <1>2 DEF Reveals, Digests
  <1>4. Holds(Null, map)
    BY <1>1, <1>2 DEF Good, Holds, Whole
  <1>5. \A k \in Keys : Sure(Null, map, k)
    BY <1>1, <1>2 DEF Sure, Open
  <1> QED
    BY <1>1, <1>2, <1>3, <1>4, <1>5 DEF Faithful

(* The empty store. *)
LEMMA StoreInvInit == StoreInit => StoreInv
  <1> SUFFICES ASSUME StoreInit
               PROVE  StoreInv
    OBVIOUS
  <1>1. trie = Null /\ contents = [k \in Keys |-> NoValue] /\ outcome.of_readable = FALSE /\ readable = Keys
    BY DEF StoreInit, NoOutcome
  <1>2. ResultsTruthful
    BY <1>1 DEF ResultsTruthful
  <1>3. ReadableSure
    BY <1>1, EmptyStore DEF ReadableSure
  <1> QED
    BY <1>1, <1>2, <1>3, EmptyStore DEF StoreInv

(* What insert and delete leave behind: contents that stay the same leave the root. *)
LEMMA RecordKeepsInv ==
  ASSUME StoreInv, NEW key \in Keys, NEW value, NEW answer,
         Record(answer, key, value),
         \A new : UpdatedTo(contents, new, key, value) => Done(trie, contents, new, key, value, answer)
  PROVE  StoreInv' /\ (contents' = contents => trie' = trie)
  <1>0. /\ IsMap(contents)
        /\ Good(trie, contents)
        /\ Faithful(trie, contents)
        /\ readable \subseteq Keys
        /\ \A k \in readable : Sure(trie, contents, k)
    BY DEF StoreInv, ReadableSure
  <1>1. PICK new : new = [contents EXCEPT ![key] = value]
    OBVIOUS
  <1>2. IsMap(new) /\ new[key] = value /\ UpdatedTo(contents, new, key, value)
    BY <1>0, <1>1 DEF UpdatedTo, IsMap
  <1>3. Done(trie, contents, new, key, value, answer)
    BY <1>2
  <1>4. /\ trie' = answer.trie
        /\ answer.result \in {"true", "false"} => contents' = new /\ readable' = readable \union {key}
        /\ answer.result \notin {"true", "false"} => contents' = contents /\ readable' = readable
        /\ outcome'.result = answer.result
        /\ outcome'.changes = (contents[key] # value)
        /\ outcome'.of_readable = (key \in readable)
    BY <1>1 DEF Record
  <1>5. CASE answer.result = "true"
    <2>1. /\ Good(trie', contents')
          /\ DigestsKept(trie, trie')
          /\ CachesFrom(trie, trie')
          /\ Sure(trie, contents, key) => contents[key] # value
          /\ Sure(trie', contents', key)
          /\ \A k \in Keys : k # key /\ Sure(trie, contents, k) => Sure(trie', contents', k)
          /\ contents' = new /\ readable' = readable \union {key}
      BY <1>3, <1>4, <1>5 DEF Done
    <2>2. Open(trie, key)
      BY <2>1 DEF Sure, Open, DigestsKept
    <2>3. contents[key] # value
      BY <2>1, <2>2, <1>0, SureOfOpen
    <2>4. contents' # contents
      BY <2>1, <2>3, <1>2
    <2>5. UpdatedTo(contents, contents', key, value)
      BY <2>1, <1>2
    <2>6. Faithful(trie', contents')
      BY <2>1, <2>5, <1>0, UpdateFaithful
    <2>7. ResultsTruthful'
      BY <2>3, <1>4, <1>5 DEF ResultsTruthful
    <2>8. ReadableSure'
      BY <2>1, <1>0 DEF ReadableSure
    <2> QED
      BY <2>1, <2>4, <2>6, <2>7, <2>8, <1>2 DEF StoreInv
  <1>6. CASE answer.result = "false"
    <2>1. /\ trie' = trie
          /\ Sure(trie, contents, key) => contents[key] = value
          /\ Sure(trie, new, key)
          /\ contents' = new /\ readable' = readable \union {key}
      BY <1>3, <1>4, <1>6 DEF Done
    <2>2. Sure(trie, contents, key)
      BY <2>1, <1>0, SureOfOpen DEF Sure
    <2>3. contents[key] = value
      BY <2>1, <2>2
    <2>4. contents' = contents
      BY <2>1, <2>3, <1>0, <1>1 DEF IsMap
    <2>5. ResultsTruthful'
      BY <2>3, <1>4, <1>6 DEF ResultsTruthful
    <2>6. ReadableSure'
      BY <2>1, <2>2, <2>4, <1>0 DEF ReadableSure
    <2> QED
      BY <2>1, <2>4, <2>5, <2>6, <1>0 DEF StoreInv
  <1>7. CASE answer.result \notin {"true", "false"}
    <2>1. trie' = trie /\ contents' = contents /\ readable' = readable /\ ~Open(trie, key)
      BY <1>3, <1>4, <1>7 DEF Done
    <2>2. key \notin readable
      BY <2>1, <1>0 DEF Sure
    <2>3. ResultsTruthful'
      BY <2>2, <1>4 DEF ResultsTruthful
    <2>4. ReadableSure'
      BY <2>1, <1>0 DEF ReadableSure
    <2> QED
      BY <2>1, <2>3, <2>4, <1>0 DEF StoreInv
  <1> QED
    BY <1>5, <1>6, <1>7

(* An insert keeps the invariant. *)
LEMMA InsertKeepsInv ==
  ASSUME StoreInv, NEW key \in Keys, NEW value \in Values, InsertKey(key, value)
  PROVE  StoreInv' /\ (contents' = contents => trie' = trie)
  <1>1. PICK answer : answer = Insert(trie, key, value)
    OBVIOUS
  <1>2. Record(answer, key, value)
    BY <1>1, Zenon DEF InsertKey
  <1>3. Good(trie, contents)
    BY DEF StoreInv
  <1>4. \A new : UpdatedTo(contents, new, key, value) => Done(trie, contents, new, key, value, answer)
    BY <1>1, <1>3, InsertDone, ValuesAssumption
  <1> QED
    BY <1>2, <1>4, RecordKeepsInv

(* A delete keeps the invariant. *)
LEMMA DeleteKeepsInv ==
  ASSUME StoreInv, NEW key \in Keys, DeleteKey(key)
  PROVE  StoreInv' /\ (contents' = contents => trie' = trie)
  <1>1. PICK answer : answer = Delete(trie, key)
    OBVIOUS
  <1>2. Record(answer, key, NoValue)
    BY <1>1, Zenon DEF DeleteKey
  <1>3. Good(trie, contents)
    BY DEF StoreInv
  <1>4. \A new : UpdatedTo(contents, new, key, NoValue) => Done(trie, contents, new, key, NoValue, answer)
    BY <1>1, <1>3, DeleteDone
  <1> QED
    BY <1>2, <1>4, RecordKeepsInv

(* A hash computation keeps the invariant and the hash. *)
LEMMA HashKeepsInv ==
  ASSUME StoreInv, ComputeHash
  PROVE  StoreInv' /\ Hash(trie') = Hash(trie)
  <1>0. /\ IsMap(contents)
        /\ Good(trie, contents)
        /\ Faithful(trie, contents)
        /\ readable \subseteq Keys
        /\ \A k \in readable : Sure(trie, contents, k)
    BY DEF StoreInv, ReadableSure
  <1>1. /\ trie' = WithReferences(trie) /\ contents' = contents
        /\ readable' = readable /\ outcome'.of_readable = FALSE
    BY DEF ComputeHash, NoOutcome
  <1>2. /\ Good(trie', contents') /\ Faithful(trie', contents')
        /\ Hash(trie') = Hash(trie)
        /\ \A k : Sure(trie, contents, k) => Sure(trie', contents', k)
    BY <1>0, <1>1, HashedFaithful
  <1>3. ResultsTruthful'
    BY <1>1 DEF ResultsTruthful
  <1>4. ReadableSure'
    BY <1>0, <1>1, <1>2 DEF ReadableSure
  <1> QED
    BY <1>0, <1>1, <1>2, <1>3, <1>4 DEF StoreInv

(* A truncation: what is readable and kept stays readable, and the root stays. *)
LEMMA TruncateKeepsInv ==
  ASSUME StoreInv, Truncate
  PROVE  StoreInv' /\ Hash(trie') = Hash(trie)
  <1>0. /\ IsMap(contents)
        /\ Good(trie, contents)
        /\ Faithful(trie, contents)
        /\ readable \subseteq Keys
        /\ \A k \in readable : Sure(trie, contents, k)
    BY DEF StoreInv, ReadableSure
  <1>1. PICK kept \in SUBSET Keys :
          /\ trie' = Prune(trie, UNION {GetTouched(trie, k) : k \in kept})
          /\ readable' = readable \intersect kept
    BY DEF Truncate
  <1>2. PICK refs : refs = UNION {GetTouched(trie, k) : k \in kept}
    OBVIOUS
  <1>3. trie' = Prune(trie, refs)
    BY <1>1, <1>2
  <1>4. contents' = contents /\ outcome'.of_readable = FALSE
    BY DEF Truncate, NoOutcome
  <1>5. Good(trie', contents')
    BY <1>0, <1>3, <1>4, PruneGood
  <1>6. Faithful(trie', contents') /\ Hash(trie') = Hash(trie)
    BY <1>0, <1>3, <1>4, PruneFaithful
  <1>7. ResultsTruthful'
    BY <1>4 DEF ResultsTruthful
  <1>8. ASSUME NEW k \in readable \intersect kept
        PROVE  Sure(trie', contents', k)
    <2>1. GetTouched(trie, k) \subseteq refs
      BY <1>2
    <2>2. k \in Keys /\ Sure(trie, contents, k)
      BY <1>0
    <2> QED
      BY <2>1, <2>2, <1>0, <1>3, <1>4, PruneSure
  <1>9. ReadableSure'
    BY <1>0, <1>1, <1>8 DEF ReadableSure
  <1> QED
    BY <1>0, <1>4, <1>5, <1>6, <1>7, <1>9 DEF StoreInv

(* Clearing: nothing changes in a trie that has no contents. *)
LEMMA ClearKeepsInv ==
  ASSUME StoreInv, Clear
  PROVE  StoreInv' /\ (contents' = contents => trie' = trie)
  <1>1. /\ trie' = Null /\ contents' = [k \in Keys |-> NoValue] /\ readable' = Keys
        /\ outcome'.of_readable = FALSE
    BY DEF Clear, NoOutcome
  <1>2. ResultsTruthful'
    BY <1>1 DEF ResultsTruthful
  <1>3. ReadableSure'
    BY <1>1, EmptyStore DEF ReadableSure
  <1>4. StoreInv'
    BY <1>1, <1>2, <1>3, EmptyStore DEF StoreInv
  <1>5. ASSUME contents' = contents
        PROVE  trie' = trie
    <2>1. \A k \in Keys : contents[k] = NoValue
      BY <1>1, <1>5
    <2>2. DOMAIN trie = {}
      BY <2>1, NoLeafEmpty DEF StoreInv
    <2>3. trie = Null
      BY <2>2, NullIs DEF StoreInv, Good
    <2> QED
      BY <2>3, <1>1
  <1> QED
    BY <1>4, <1>5

(* Every step keeps the invariant, and none changes the root but those that change the contents. *)
LEMMA StoreInvStep ==
  StoreInv /\ [StoreNext]_storeVars => StoreInv' /\ (contents' = contents => Hash(trie') = Hash(trie))
  <1> SUFFICES ASSUME StoreInv, [StoreNext]_storeVars
               PROVE  StoreInv' /\ (contents' = contents => Hash(trie') = Hash(trie))
    OBVIOUS
  <1>1. CASE \E key \in Keys, value \in Values : InsertKey(key, value)
    BY <1>1, InsertKeepsInv
  <1>2. CASE \E key \in Keys : DeleteKey(key)
    BY <1>2, DeleteKeepsInv
  <1>3. CASE ComputeHash
    BY <1>3, HashKeepsInv
  <1>4. CASE Clear
    BY <1>4, ClearKeepsInv
  <1>5. CASE Truncate
    BY <1>5, TruncateKeepsInv
  <1>6. CASE UNCHANGED storeVars
    <2>1. trie' = trie /\ contents' = contents /\ outcome' = outcome /\ readable' = readable
      BY <1>6 DEF storeVars
    <2>2. ResultsTruthful'
      BY <2>1 DEF StoreInv, ResultsTruthful
    <2>3. ReadableSure'
      BY <2>1 DEF StoreInv, ReadableSure
    <2> QED
      BY <2>1, <2>2, <2>3 DEF StoreInv
  <1> QED
    BY <1>1, <1>2, <1>3, <1>4, <1>5, <1>6 DEF StoreNext

(* StoreInv is an invariant. *)
LEMMA StoreInvAlways == StoreSpec => []StoreInv
  BY StoreInvInit, StoreInvStep, PTL DEF StoreSpec

(* What it says of a state. *)
LEMMA StoreInvImplies == StoreInv => TrieWellFormed /\ RootIsContents /\ ResultsTruthful /\ GetTruthful
  <1> SUFFICES ASSUME StoreInv
               PROVE  TrieWellFormed /\ RootIsContents /\ ResultsTruthful /\ GetTruthful
    OBVIOUS
  <1>0. /\ IsMap(contents) /\ DOMAIN contents = Keys
        /\ Good(trie, contents)
        /\ Faithful(trie, contents)
        /\ \A k \in readable : Sure(trie, contents, k)
        /\ ResultsTruthful
    BY DEF StoreInv, ReadableSure, IsMap
  <1>1. TrieWellFormed
    BY <1>0, ShapeWellFormed DEF Good, TrieWellFormed
  <1>2. RootIsContents
    BY <1>0, FaithfulRoot DEF RootIsContents, NoDigest
  <1>3. ASSUME NEW k \in Keys
        PROVE  Get(trie, k) \in {contents[k]} \union (IF k \in readable THEN {} ELSE {NoValue})
    <2>1. /\ Get(trie, k) \in {contents[k], NoValue}
          /\ Sure(trie, contents, k) => Get(trie, k) = contents[k]
      BY <1>0, GetTrue
    <2> QED
      BY <2>1, <1>0
  <1> QED
    BY <1>0, <1>1, <1>2, <1>3 DEF GetTruthful

(***************************************************************************)
(* The nodes keep their shape through every sequence of operations, also   *)
(* when delete_internal collapses branches on a truncated trie: a branch   *)
(* has two children at least and an extension leads to a branch or to a    *)
(* digest.                                                                 *)
(***************************************************************************)
THEOREM TrieStaysWellFormed == StoreSpec => []TrieWellFormed
  BY StoreInvImplies, StoreInvAlways, PTL

(***************************************************************************)
(* hash() is the root of the map the trie holds, whatever inserts,         *)
(* deletes, truncations and earlier hash computations led to it: no cached *)
(* reference is stale, the form of the trie depends on its contents only,  *)
(* and updates of a truncated trie give the root that they give the whole  *)
(* one, unless a delete put an extension above the digest of another one.  *)
(***************************************************************************)
THEOREM RootCommitsToContents == StoreSpec => []RootIsContents
  BY StoreInvImplies, StoreInvAlways, PTL

(***************************************************************************)
(* Only an update that changes the contents changes the root: not a hash   *)
(* computation, not prune_unmarked_nodes, whichever keys are kept and      *)
(* whatever was cached or truncated before, and not an insert or a delete  *)
(* that fails or says that it changed nothing.                             *)
(***************************************************************************)
THEOREM RootChangesOnlyByUpdates == StoreSpec => OnlyUpdatesChangeRoot
  <1>1. StoreInv /\ [StoreNext]_storeVars => [contents' = contents => Hash(trie') = Hash(trie)]_storeVars
    BY StoreInvStep
  <1> QED
    BY <1>1, StoreInvAlways, PTL DEF StoreSpec, OnlyUpdatesChangeRoot

(***************************************************************************)
(* insert and delete never fail on a key that is readable, and they answer *)
(* true exactly if the contents change: on a whole trie for every key, and *)
(* on a truncated one for the keys whose nodes were kept, whatever other   *)
(* operations collapsed or split in between.                               *)
(***************************************************************************)
THEOREM AnswersTruthful == StoreSpec => []ResultsTruthful
  BY StoreInvImplies, StoreInvAlways, PTL

(***************************************************************************)
(* get returns what was last inserted and not deleted.  A truncated trie   *)
(* may answer None instead for the keys whose nodes were not kept, and     *)
(* another value for none.                                                 *)
(***************************************************************************)
THEOREM GetNeverWrong == StoreSpec => []GetTruthful
  BY StoreInvImplies, StoreInvAlways, PTL

-----------------------------------------------------------------------------
(* A store that begins with a trie that was built from nodes of a larger one, which holds map. *)
StartsFrom(built, map, known) ==
  /\ trie = built
  /\ contents = map
  /\ readable = known
  /\ outcome = NoOutcome

(* Such a trie satisfies the invariant. *)
LEMMA StartsInv ==
  ASSUME NEW map, IsMap(map), NEW built, NEW known, Represents(built, map, known)
  PROVE  StartsFrom(built, map, known) => StoreInv
  <1> SUFFICES ASSUME StartsFrom(built, map, known)
               PROVE  StoreInv
    OBVIOUS
  <1>1. trie = built /\ contents = map /\ readable = known /\ outcome.of_readable = FALSE
    BY DEF StartsFrom, NoOutcome
  <1>2. ReadableSure
    BY <1>1 DEF ReadableSure, Represents
  <1>3. ResultsTruthful
    BY <1>1 DEF ResultsTruthful
  <1> QED
    BY <1>1, <1>2, <1>3 DEF StoreInv, Represents

(***************************************************************************)
(* The client's case: a trie that build_validated_tries made of any        *)
(* witness nodes stays true to the whole map through every sequence of     *)
(* updates, hash computations and truncations.  Its hash is the root of    *)
(* the updated map, get is never wrong, and on the keys whose nodes the    *)
(* witness has no operation fails.                                         *)
(***************************************************************************)
THEOREM WitnessTrieStaysTrue ==
  ASSUME NEW map, IsMap(map), \E k \in Keys : map[k] # NoValue, NEW witness
  PROVE  /\ StartsFrom(TrieFromWitness(Root(map), witness), map, KnownBy(witness, map))
         /\ [][StoreNext]_storeVars
         => [](TrieWellFormed /\ RootIsContents /\ ResultsTruthful /\ GetTruthful)
  <1>1. Represents(TrieFromWitness(Root(map), witness), map, KnownBy(witness, map))
    BY WitnessTrieBuilt DEF Built
  <1>2. StartsFrom(TrieFromWitness(Root(map), witness), map, KnownBy(witness, map)) => StoreInv
    BY <1>1, StartsInv
  <1> QED
    BY <1>2, StoreInvStep, StoreInvImplies, PTL

(***************************************************************************)
(* The same for a trie that transition_proofs_to_tries made of the proofs  *)
(* of some keys and of what add_orphaned_leafs added: no operation on a    *)
(* key that was proved fails, and the hash is the root of the updated map. *)
(***************************************************************************)
THEOREM ProofTrieStaysTrue ==
  ASSUME NEW map, IsMap(map), \E k \in Keys : map[k] # NoValue,
         NEW proofs, NEW after, Proves(proofs, map)
  PROVE  /\ StartsFrom(TrieFromProofs(proofs, after), map, DOMAIN proofs)
         /\ [][StoreNext]_storeVars
         => [](TrieWellFormed /\ RootIsContents /\ ResultsTruthful /\ GetTruthful)
  <1>1. Represents(TrieFromProofs(proofs, after), map, DOMAIN proofs)
    BY ProofTrieBuilt DEF Built
  <1>2. StartsFrom(TrieFromProofs(proofs, after), map, DOMAIN proofs) => StoreInv
    BY <1>1, StartsInv
  <1> QED
    BY <1>2, StoreInvStep, StoreInvImplies, PTL
=============================================================================

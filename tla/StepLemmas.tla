----------------------------- MODULE StepLemmas -----------------------------
(***************************************************************************)
(* Facts about the operators the modules share: how the steps of subblocks *)
(* concatenate to the steps of a block, and what merge_requests makes of   *)
(* the requests of subblocks.                                              *)
(***************************************************************************)
EXTENDS ExecutionSteps, Requests, SequenceTheorems, WellFoundedInduction, TLAPS

\* The system calls are steps.
LEMMA PrePostSteps == Pre \in Step /\ Post \in Step
  BY DEF Pre, Post, Step

\* Concatenation of steps is associative.
LEMMA Assoc == \A s, t, u \in Seq(Step) : (s \o t) \o u = s \o (t \o u)
  BY ConcatAssociative, SMTT(30)

\* Steps followed by steps are steps.
LEMMA ConcatSteps == \A s, t \in Seq(Step) : s \o t \in Seq(Step)
  BY ConcatProperties

\* The steps of a first run are a beginning of the steps of the block.
LEMMA ProgressFirst ==
  ASSUME NEW P \in Seq(Step), NEW t \in Seq(Step), NEW L \in Seq(Step)
  PROVE  (P \o << >>) \o ((<<Pre>> \o t) \o L) = P \o (<<Pre>> \o (<< >> \o t) \o L)
  BY ConcatEmptySeq, PrePostSteps

Regrouped(P, p, b, t, L) == (P \o (p \o b)) \o (t \o L) = P \o ((p \o (b \o t)) \o L)

\* A later run that takes up where the one before ended extends that beginning.
LEMMA ProgressLater ==
  \A P, p, b, t, L :
    (P \in Seq(Step) /\ p \in Seq(Step) /\ b \in Seq(Step) /\ t \in Seq(Step) /\ L \in Seq(Step))
      => Regrouped(P, p, b, t, L)
  <1>0. SUFFICES ASSUME NEW P, NEW p, NEW b, NEW t, NEW L,
                        P \in Seq(Step) /\ p \in Seq(Step) /\ b \in Seq(Step)
                          /\ t \in Seq(Step) /\ L \in Seq(Step)
                 PROVE  Regrouped(P, p, b, t, L)
    OBVIOUS
  <1>1. P \in Seq(Step)
    BY <1>0
  <1>2. p \in Seq(Step)
    BY <1>0
  <1>3. b \in Seq(Step)
    BY <1>0
  <1>4. t \in Seq(Step)
    BY <1>0
  <1>5. L \in Seq(Step)
    BY <1>0
  <1>6. p \o b \in Seq(Step)
    BY <1>2, <1>3, ConcatSteps, Zenon
  <1>7. t \o L \in Seq(Step)
    BY <1>4, <1>5, ConcatSteps, Zenon
  <1>8. (p \o b) \o t = p \o (b \o t)
    BY <1>2, <1>3, <1>4, Assoc, Zenon
  <1>9. ((p \o b) \o t) \o L = (p \o b) \o (t \o L)
    BY <1>6, <1>4, <1>5, Assoc, Zenon
  <1>10. (P \o (p \o b)) \o (t \o L) = P \o ((p \o b) \o (t \o L))
    BY <1>1, <1>6, <1>7, Assoc, Zenon
  <1> QED
    BY <1>8, <1>9, <1>10, Zenon DEF Regrouped

(* The elements of a concatenation. *)
LEMMA ConcatAt ==
  ASSUME NEW S, NEW a \in Seq(S), NEW b \in Seq(S)
  PROVE  /\ Len(a \o b) = Len(a) + Len(b)
         /\ \A j \in 1..Len(a) : (a \o b)[j] = a[j]
         /\ \A j \in (Len(a) + 1)..(Len(a) + Len(b)) : (a \o b)[j] = b[j - Len(a)]
  BY ConcatProperties

-----------------------------------------------------------------------------
(* The steps of a block up to transaction c. *)
StepsUpTo(txs, c) == IF c = 0 THEN << >> ELSE <<Pre>> \o SubSeq(txs, 1, c)

(* They are a prefix of the block's steps. *)
LEMMA UpToIsPrefix ==
  ASSUME NEW txs \in Seq(Step), NEW c \in 1..Len(txs)
  PROVE  /\ SubSeq(BlockSteps(txs), 1, c + 1) = <<Pre>> \o SubSeq(txs, 1, c)
         /\ Len(<<Pre>> \o SubSeq(txs, 1, c)) = c + 1
  <1> DEFINE all == BlockSteps(txs)
             n == Len(txs)
             part == <<Pre>> \o SubSeq(txs, 1, c)
  <1>1. n \in Nat /\ c \in Nat /\ c <= n /\ c >= 1
    OBVIOUS
  <1>2. /\ SubSeq(txs, 1, c) \in Seq(Step) /\ Len(SubSeq(txs, 1, c)) = c
        /\ \A i \in 1..c : SubSeq(txs, 1, c)[i] = txs[i]
    BY <1>1, SubSeqProperties
  <1>3. <<Pre>> \in Seq(Step) /\ <<Post>> \in Seq(Step)
        /\ Len(<<Pre>>) = 1 /\ <<Pre>>[1] = Pre /\ Len(<<Post>>) = 1
    BY PrePostSteps
  <1>4. /\ part \in Seq(Step) /\ Len(part) = c + 1
        /\ \A i \in 1..(c + 1) : part[i] = IF i = 1 THEN Pre ELSE txs[i - 1]
    BY <1>1, <1>2, <1>3, ConcatProperties
  <1>5. /\ all \in Seq(Step) /\ Len(all) = n + 2
        /\ \A i \in 1..(n + 1) : all[i] = IF i = 1 THEN Pre ELSE txs[i - 1]
    <2>1. /\ <<Pre>> \o txs \in Seq(Step) /\ Len(<<Pre>> \o txs) = n + 1
          /\ \A i \in 1..(n + 1) : (<<Pre>> \o txs)[i] = IF i = 1 THEN Pre ELSE txs[i - 1]
      BY <1>1, <1>3, ConcatProperties
    <2> DEFINE pt == <<Pre>> \o txs
    <2> HIDE DEF pt
    <2>2. /\ pt \o <<Post>> \in Seq(Step) /\ Len(pt \o <<Post>>) = n + 2
          /\ \A i \in 1..(n + 1) : (pt \o <<Post>>)[i] = pt[i]
      BY <2>1, <1>1, <1>3, ConcatProperties DEF pt
    <2> QED
      BY <2>1, <2>2 DEF pt, BlockSteps
  <1> HIDE DEF all, part, n
  <1>6. /\ SubSeq(all, 1, c + 1) \in Seq(Step) /\ Len(SubSeq(all, 1, c + 1)) = c + 1
        /\ \A i \in 1..(c + 1) : SubSeq(all, 1, c + 1)[i] = all[i]
    BY <1>1, <1>5, SubSeqProperties
  <1>7. ASSUME NEW i \in 1..(c + 1)
        PROVE  SubSeq(all, 1, c + 1)[i] = part[i]
    <2>1. i \in 1..(n + 1)
      BY <1>1
    <2>2. all[i] = IF i = 1 THEN Pre ELSE txs[i - 1]
      BY <2>1, <1>5
    <2>3. part[i] = IF i = 1 THEN Pre ELSE txs[i - 1]
      BY <1>4
    <2> QED
      BY <2>2, <2>3, <1>6
  <1>8. SubSeq(all, 1, c + 1) = part
    BY <1>1, <1>4, <1>6, <1>7, SeqEqual
  <1> QED
    BY <1>4, <1>8 DEF all, part

(* The run of the executor from transaction c to transaction u. *)
RunSteps(txs, c, u) ==
  (IF c = 0 THEN <<Pre>> ELSE << >>)
    \o SubSeq(txs, c + 1, u)
    \o (IF u = Len(txs) THEN <<Post>> ELSE << >>)

(* Runs connect: the steps up to c and a run from c to u are the steps up  *)
(* to u, and those of the whole block if u is its end.                     *)
LEMMA RunsConnect ==
  ASSUME NEW txs \in Seq(Step), NEW c \in 0..Len(txs), NEW u \in c..Len(txs),
         c < Len(txs) => c < u
  PROVE  StepsUpTo(txs, c) \o RunSteps(txs, c, u)
           = IF u = Len(txs) THEN BlockSteps(txs) ELSE StepsUpTo(txs, u)
  <1> DEFINE n == Len(txs)
             L == IF u = n THEN <<Post>> ELSE << >>
             s == SubSeq(txs, c + 1, u)
             a == SubSeq(txs, 1, c)
             b == SubSeq(txs, 1, u)
             p == <<Pre>>
  <1>1. n \in Nat /\ c \in Nat /\ u \in Nat /\ c <= u /\ u <= n
    OBVIOUS
  <1>2. s \in Seq(Step) /\ a \in Seq(Step) /\ b \in Seq(Step)
    BY <1>1, SubSeqProperties
  <1>3. L \in Seq(Step) /\ p \in Seq(Step)
    BY PrePostSteps
  <1>4. a \o s = b
    BY <1>1, ConcatAdjacentSubSeq
  <1>5. (p \o b) \o L = IF u = n THEN BlockSteps(txs) ELSE p \o b
    <2>1. CASE u = n
      <3>1. b = txs
        BY <2>1, <1>1, SubSeqFull
      <3> QED
        BY <2>1, <3>1 DEF BlockSteps
    <2>2. CASE u # n
      <3>1. p \o b \in Seq(Step)
        BY <1>2, <1>3, ConcatSteps, Zenon
      <3> HIDE DEF p, b
      <3>2. (p \o b) \o << >> = p \o b
        BY <3>1, ConcatEmptySeq
      <3> QED
        BY <2>2, <3>2
    <2> QED
      BY <2>1, <2>2
  <1>6. CASE c = 0
    <2>1. a = << >>
      BY <1>6, SubSeqEmpty
    <2>2. s = b
      BY <1>6, <1>1
    <2>3. RunSteps(txs, c, u) = (p \o b) \o L
      BY <2>2, <1>6 DEF RunSteps
    <2>4. (p \o b) \o L \in Seq(Step)
      <3>1. p \o b \in Seq(Step)
        BY <1>2, <1>3, ConcatSteps, Zenon
      <3> QED
        BY <3>1, <1>3, ConcatSteps, Zenon
    <2>5. << >> \o RunSteps(txs, c, u) = RunSteps(txs, c, u)
      BY <2>3, <2>4, ConcatEmptySeq
    <2>6. CASE u = n
      BY <2>3, <2>5, <2>6, <1>5, <1>6 DEF StepsUpTo
    <2>7. CASE u # n
      <3>1. u # 0
        BY <2>7, <1>1, <1>6
      <3> QED
        BY <3>1, <2>3, <2>5, <2>7, <1>5, <1>6 DEF StepsUpTo
    <2> QED
      BY <2>6, <2>7
  <1>7. CASE c # 0
    <2>1. RunSteps(txs, c, u) = s \o L
      <3>1. << >> \o s = s
        BY <1>2, ConcatEmptySeq
      <3> QED
        BY <3>1, <1>7 DEF RunSteps
    <2>2. StepsUpTo(txs, c) = p \o a
      BY <1>7 DEF StepsUpTo
    <2> HIDE DEF p, a, s, L, b
    <2>3. p \o a \in Seq(Step)
      BY <1>2, <1>3, ConcatSteps, Zenon
    <2>4. (p \o a) \o (s \o L) = ((p \o a) \o s) \o L
      BY <2>3, <1>2, <1>3, Assoc, ZenonT(60)
    <2>5. (p \o a) \o s = p \o (a \o s)
      BY <1>2, <1>3, Assoc, ZenonT(60)
    <2>6. (p \o a) \o (s \o L) = (p \o b) \o L
      BY <2>4, <2>5, <1>4, Zenon
    <2>7. u # 0
      BY <1>1, <1>7
    <2>8. u # n => StepsUpTo(txs, u) = p \o b
      BY <2>7 DEF StepsUpTo, p, b
    <2> QED
      BY <2>1, <2>2, <2>6, <2>8, <1>5
  <1> QED
    BY <1>6, <1>7

-----------------------------------------------------------------------------
(* Induction over the natural numbers, on a set instead of a predicate.    *)
LEMMA LessWellFounded == IsWellFoundedOn({ss \in Nat \X Nat : ss[1] < ss[2]}, Nat)
  BY NatLessThanWellFounded DEF OpToRel

\* A non-empty set of natural numbers has a least element.
LEMMA LeastNat ==
  ASSUME NEW S, S \subseteq Nat, S # {}
  PROVE  \E n \in S : \A m \in S : n <= m
  <1> DEFINE R == {ss \in Nat \X Nat : ss[1] < ss[2]}
  <1>1. IsWellFoundedOn(R, Nat)
    BY LessWellFounded
  <1> HIDE DEF R
  <1>2. PICK n \in S : \A m \in S : ~(<<m, n>> \in R)
    BY <1>1, WFMin
  <1>3. ASSUME NEW m \in S
        PROVE  n <= m
    <2>1. m \in Nat /\ n \in Nat /\ <<m, n>> \in Nat \X Nat
      OBVIOUS
    <2>2. ~(<<m, n>> \in R)
      BY <1>2
    <2>3. ~(m < n)
      BY <2>1, <2>2 DEF R
    <2> QED
      BY <2>1, <2>3
  <1> QED
    BY <1>3

\* A set that holds 0 and with a number below the bound its successor holds
\* every number up to the bound.
LEMMA InductionUpTo ==
  ASSUME NEW S, NEW m \in Nat, 0 \in S,
         \A n \in 0..(m - 1) : n \in S => n + 1 \in S
  PROVE  0..m \subseteq S
  <1> SUFFICES ASSUME (0..m) \ S # {}
               PROVE  FALSE
    OBVIOUS
  <1>0. (0..m) \ S \subseteq Nat
    OBVIOUS
  <1>1. PICK n \in (0..m) \ S : \A k \in (0..m) \ S : n <= k
    BY <1>0, LeastNat
  <1>2. n # 0 /\ n - 1 \in 0..(m - 1) /\ n - 1 \in S
    BY <1>1
  <1> QED
    BY <1>1, <1>2

-----------------------------------------------------------------------------
(* A list of requests: its type and its pieces. *)
RequestLists(X) == [type : Int, data : Seq(X)]

Distinct(s) == \A i, j \in 1..Len(s) : s[i] = s[j] => i = j

PiecesOf(request) == {<<request.type, request.data[j]>> : j \in DOMAIN request.data}

Apart(processed, request) ==
  \A i \in 1..Len(request.data) : <<request.type, request.data[i]>> \notin processed

NoneOfType(new_requests, type) ==
  \A i \in DOMAIN new_requests : new_requests[i].type # type

(* All pieces of a list are kept that differ from each other and from what *)
(* was processed.                                                          *)
LEMMA AllUnprocessed ==
  ASSUME NEW X, NEW processed, NEW request \in RequestLists(X),
         Distinct(request.data),
         Apart(processed, request)
  PROVE  Unprocessed(processed, request) = request.data
  <1> DEFINE d == request.data
             N == Len(request.data)
             At(f, n) == IF n = 0
                           THEN << >>
                           ELSE IF \/ <<request.type, request.data[n]>> \in processed
                                   \/ \E j \in 1..(n - 1) : request.data[j] = request.data[n]
                                  THEN f[n - 1]
                                  ELSE Append(f[n - 1], request.data[n])
             Def(f) == f = [n \in 0..N |-> At(f, n)]
             w == [n \in 0..N |-> SubSeq(d, 1, n)]
             fresh == CHOOSE f : Def(f)
  <1>1. d \in Seq(X) /\ N \in Nat
    BY DEF RequestLists
  <1>2. ASSUME NEW n \in 1..N
        PROVE  /\ ~(<<request.type, request.data[n]>> \in processed)
               /\ ~(\E j \in 1..(n - 1) : request.data[j] = request.data[n])
    BY <1>1 DEF Distinct, Apart
  <1>3. ASSUME NEW n \in 1..N
        PROVE  SubSeq(d, 1, n) = Append(SubSeq(d, 1, n - 1), d[n])
    <2>1. SubSeq(d, 1, n) = SubSeq(d, 1, n - 1) \o <<d[n]>>
      BY <1>1, SubSeqRecursiveSecond
    <2>2. SubSeq(d, 1, n - 1) \in Seq(X) /\ d[n] \in X
      BY <1>1, SubSeqProperties
    <2> QED
      BY <2>1, <2>2, AppendIsConcat
  <1>4. SubSeq(d, 1, 0) = << >>
    BY SubSeqEmpty
  <1>5. Def(w)
    <2>1. ASSUME NEW n \in 0..N, n # 0
          PROVE  SubSeq(d, 1, n) = Append(w[n - 1], d[n])
      <3>1. n \in 1..N /\ n - 1 \in 0..N
        BY <1>1, <2>1
      <3> QED
        BY <3>1, <1>3
    <2>2. ASSUME NEW n \in 0..N
          PROVE  SubSeq(d, 1, n) = At(w, n)
      <3>1. CASE n = 0
        BY <3>1, <1>4
      <3>2. CASE n # 0
        <4>1. n \in 1..N
          BY <3>2, <1>1
        <4> QED
          BY <4>1, <3>2, <2>1, <1>2
      <3> QED
        BY <3>1, <3>2
    <2> HIDE DEF At
    <2> QED
      BY <2>2
  <1>6. Def(fresh)
    BY <1>5, Zenon
  <1>7. Unprocessed(processed, request) = fresh[N]
    BY Zenon DEF Unprocessed
  <1> HIDE DEF fresh
  <1>8. ASSUME NEW n \in 0..(N - 1), fresh[n] = SubSeq(d, 1, n)
        PROVE  fresh[n + 1] = SubSeq(d, 1, n + 1)
    <2>1. n + 1 \in 1..N /\ n + 1 \in 0..N /\ n + 1 # 0 /\ (n + 1) - 1 = n
      BY <1>1
    <2>2. fresh[n + 1] = Append(fresh[n], d[n + 1])
      BY <1>6, <1>2, <2>1
    <2> QED
      BY <2>1, <2>2, <1>3, <1>8
  <1> DEFINE S == {n \in 0..N : fresh[n] = SubSeq(d, 1, n)}
  <1>9. 0 \in S
    BY <1>1, <1>4, <1>6
  <1>10. \A n \in 0..(N - 1) : n \in S => n + 1 \in S
    BY <1>1, <1>8
  <1> HIDE DEF S, N
  <1>11. 0..N \subseteq S
    BY <1>1, <1>9, <1>10, InductionUpTo
  <1> QED
    BY <1>1, <1>7, <1>11, SubSeqFull DEF S, N

\* A list of a type not met before is added at the end, as it is.
LEMMA MergeNewType ==
  ASSUME NEW X, NEW acc, NEW request \in RequestLists(X), request.type # NoType,
         Distinct(request.data),
         Apart(acc.processed, request), NoneOfType(acc.new_requests, request.type)
  PROVE  MergeOne(acc, request)
           = [processed    |-> acc.processed \union PiecesOf(request),
              new_requests |-> Append(acc.new_requests, request)]
  <1>1. Unprocessed(acc.processed, request) = request.data
    BY AllUnprocessed
  <1>2. request = [type |-> request.type, data |-> request.data]
    BY DEF RequestLists
  <1>3. {i \in DOMAIN acc.new_requests : acc.new_requests[i].type = request.type} = {}
    BY SMTT(30) DEF NoneOfType
  <1>4. AddToType(acc.new_requests, request.type, request.data) = Append(acc.new_requests, request)
    BY <1>2, <1>3 DEF AddToType
  <1> QED
    BY <1>1, <1>4 DEF MergeOne, PiecesOf

\* A further list of the only type met so far extends the one list there is.
LEMMA MergeSameType ==
  ASSUME NEW X, NEW acc, NEW old \in RequestLists(X), NEW request \in RequestLists(X),
         acc.new_requests = <<old>>, old.type = request.type, request.type # NoType,
         Distinct(request.data),
         Apart(acc.processed, request)
  PROVE  MergeOne(acc, request)
           = [processed    |-> acc.processed \union PiecesOf(request),
              new_requests |-> <<[type |-> request.type, data |-> old.data \o request.data]>>]
  <1> DEFINE news == <<old>>
             found == {i \in DOMAIN news : news[i].type = request.type}
             first == CHOOSE j \in found : \A k \in found : j <= k
  <1>1. Unprocessed(acc.processed, request) = request.data
    BY AllUnprocessed
  <1>2. found = {1}
    OBVIOUS
  <1>3. first = 1
    BY <1>2
  <1>5. [news EXCEPT ![1] = [type |-> request.type, data |-> @.data \o request.data]]
          = <<[type |-> request.type, data |-> old.data \o request.data]>>
    <2> DEFINE e == [type |-> request.type, data |-> old.data \o request.data]
    <2>1. [news EXCEPT ![1] = [type |-> request.type, data |-> @.data \o request.data]]
            = [news EXCEPT ![1] = e]
      OBVIOUS
    <2> HIDE DEF e
    <2>2. [news EXCEPT ![1] = e] = <<e>>
      OBVIOUS
    <2> QED
      BY <2>1, <2>2 DEF e
  <1>6. AddToType(news, request.type, request.data)
          = <<[type |-> request.type, data |-> old.data \o request.data]>>
    BY <1>2, <1>3, <1>5 DEF AddToType
  <1> QED
    BY <1>1, <1>6 DEF MergeOne, PiecesOf

(* The loop of merge_requests, round by round. *)
Merged(requests, g) ==
  g = [n \in 0..Len(requests) |->
         IF n = 0
           THEN [processed |-> {}, new_requests |-> << >>]
           ELSE MergeOne(g[n - 1], requests[n])]

LEMMA MergeRounds ==
  ASSUME NEW requests, Len(requests) \in Nat
  PROVE  \E g : /\ Merged(requests, g)
                /\ Len(requests) > 1 => MergeRequests(requests) = g[Len(requests)].new_requests
  <1> DEFINE N == Len(requests)
             At(f, n) == IF n = 0
                           THEN [processed |-> {}, new_requests |-> << >>]
                           ELSE MergeOne(f[n - 1], requests[n])
             Def(f, m) == f = [n \in 0..m |-> At(f, n)]
             S == {m \in 0..N : \E f : Def(f, m)}
             g == CHOOSE f : Def(f, N)
  <1>1. 0 \in S
    <2> DEFINE f == [n \in 0..0 |-> [processed |-> {}, new_requests |-> << >>]]
    <2>1. Def(f, 0)
      OBVIOUS
    <2>2. \E x : Def(x, 0)
      BY <2>1, Zenon
    <2> HIDE DEF Def
    <2> QED
      BY <2>2
  <1>2. ASSUME NEW m \in 0..(N - 1), m \in S
        PROVE  m + 1 \in S
    <2>1. PICK f : Def(f, m)
      BY <1>2
    <2> DEFINE h == [n \in 0..(m + 1) |-> IF n = m + 1 THEN At(f, n) ELSE f[n]]
    <2>2. ASSUME NEW n \in 0..(m + 1)
          PROVE  h[n] = At(h, n)
      <3>1. CASE n = m + 1
        <4>1. n - 1 \in 0..(m + 1) /\ n - 1 # m + 1 /\ h[n - 1] = f[n - 1]
          BY <3>1
        <4> QED
          BY <3>1, <4>1
      <3>2. CASE n # m + 1
        <4>1. n \in 0..m /\ h[n] = f[n]
          BY <3>2
        <4>2. f[n] = At(f, n)
          BY <4>1, <2>1
        <4>3. n # 0 => n - 1 \in 0..(m + 1) /\ n - 1 # m + 1 /\ h[n - 1] = f[n - 1]
          BY <4>1
        <4> QED
          BY <4>1, <4>2, <4>3
      <3> QED
        BY <3>1, <3>2
    <2>3. Def(h, m + 1)
      <3>1. h = [n \in 0..(m + 1) |-> h[n]]
        OBVIOUS
      <3> HIDE DEF h, At
      <3> QED
        BY <3>1, <2>2
    <2>4. \E x : Def(x, m + 1)
      BY <2>3, Zenon
    <2> HIDE DEF Def
    <2> QED
      BY <2>4
  <1> HIDE DEF S
  <1>3. 0..N \subseteq S
    BY <1>1, <1>2, InductionUpTo
  <1>4. \E f : Def(f, N)
    BY <1>3 DEF S
  <1>5. Def(g, N)
    BY <1>4, Zenon
  <1>6. MergeRequests(requests) = IF N <= 1 THEN requests ELSE g[N].new_requests
    BY Zenon DEF MergeRequests
  <1>7. Merged(requests, g)
    BY <1>5, Zenon DEF Merged
  <1> HIDE DEF g
  <1> QED
    BY <1>6, <1>7

(* The deposits behind a up to b. *)
PartOf(D, a, b, data) ==
  /\ a \in Nat /\ b \in Nat /\ a < b /\ b <= Len(D)
  /\ data = SubSeq(D, a + 1, b)

(* The deposits D of a block, in order, as the lists P of the subblocks     *)
(* that had any: list k holds those behind c[k - 1] up to c[k].             *)
DepositParts(D, c, P) ==
  /\ c \in [0..Len(P) -> 0..Len(D)]
  /\ c[0] = 0 /\ c[Len(P)] = Len(D)
  /\ \A k \in 1..Len(P) :
       /\ PartOf(D, c[k - 1], c[k], P[k].data)
       /\ P[k] = [type |-> DEPOSIT_REQUEST_TYPE, data |-> P[k].data]

(* The deposits up to the n-th, as the loop has them. *)
DepositsMerged(D, n) == {<<DEPOSIT_REQUEST_TYPE, D[i]>> : i \in 1..n}
DepositList(D, n) == [type |-> DEPOSIT_REQUEST_TYPE, data |-> SubSeq(D, 1, n)]

\* The pieces of a list of deposits, apart from each other and from the earlier.
LEMMA DepositPieces ==
  ASSUME NEW X, NEW D \in Seq(X), Distinct(D), NEW a, NEW b, NEW data, PartOf(D, a, b, data)
  PROVE  /\ data \in Seq(X) /\ Len(data) = b - a /\ DOMAIN data = 1..(b - a)
         /\ \A i \in 1..(b - a) : data[i] = D[a + i]
         /\ \A i, j \in 1..Len(data) : data[i] = data[j] => i = j
         /\ \A i \in 1..Len(data) : \A j \in 1..a : data[i] # D[j]
  <1>1. /\ Len(D) \in Nat /\ a \in Nat /\ b \in Nat /\ a < b /\ b <= Len(D)
        /\ data = SubSeq(D, a + 1, b)
    BY DEF PartOf
  <1>2. \A i \in (a + 1)..b : D[i] \in X
    BY <1>1
  <1>3. /\ data \in Seq(X)
        /\ Len(data) = (IF a + 1 <= b THEN b - (a + 1) + 1 ELSE 0)
        /\ \A i \in 1..(b - (a + 1) + 1) : data[i] = D[(a + 1) + i - 1]
    BY <1>1, <1>2, SubSeqProperties
  <1>4. Len(data) = b - a
    BY <1>1, <1>3
  <1>5. ASSUME NEW i \in 1..(b - a)
        PROVE  data[i] = D[a + i]
    <2>1. i \in 1..(b - (a + 1) + 1) /\ (a + 1) + i - 1 = a + i
      BY <1>1
    <2> QED
      BY <2>1, <1>3
  <1>6. ASSUME NEW i \in 1..Len(data), NEW j \in 1..Len(data), data[i] = data[j]
        PROVE  i = j
    <2>1. a + i \in 1..Len(D) /\ a + j \in 1..Len(D) /\ D[a + i] = D[a + j]
      BY <1>1, <1>4, <1>5, <1>6
    <2>2. a + i = a + j
      BY <2>1 DEF Distinct
    <2> QED
      BY <2>2, <1>1, <1>4
  <1>7. ASSUME NEW i \in 1..Len(data), NEW j \in 1..a, data[i] = D[j]
        PROVE  FALSE
    <2>1. a + i \in 1..Len(D) /\ j \in 1..Len(D) /\ D[a + i] = D[j]
      BY <1>1, <1>4, <1>5, <1>7
    <2>2. a + i = j
      BY <2>1 DEF Distinct
    <2> QED
      BY <2>2, <1>1, <1>4
  <1> QED
    BY <1>1, <1>3, <1>4, <1>5, <1>6, <1>7, LenProperties, ZenonT(60)

\* The pieces processed with a further list.
LEMMA DepositsProcessed ==
  ASSUME NEW X, NEW D \in Seq(X), Distinct(D), NEW a, NEW b, NEW data, PartOf(D, a, b, data)
  PROVE  DepositsMerged(D, a) \union PiecesOf([type |-> DEPOSIT_REQUEST_TYPE, data |-> data])
           = DepositsMerged(D, b)
  <1> DEFINE A == {<<DEPOSIT_REQUEST_TYPE, D[i]>> : i \in 1..a}
             B == {<<DEPOSIT_REQUEST_TYPE, data[j]>> : j \in DOMAIN data}
             U == {<<DEPOSIT_REQUEST_TYPE, D[i]>> : i \in 1..b}
  <1>0. /\ a \in Nat /\ b \in Nat /\ a < b
        /\ DOMAIN data = 1..(b - a) /\ \A i \in 1..(b - a) : data[i] = D[a + i]
    BY DepositPieces DEF PartOf
  <1>1. ASSUME NEW x \in A
        PROVE  x \in U
    <2>1. PICK i \in 1..a : x = <<DEPOSIT_REQUEST_TYPE, D[i]>>
      OBVIOUS
    <2>2. i \in 1..b
      BY <1>0
    <2> QED
      BY <2>1, <2>2
  <1>2. ASSUME NEW x \in B
        PROVE  x \in U
    <2>1. PICK j \in 1..(b - a) : x = <<DEPOSIT_REQUEST_TYPE, D[a + j]>>
      BY <1>0
    <2>2. a + j \in 1..b
      BY <1>0
    <2> QED
      BY <2>1, <2>2
  <1>3. ASSUME NEW x \in U
        PROVE  x \in A \/ x \in B
    <2>1. PICK i \in 1..b : x = <<DEPOSIT_REQUEST_TYPE, D[i]>>
      OBVIOUS
    <2>2. CASE i <= a
      BY <2>1, <2>2, <1>0
    <2>3. CASE i > a
      <3>1. PICK j \in 1..(b - a) : i = a + j
        <4>1. i - a \in 1..(b - a) /\ i = a + (i - a)
          BY <2>3, <1>0
        <4> QED
          BY <4>1
      <3> QED
        BY <2>1, <3>1, <1>0
    <2> QED
      BY <2>2, <2>3, <1>0
  <1>4. A \union B = U
    BY <1>1, <1>2, <1>3
  <1>5. PiecesOf([type |-> DEPOSIT_REQUEST_TYPE, data |-> data]) = B
    BY DEF PiecesOf
  <1> QED
    BY <1>4, <1>5 DEF DepositsMerged

\* One more list of deposits: its pieces join those merged before.
LEMMA MergeMoreDeposits ==
  ASSUME NEW X, NEW D \in Seq(X), Distinct(D), NEW a, NEW b, NEW data, PartOf(D, a, b, data),
         NEW request, request = [type |-> DEPOSIT_REQUEST_TYPE, data |-> data],
         NEW acc, acc.processed = DepositsMerged(D, a),
         \/ acc.new_requests = << >> /\ a = 0
         \/ acc.new_requests = <<DepositList(D, a)>>
  PROVE  MergeOne(acc, request)
           = [processed |-> DepositsMerged(D, b), new_requests |-> <<DepositList(D, b)>>]
  <1>1. a \in Nat /\ b \in Nat /\ a < b /\ b <= Len(D) /\ data = SubSeq(D, a + 1, b)
    BY DEF PartOf
  <1>2. PICK T : T = DEPOSIT_REQUEST_TYPE
    OBVIOUS
  <1>3. /\ data \in Seq(X) /\ DOMAIN data = 1..(b - a)
        /\ \A i \in 1..(b - a) : data[i] = D[a + i]
        /\ \A i, j \in 1..Len(data) : data[i] = data[j] => i = j
        /\ \A i \in 1..Len(data) : \A j \in 1..a : data[i] # D[j]
    BY DepositPieces
  <1>4. T \in Int /\ T # NoType
    BY <1>2 DEF DEPOSIT_REQUEST_TYPE, NoType
  <1>5. request \in RequestLists(X) /\ request.type = T /\ request.data = data
    <2>1. [type |-> T, data |-> data] \in [type : Int, data : Seq(X)]
      BY <1>3, <1>4
    <2>2. request = [type |-> T, data |-> data]
      BY <1>2
    <2> QED
      BY <2>1, <2>2 DEF RequestLists
  <1>6. Distinct(request.data)
    BY <1>3, <1>5, ZenonT(60) DEF Distinct
  <1>8. Apart(acc.processed, request)
    <2> SUFFICES ASSUME NEW i \in 1..Len(data), <<T, data[i]>> \in DepositsMerged(D, a)
                 PROVE  FALSE
      BY <1>5, Zenon DEF Apart
    <2>1. PICK j \in 1..a : <<T, data[i]>> = <<T, D[j]>>
      BY <1>2, Zenon DEF DepositsMerged
    <2> QED
      BY <2>1, <1>3
  <1>9. acc.processed \union PiecesOf(request)
          = DepositsMerged(D, b)
    <2>1. DepositsMerged(D, a) \union PiecesOf([type |-> DEPOSIT_REQUEST_TYPE, data |-> data])
            = DepositsMerged(D, b)
      BY DepositsProcessed
    <2> QED
      BY <2>1, Zenon
  <1>10. CASE acc.new_requests = << >> /\ a = 0
    <2>1. NoneOfType(acc.new_requests, request.type)
      BY <1>10 DEF NoneOfType
    <2>2. MergeOne(acc, request)
            = [processed |-> acc.processed \union PiecesOf(request),
               new_requests |-> Append(acc.new_requests, request)]
      <3>1. request.type # NoType
        BY <1>4, <1>5, Zenon
      <3> QED
        BY <2>1, <3>1, <1>5, <1>6, <1>8, MergeNewType, Zenon
    <2>3. Append(acc.new_requests, request) = <<request>>
      BY <1>10
    <2>4. request = DepositList(D, b)
      <3>1. a + 1 = 1
        BY <1>10
      <3> QED
        BY <3>1, <1>1, <1>2, <1>5 DEF DepositList
    <2> QED
      BY <2>2, <2>3, <2>4, <1>9, Zenon
  <1>11. CASE acc.new_requests = <<DepositList(D, a)>>
    <2>1. SubSeq(D, 1, a) \in Seq(X)
      <3>1. \A i \in 1..a : D[i] \in X
        BY <1>1
      <3> QED
        BY <1>1, <3>1, SubSeqProperties
    <2>2. SubSeq(D, 1, a) \o data = SubSeq(D, 1, b)
      <3>1. 1 \in 1..(Len(D) + 1) /\ a \in (1 - 1)..Len(D) /\ b \in a..Len(D)
        BY <1>1
      <3> QED
        BY <3>1, <1>1, ConcatAdjacentSubSeq
    <2>3. PICK old : old = DepositList(D, a)
      OBVIOUS
    <2>4. old.type = T /\ old.data = SubSeq(D, 1, a)
      BY <2>3, <1>2 DEF DepositList
    <2>5. old \in RequestLists(X)
      <3>1. [type |-> T, data |-> SubSeq(D, 1, a)] \in [type : Int, data : Seq(X)]
        BY <2>1, <1>4
      <3> QED
        BY <3>1, <2>3, <1>2 DEF DepositList, RequestLists
    <2>6. MergeOne(acc, request)
            = [processed |-> acc.processed \union PiecesOf(request),
               new_requests |-> <<[type |-> request.type, data |-> old.data \o request.data]>>]
      <3>1. request.type # NoType /\ old.type = request.type /\ acc.new_requests = <<old>>
        BY <2>3, <2>4, <1>4, <1>5, <1>11, Zenon
      <3> QED
        BY <2>5, <3>1, <1>5, <1>6, <1>8, MergeSameType, ZenonT(60)
    <2>7. [type |-> request.type, data |-> old.data \o request.data] = DepositList(D, b)
      BY <2>2, <2>4, <1>2, <1>5, Zenon DEF DepositList
    <2> QED
      BY <2>6, <2>7, <1>9, Zenon
  <1> QED
    BY <1>10, <1>11

\* After the lists of deposits the loop has one list, with all of them.
LEMMA DepositRounds ==
  ASSUME NEW X, NEW D \in Seq(X), Distinct(D), NEW P \in Seq(RequestLists(X)), NEW c,
         DepositParts(D, c, P), NEW R, Len(R) \in Nat, Len(P) <= Len(R),
         \A k \in 1..Len(P) : R[k] = P[k], NEW g, Merged(R, g)
  PROVE  /\ g[Len(P)].processed = DepositsMerged(D, Len(D))
         /\ g[Len(P)].new_requests = Report(DEPOSIT_REQUEST_TYPE, D)
  <1> DEFINE News(n) == IF n = 0 THEN << >> ELSE <<DepositList(D, c[n])>>
             Good(n) == /\ g[n].processed = DepositsMerged(D, c[n])
                        /\ g[n].new_requests = News(n)
             S == {n \in 0..Len(P) : Good(n)}
  <1>0. PICK m \in Nat : m = Len(P)
    OBVIOUS
  <1>1. /\ Len(D) \in Nat /\ c[0] = 0 /\ c[m] = Len(D)
        /\ \A k \in 0..m : c[k] \in Nat
    BY <1>0 DEF DepositParts
  <1>2. /\ g[0] = [processed |-> {}, new_requests |-> << >>]
        /\ \A n \in 1..m : g[n] = MergeOne(g[n - 1], R[n])
    <2>1. 0 \in 0..Len(R) /\ \A n \in 1..m : n \in 0..Len(R) /\ n # 0
      BY <1>0
    <2>2. \A n \in 0..Len(R) : g[n] = IF n = 0 THEN [processed |-> {}, new_requests |-> << >>]
                                       ELSE MergeOne(g[n - 1], R[n])
      BY DEF Merged
    <2>3. g[0] = [processed |-> {}, new_requests |-> << >>]
      BY <2>1, <2>2
    <2>4. ASSUME NEW n \in 1..m
          PROVE  g[n] = MergeOne(g[n - 1], R[n])
      BY <2>1, <2>2
    <2> QED
      BY <2>3, <2>4
  <1>3. Good(0)
    <2>1. DepositsMerged(D, 0) = {}
      BY DEF DepositsMerged
    <2> QED
      BY <2>1, <1>1, <1>2
  <1>4. ASSUME NEW n \in 0..(m - 1), Good(n)
        PROVE  Good(n + 1)
    <2>1. n + 1 \in 1..m /\ n + 1 # 0 /\ (n + 1) - 1 = n
      OBVIOUS
    <2>2. PICK a, b, data, request, acc :
             a = c[n] /\ b = c[n + 1] /\ request = P[n + 1] /\ data = request.data /\ acc = g[n]
      OBVIOUS
    <2>3. PartOf(D, a, b, data) /\ request = [type |-> DEPOSIT_REQUEST_TYPE, data |-> data]
      BY <2>1, <2>2, <1>0 DEF DepositParts
    <2>4. /\ acc.processed = DepositsMerged(D, a)
          /\ \/ acc.new_requests = << >> /\ a = 0
             \/ acc.new_requests = <<DepositList(D, a)>>
      BY <2>2, <1>1, <1>4
    <2>5. MergeOne(acc, request)
            = [processed |-> DepositsMerged(D, b), new_requests |-> <<DepositList(D, b)>>]
      BY <2>3, <2>4, MergeMoreDeposits
    <2>6. g[n + 1] = MergeOne(acc, request)
      BY <2>1, <2>2, <1>0, <1>2
    <2> QED
      BY <2>1, <2>2, <2>5, <2>6
  <1> HIDE DEF Good
  <1>5. 0 \in S /\ \A n \in 0..(m - 1) : n \in S => n + 1 \in S
    BY <1>0, <1>3, <1>4
  <1> HIDE DEF S
  <1>6. 0..m \subseteq S
    BY <1>5, InductionUpTo
  <1>7. Good(m)
    BY <1>6 DEF S
  <1>8. News(m) = Report(DEPOSIT_REQUEST_TYPE, D)
    <2>1. CASE m = 0
      <3>1. D = << >>
        BY <2>1, <1>1
      <3> QED
        BY <2>1, <3>1 DEF Report
    <2>2. CASE m # 0
      <3>1. PartOf(D, c[m - 1], c[m], P[m].data)
        <4>1. m \in 1..Len(P)
          BY <2>2, <1>0
        <4> QED
          BY <4>1 DEF DepositParts
      <3>2. Len(D) > 0
        BY <3>1, <1>1 DEF PartOf
      <3>3. D # << >> /\ SubSeq(D, 1, Len(D)) = D
        BY <3>2, SubSeqFull
      <3> QED
        BY <2>2, <3>3, <1>1 DEF Report, DepositList
    <2> QED
      BY <2>1, <2>2
  <1> QED
    BY <1>0, <1>1, <1>7, <1>8 DEF Good

(* Only types below t were met so far. *)
TypesBelow(X, acc, t) ==
  /\ acc.new_requests \in Seq(RequestLists(X))
  /\ \A i \in DOMAIN acc.new_requests : acc.new_requests[i].type \in 0..(t - 1)
  /\ \A x \in acc.processed : x[1] \in 0..(t - 1)

(* The list at n + 1, if there is anything to report of that type. *)
ReportedAt(R, n, t, W) ==
  /\ n \in Nat /\ Len(R) \in Nat /\ n + Len(Report(t, W)) <= Len(R)
  /\ W # << >> => R[n + 1] = [type |-> t, data |-> W]

RoundDone(X, g, n, t, W) ==
  /\ g[n + Len(Report(t, W))].new_requests = g[n].new_requests \o Report(t, W)
  /\ TypesBelow(X, g[n + Len(Report(t, W))], t + 1)

\* The list of a later type is added as it is.
LEMMA LaterRound ==
  ASSUME NEW X, NEW R, NEW g, Merged(R, g), NEW n, NEW t \in Nat, NEW W \in Seq(X), Distinct(W),
         ReportedAt(R, n, t, W), TypesBelow(X, g[n], t)
  PROVE  RoundDone(X, g, n, t, W)
  <1>0. n \in Nat /\ Len(R) \in Nat /\ n + Len(Report(t, W)) <= Len(R)
    BY DEF ReportedAt
  <1>1. CASE W = << >>
    <2>1. Report(t, W) = << >> /\ Len(Report(t, W)) = 0
      BY <1>1 DEF Report
    <2>2. n + 0 = n
      BY <1>0
    <2>3. g[n].new_requests \o << >> = g[n].new_requests
      BY ConcatEmptySeq DEF TypesBelow
    <2>4. TypesBelow(X, g[n], t + 1)
      BY DEF TypesBelow
    <2> QED
      BY <2>1, <2>2, <2>3, <2>4 DEF RoundDone
  <1>2. CASE W # << >>
    <2>1. PICK request : request = [type |-> t, data |-> W]
      OBVIOUS
    <2>2. PICK acc : acc = g[n]
      OBVIOUS
    <2>3. Report(t, W) = <<request>> /\ Len(Report(t, W)) = 1
      BY <1>2, <2>1 DEF Report
    <2>4. n + 1 \in 0..Len(R) /\ n + 1 # 0 /\ (n + 1) - 1 = n /\ R[n + 1] = request
      BY <1>0, <1>2, <2>1, <2>3 DEF ReportedAt
    <2>5. g[n + 1] = MergeOne(acc, request)
      BY <2>2, <2>4 DEF Merged
    <2>6. /\ request \in RequestLists(X) /\ request.type = t /\ request.data = W
          /\ request.type # NoType
      <3>1. [type |-> t, data |-> W] \in [type : Int, data : Seq(X)]
        OBVIOUS
      <3>2. t # NoType
        BY DEF NoType
      <3> QED
        BY <3>1, <3>2, <2>1 DEF RequestLists
    <2>7. Apart(acc.processed, request)
      <3> SUFFICES ASSUME NEW i \in 1..Len(request.data),
                          <<request.type, request.data[i]>> \in acc.processed
                   PROVE  FALSE
        BY DEF Apart
      <3>1. <<request.type, request.data[i]>>[1] \in 0..(t - 1)
        BY <2>2 DEF TypesBelow
      <3> QED
        BY <3>1, <2>6
    <2>8. NoneOfType(acc.new_requests, request.type)
      <3> SUFFICES ASSUME NEW i \in DOMAIN acc.new_requests,
                          acc.new_requests[i].type = request.type
                   PROVE  FALSE
        BY DEF NoneOfType
      <3>1. acc.new_requests[i].type \in 0..(t - 1)
        BY <2>2 DEF TypesBelow
      <3> QED
        BY <3>1, <2>6
    <2>9. MergeOne(acc, request)
            = [processed    |-> acc.processed \union PiecesOf(request),
               new_requests |-> Append(acc.new_requests, request)]
      BY <2>6, <2>7, <2>8, MergeNewType, Zenon
    <2>10. acc.new_requests \in Seq(RequestLists(X))
      BY <2>2 DEF TypesBelow
    <2>11. Append(acc.new_requests, request) = acc.new_requests \o <<request>>
      BY <2>6, <2>10, AppendIsConcat
    <2>12. g[n + 1].new_requests = g[n].new_requests \o Report(t, W)
      BY <2>2, <2>3, <2>5, <2>9, <2>11, SMTT(30)
    <2>13. PICK news : news = Append(acc.new_requests, request)
      OBVIOUS
    <2>14. /\ news \in Seq(RequestLists(X))
           /\ \A i \in DOMAIN news : news[i].type \in 0..t
      <3>1. /\ news \in Seq(RequestLists(X)) /\ Len(news) = Len(acc.new_requests) + 1
            /\ \A i \in 1..Len(acc.new_requests) : news[i] = acc.new_requests[i]
            /\ news[Len(acc.new_requests) + 1] = request
        BY <2>6, <2>10, <2>13, AppendProperties
      <3>2. DOMAIN news = 1..(Len(acc.new_requests) + 1) /\ Len(acc.new_requests) \in Nat
            /\ DOMAIN acc.new_requests = 1..Len(acc.new_requests)
        BY <3>1, <2>10, LenProperties
      <3>3. ASSUME NEW i \in DOMAIN news
            PROVE  news[i].type \in 0..t
        <4>1. CASE i = Len(acc.new_requests) + 1
          BY <4>1, <3>1, <2>6
        <4>2. CASE i # Len(acc.new_requests) + 1
          <5>1. i \in DOMAIN acc.new_requests /\ news[i] = acc.new_requests[i]
            BY <4>2, <3>1, <3>2
          <5>2. acc.new_requests[i].type \in 0..(t - 1)
            BY <5>1, <2>2 DEF TypesBelow
          <5> QED
            BY <5>1, <5>2
        <4> QED
          BY <4>1, <4>2
      <3> QED
        BY <3>1, <3>3
    <2>15. \A x \in acc.processed \union PiecesOf(request) : x[1] \in 0..t
      <3>1. ASSUME NEW x \in acc.processed
            PROVE  x[1] \in 0..t
        <4>1. x[1] \in 0..(t - 1)
          BY <2>2 DEF TypesBelow
        <4> QED
          BY <4>1
      <3>2. ASSUME NEW x \in PiecesOf(request)
            PROVE  x[1] \in 0..t
        <4>1. PICK j : x = <<request.type, request.data[j]>>
          BY DEF PiecesOf
        <4> QED
          BY <4>1, <2>6
      <3> QED
        BY <3>1, <3>2
    <2>16. TypesBelow(X, g[n + 1], t + 1)
      <3>1. g[n + 1].new_requests = news /\ g[n + 1].processed = acc.processed \union PiecesOf(request)
        BY <2>5, <2>9, <2>13
      <3>2. (t + 1) - 1 = t
        OBVIOUS
      <3> QED
        BY <3>1, <3>2, <2>14, <2>15 DEF TypesBelow
    <2> QED
      BY <2>3, <2>12, <2>16 DEF RoundDone
  <1> QED
    BY <1>1, <1>2

\* A list of at most one element for a type.
LEMMA ReportType ==
  ASSUME NEW X, NEW t \in Int, NEW W \in Seq(X)
  PROVE  /\ Report(t, W) \in Seq(RequestLists(X))
         /\ Len(Report(t, W)) = IF W = << >> THEN 0 ELSE 1
         /\ W # << >> => Report(t, W)[1] = [type |-> t, data |-> W]
  <1>1. [type |-> t, data |-> W] \in RequestLists(X)
    BY DEF RequestLists
  <1> QED
    BY <1>1 DEF Report

\* The parts of a concatenation of three sequences.
LEMMA ThreeParts ==
  ASSUME NEW S, NEW p \in Seq(S), NEW q \in Seq(S), NEW r \in Seq(S)
  PROVE  /\ (p \o q) \o r \in Seq(S)
         /\ Len((p \o q) \o r) = Len(p) + Len(q) + Len(r)
         /\ \A i \in 1..Len(p) : ((p \o q) \o r)[i] = p[i]
         /\ \A i \in 1..Len(q) : ((p \o q) \o r)[Len(p) + i] = q[i]
         /\ \A i \in 1..Len(r) : ((p \o q) \o r)[Len(p) + Len(q) + i] = r[i]
  <1>1. PICK pq : pq = p \o q
    OBVIOUS
  <1>2. /\ pq \in Seq(S) /\ Len(pq) = Len(p) + Len(q)
        /\ \A i \in 1..(Len(p) + Len(q)) : pq[i] = IF i <= Len(p) THEN p[i] ELSE q[i - Len(p)]
    BY <1>1, ConcatProperties
  <1>0. pq \in Seq(S)
    BY <1>2
  <1>3. /\ pq \o r \in Seq(S) /\ Len(pq \o r) = Len(pq) + Len(r)
        /\ \A i \in 1..(Len(pq) + Len(r)) :
             (pq \o r)[i] = IF i <= Len(pq) THEN pq[i] ELSE r[i - Len(pq)]
    BY <1>0, ConcatProperties
  <1>4. Len(p) \in Nat /\ Len(q) \in Nat /\ Len(r) \in Nat
    OBVIOUS
  <1>5. ASSUME NEW i \in 1..Len(p)
        PROVE  (pq \o r)[i] = p[i]
    BY <1>2, <1>3, <1>4
  <1>6. ASSUME NEW i \in 1..Len(q)
        PROVE  (pq \o r)[Len(p) + i] = q[i]
    <2>1. Len(p) + i \in 1..(Len(p) + Len(q)) /\ Len(p) + i \in 1..(Len(pq) + Len(r))
          /\ Len(p) + i <= Len(pq) /\ ~(Len(p) + i <= Len(p)) /\ (Len(p) + i) - Len(p) = i
      BY <1>2, <1>4
    <2> QED
      BY <2>1, <1>2, <1>3
  <1>7. ASSUME NEW i \in 1..Len(r)
        PROVE  (pq \o r)[Len(p) + Len(q) + i] = r[i]
    <2>1. PICK j \in Nat : j = Len(p) + Len(q) + i
      BY <1>4
    <2>2. j \in 1..(Len(pq) + Len(r)) /\ ~(j <= Len(pq)) /\ j - Len(pq) = i
      BY <2>1, <1>2, <1>4
    <2> QED
      BY <2>1, <2>2, <1>3
  <1> QED
    BY <1>1, <1>2, <1>3, <1>5, <1>6, <1>7

\* The lists of deposits, if there is at most one.
LEMMA FewDeposits ==
  ASSUME NEW X, NEW D \in Seq(X), NEW P \in Seq(RequestLists(X)), NEW c, DepositParts(D, c, P),
         Len(P) <= 1
  PROVE  P = Report(DEPOSIT_REQUEST_TYPE, D)
  <1>0. c[0] = 0 /\ c[Len(P)] = Len(D) /\ Len(D) \in Nat
    BY DEF DepositParts
  <1>1. CASE Len(P) = 0
    <2>1. D = << >> /\ P = << >>
      BY <1>0, <1>1
    <2> QED
      BY <2>1 DEF Report
  <1>2. CASE Len(P) = 1
    <2>0. 1 \in 1..Len(P) /\ 1 - 1 = 0
      BY <1>2
    <2>1. PartOf(D, c[0], c[1], P[1].data)
          /\ P[1] = [type |-> DEPOSIT_REQUEST_TYPE, data |-> P[1].data]
      BY <2>0 DEF DepositParts
    <2>2. P[1].data = SubSeq(D, 1, Len(D)) /\ Len(D) > 0
      BY <1>0, <1>2, <2>1 DEF PartOf
    <2>3. P[1].data = D /\ D # << >>
      BY <2>2, SubSeqFull
    <2>4. Report(DEPOSIT_REQUEST_TYPE, D) = <<P[1]>>
      BY <2>1, <2>3 DEF Report
    <2>5. P = <<P[1]>>
      BY <1>2
    <2> QED
      BY <2>4, <2>5
  <1>3. Len(P) = 0 \/ Len(P) = 1
    <2>1. Len(P) \in Nat
      BY LenProperties
    <2> QED
      BY <2>1
  <1> QED
    BY <1>1, <1>2, <1>3

(* merge_requests on what the subblocks of a block report: lists of        *)
(* deposits, then the queues the last one drained.  The result is what one *)
(* execution of the block reports, if no queue holds a request twice.      *)
LEMMA MergeOfSubblocks ==
  ASSUME NEW X, NEW D \in Seq(X), NEW W \in Seq(X), NEW C \in Seq(X),
         Distinct(D), Distinct(W), Distinct(C),
         NEW P \in Seq(RequestLists(X)), NEW c, DepositParts(D, c, P)
  PROVE  MergeRequests((P \o Report(WITHDRAWAL_REQUEST_TYPE, W))
                         \o Report(CONSOLIDATION_REQUEST_TYPE, C))
           = (Report(DEPOSIT_REQUEST_TYPE, D) \o Report(WITHDRAWAL_REQUEST_TYPE, W))
               \o Report(CONSOLIDATION_REQUEST_TYPE, C)
  <1>1. PICK t0 \in Nat, t1 \in Nat, t2 \in Nat :
           /\ t0 = DEPOSIT_REQUEST_TYPE /\ t1 = WITHDRAWAL_REQUEST_TYPE
           /\ t2 = CONSOLIDATION_REQUEST_TYPE /\ t1 = t0 + 1 /\ t2 = t1 + 1 /\ t0 = 0
    BY DEF DEPOSIT_REQUEST_TYPE, WITHDRAWAL_REQUEST_TYPE, CONSOLIDATION_REQUEST_TYPE
  <1>2. PICK rd : rd = Report(t0, D)
    OBVIOUS
  <1>3. PICK rw : rw = Report(t1, W)
    OBVIOUS
  <1>4. PICK rc : rc = Report(t2, C)
    OBVIOUS
  <1>5. PICK L : L = RequestLists(X)
    OBVIOUS
  <1>11. rd \in Seq(L) /\ P \in Seq(L)
    <2>1. /\ rd \in Seq(L) /\ Len(rd) = (IF D = << >> THEN 0 ELSE 1)
          /\ D # << >> => rd[1] = [type |-> t0, data |-> D]
      BY <1>2, <1>5, ReportType
    <2> QED
      BY <2>1, <1>5
  <1>12. /\ rw \in Seq(L) /\ Len(rw) = (IF W = << >> THEN 0 ELSE 1)
         /\ W # << >> => rw[1] = [type |-> t1, data |-> W]
    BY <1>3, <1>5, ReportType
  <1>13. /\ rc \in Seq(L) /\ Len(rc) = (IF C = << >> THEN 0 ELSE 1)
         /\ C # << >> => rc[1] = [type |-> t2, data |-> C]
    BY <1>4, <1>5, ReportType
  <1>6. PICK m \in Nat, nw \in Nat, nc \in Nat : m = Len(P) /\ nw = Len(rw) /\ nc = Len(rc)
    BY <1>11, <1>12, <1>13
  <1>14. PICK R : R = (P \o rw) \o rc
    OBVIOUS
  <1>15. rw \in Seq(L) /\ rc \in Seq(L)
    BY <1>12, <1>13
  <1>7. /\ R \in Seq(L) /\ Len(R) = Len(P) + Len(rw) + Len(rc)
        /\ \A i \in 1..Len(P) : R[i] = P[i]
        /\ \A i \in 1..Len(rw) : R[Len(P) + i] = rw[i]
        /\ \A i \in 1..Len(rc) : R[Len(P) + Len(rw) + i] = rc[i]
    BY <1>11, <1>14, <1>15, ThreeParts, SMTT(30)
  <1>16. /\ Len(R) \in Nat /\ Len(R) = m + nw + nc
         /\ \A i \in 1..m : R[i] = P[i]
    BY <1>6, <1>7
  <1>17. W # << >> => nw = 1 /\ R[m + 1] = [type |-> t1, data |-> W]
    <2> SUFFICES ASSUME W # << >>
                 PROVE  nw = 1 /\ R[m + 1] = [type |-> t1, data |-> W]
      OBVIOUS
    <2>1. nw = 1 /\ rw[1] = [type |-> t1, data |-> W]
      BY <1>6, <1>12
    <2>2. R[Len(P) + 1] = rw[1]
      <3>1. 1 \in 1..Len(rw)
        <4>1. Len(rw) = 1
          BY <2>1, <1>6
        <4> QED
          BY <4>1
      <3> QED
        BY <3>1, <1>7
    <2> QED
      BY <2>1, <2>2, <1>6
  <1>18. C # << >> => nc = 1 /\ R[m + nw + 1] = [type |-> t2, data |-> C]
    <2> SUFFICES ASSUME C # << >>
                 PROVE  nc = 1 /\ R[m + nw + 1] = [type |-> t2, data |-> C]
      OBVIOUS
    <2>1. nc = 1 /\ rc[1] = [type |-> t2, data |-> C]
      BY <1>6, <1>13
    <2>2. R[Len(P) + Len(rw) + 1] = rc[1]
      <3>1. 1 \in 1..Len(rc)
        <4>1. Len(rc) = 1
          BY <2>1, <1>6
        <4> QED
          BY <4>1
      <3> QED
        BY <3>1, <1>7
    <2> QED
      BY <2>1, <2>2, <1>6
  <1>8. PICK g : Merged(R, g) /\ (Len(R) > 1 => MergeRequests(R) = g[Len(R)].new_requests)
    BY <1>16, MergeRounds
  <1>9. CASE Len(R) > 1
    <2>1. /\ g[m].processed = DepositsMerged(D, Len(D))
          /\ g[m].new_requests = rd
      <3>1. Len(R) \in Nat /\ Len(P) <= Len(R) /\ \A i \in 1..Len(P) : R[i] = P[i]
        BY <1>6, <1>16
      <3>2. Merged(R, g)
        BY <1>8
      <3>3. /\ g[Len(P)].processed = DepositsMerged(D, Len(D))
            /\ g[Len(P)].new_requests = Report(DEPOSIT_REQUEST_TYPE, D)
        BY <3>1, <3>2, DepositRounds
      <3> QED
        BY <3>3, <1>1, <1>2, <1>6
    <2>2. TypesBelow(X, g[m], t1)
      <3>1. \A x \in DepositsMerged(D, Len(D)) : x[1] = t0
        <4> SUFFICES ASSUME NEW x \in DepositsMerged(D, Len(D))
                     PROVE  x[1] = t0
          OBVIOUS
        <4>1. PICK i \in 1..Len(D) : x = <<DEPOSIT_REQUEST_TYPE, D[i]>>
          BY DEF DepositsMerged
        <4> QED
          BY <4>1, <1>1
      <3>2. \A i \in DOMAIN rd : rd[i].type = t0
        <4>1. CASE D = << >>
          BY <4>1, <1>2 DEF Report
        <4>2. CASE D # << >>
          <5>1. rd = <<[type |-> t0, data |-> D]>>
            BY <4>2, <1>2 DEF Report
          <5> QED
            BY <5>1
        <4> QED
          BY <4>1, <4>2
      <3>3. t0 \in 0..(t1 - 1)
        BY <1>1
      <3>4. \A x \in DepositsMerged(D, Len(D)) : x[1] \in 0..(t1 - 1)
        BY <3>1, <3>3
      <3>5. \A i \in DOMAIN rd : rd[i].type \in 0..(t1 - 1)
        BY <3>2, <3>3
      <3> QED
        BY <3>4, <3>5, <2>1, <1>5, <1>11 DEF TypesBelow
    <2>3. ReportedAt(R, m, t1, W)
      <3>1. m + Len(Report(t1, W)) <= Len(R)
        BY <1>3, <1>6, <1>16
      <3> QED
        BY <3>1, <1>16, <1>17 DEF ReportedAt
    <2>4. PICK n \in Nat : n = m + nw
      OBVIOUS
    <2>5. g[n].new_requests = rd \o rw /\ TypesBelow(X, g[n], t2)
      <3>1. RoundDone(X, g, m, t1, W)
        BY <2>2, <2>3, <1>8, LaterRound
      <3> QED
        BY <3>1, <2>1, <2>4, <1>1, <1>3, <1>6 DEF RoundDone
    <2>6. ReportedAt(R, n, t2, C)
      <3>1. n + Len(Report(t2, C)) <= Len(R)
        BY <2>4, <1>4, <1>6, <1>16
      <3> QED
        BY <3>1, <2>4, <1>16, <1>18 DEF ReportedAt
    <2>7. g[n + nc].new_requests = (rd \o rw) \o rc
      <3>1. RoundDone(X, g, n, t2, C)
        BY <2>5, <2>6, <1>8, LaterRound
      <3> QED
        BY <3>1, <2>5, <1>4, <1>6 DEF RoundDone
    <2>8. Len(R) = n + nc
      BY <2>4, <1>16
    <2> QED
      BY <2>7, <2>8, <1>1, <1>2, <1>3, <1>4, <1>8, <1>9, <1>14
  <1>10. CASE ~(Len(R) > 1)
    <2>1. MergeRequests(R) = R
      <3>1. Len(R) <= 1
        BY <1>10, <1>16
      <3> QED
        BY <3>1 DEF MergeRequests
    <2>2. Len(P) <= 1
      BY <1>6, <1>16, <1>10
    <2>3. P = rd
      BY <2>2, <1>1, <1>2, FewDeposits
    <2> QED
      BY <2>1, <2>3, <1>1, <1>2, <1>3, <1>4, <1>14
  <1> QED
    BY <1>9, <1>10

\* Deposits of a further subblock: one more list, if there are any.
LEMMA MoreParts ==
  ASSUME NEW X, NEW D \in Seq(X), NEW E \in Seq(X), NEW P \in Seq(RequestLists(X)), NEW c,
         DepositParts(D, c, P)
  PROVE  /\ P \o Report(DEPOSIT_REQUEST_TYPE, E) \in Seq(RequestLists(X))
         /\ \E c2 : DepositParts(D \o E, c2, P \o Report(DEPOSIT_REQUEST_TYPE, E))
  <1>0. PICK t \in Int : t = DEPOSIT_REQUEST_TYPE
    BY DEF DEPOSIT_REQUEST_TYPE
  <1>1. PICK r : t = DEPOSIT_REQUEST_TYPE /\ r = Report(t, E)
    BY <1>0
  <1>2. /\ r \in Seq(RequestLists(X)) /\ Len(r) = (IF E = << >> THEN 0 ELSE 1)
        /\ E # << >> => r[1] = [type |-> t, data |-> E]
    BY <1>1, ReportType
  <1>3. r \in Seq(RequestLists(X))
    BY <1>2
  <1>4. PICK P2 : P2 = P \o r
    OBVIOUS
  <1>5. /\ P2 \in Seq(RequestLists(X)) /\ Len(P2) = Len(P) + Len(r)
        /\ \A k \in 1..(Len(P) + Len(r)) : P2[k] = IF k <= Len(P) THEN P[k] ELSE r[k - Len(P)]
    BY <1>3, <1>4, ConcatProperties
  <1>6. CASE E = << >>
    <2>1. r = << >>
      BY <1>1, <1>6 DEF Report
    <2>2. P2 = P /\ D \o E = D
      BY <2>1, <1>4, <1>6, ConcatEmptySeq
    <2> QED
      BY <2>2, <1>1, <1>4
  <1>7. CASE E # << >>
    <2>1. PICK m \in Nat, d \in Nat, e \in Nat : m = Len(P) /\ d = Len(D) /\ e = Len(E) /\ e > 0
      BY <1>7, EmptySeq, LenProperties
    <2>2. /\ Len(P2) = m + 1 /\ P2[m + 1] = [type |-> t, data |-> E]
          /\ \A k \in 1..m : P2[k] = P[k]
      <3>1. Len(r) = 1 /\ r[1] = [type |-> t, data |-> E]
        BY <1>2, <1>7
      <3>2. Len(P2) = m + 1
        BY <3>1, <2>1, <1>5
      <3>3. ASSUME NEW k \in 1..m
            PROVE  P2[k] = P[k]
        BY <3>1, <2>1, <1>5
      <3>4. P2[m + 1] = r[1]
        <4>1. m + 1 \in 1..(Len(P) + Len(r)) /\ ~(m + 1 <= Len(P)) /\ (m + 1) - Len(P) = 1
          BY <3>1, <2>1
        <4> QED
          BY <4>1, <1>5
      <3> QED
        BY <3>1, <3>2, <3>3, <3>4
    <2>3. PICK DE : DE = D \o E
      OBVIOUS
    <2>4. DE \in Seq(X) /\ Len(DE) = d + e
      BY <2>1, <2>3, ConcatProperties
    <2> DEFINE c2 == [k \in 0..(m + 1) |-> IF k = m + 1 THEN d + e ELSE c[k]]
    <2>5. /\ c \in [0..m -> 0..d] /\ c[0] = 0 /\ c[m] = d
          /\ \A k \in 1..m : /\ PartOf(D, c[k - 1], c[k], P[k].data)
                             /\ P[k] = [type |-> t, data |-> P[k].data]
      BY <2>1, <1>1 DEF DepositParts
    <2>6. ASSUME NEW a, NEW b, NEW data, PartOf(D, a, b, data)
          PROVE  PartOf(DE, a, b, data)
      <3>1. a \in Nat /\ b \in Nat /\ a < b /\ b <= d /\ data = SubSeq(D, a + 1, b)
        BY <2>1, <2>6 DEF PartOf
      <3>2. a + 1 \in 1..Len(D) /\ b \in 1..Len(D)
        BY <3>1, <2>1
      <3>3. SubSeq(DE, a + 1, b) = SubSeq(D, a + 1, b)
        BY <3>2, <2>3, SubSeqOfConcat1
      <3>4. b <= Len(DE)
        BY <3>1, <2>1, <2>4
      <3> QED
        BY <3>1, <3>3, <3>4 DEF PartOf
    <2>7. PartOf(DE, d, d + e, E)
      <3>1. d + 1 \in (Len(D) + 1)..(Len(D) + Len(E)) /\ d + e \in (Len(D) + 1)..(Len(D) + Len(E))
            /\ (d + 1) - Len(D) = 1 /\ (d + e) - Len(D) = Len(E)
        BY <2>1
      <3>2. SubSeq(DE, d + 1, d + e) = SubSeq(E, (d + 1) - Len(D), (d + e) - Len(D))
        BY <3>1, <2>3, SubSeqOfConcat2, SMTT(30)
      <3>3. SubSeq(DE, d + 1, d + e) = E
        BY <3>1, <3>2, SubSeqFull
      <3> QED
        BY <3>3, <2>1, <2>4 DEF PartOf
    <2>8. c2 \in [0..(m + 1) -> 0..(d + e)] /\ c2[0] = 0 /\ c2[m + 1] = d + e /\ c2[m] = d
          /\ \A k \in 0..m : c2[k] = c[k]
      BY <2>5
    <2> HIDE DEF c2
    <2>9. ASSUME NEW k \in 1..(m + 1)
          PROVE  /\ PartOf(DE, c2[k - 1], c2[k], P2[k].data)
                 /\ P2[k] = [type |-> t, data |-> P2[k].data]
      <3>1. CASE k = m + 1
        <4>1. k - 1 = m /\ c2[k - 1] = d /\ c2[k] = d + e
          BY <3>1, <2>8
        <4>2. P2[k] = [type |-> t, data |-> E] /\ P2[k].data = E
          BY <3>1, <2>2
        <4> QED
          BY <4>1, <4>2, <2>7
      <3>2. CASE k # m + 1
        <4>1. k \in 1..m /\ k - 1 \in 0..m /\ k \in 0..m
          BY <3>2
        <4>2. c2[k] = c[k] /\ c2[k - 1] = c[k - 1] /\ P2[k] = P[k]
          BY <4>1, <2>2, <2>8
        <4> QED
          BY <4>1, <4>2, <2>5, <2>6
      <3> QED
        BY <3>1, <3>2
    <2>10. DepositParts(DE, c2, P2)
      BY <2>2, <2>4, <2>8, <2>9, <1>1 DEF DepositParts
    <2> QED
      BY <2>3, <2>10, <1>1, <1>4, <1>5
  <1> QED
    BY <1>6, <1>7
=============================================================================

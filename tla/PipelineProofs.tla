--------------------------- MODULE PipelineProofs ---------------------------
(***************************************************************************)
(* Proofs about Pipeline, for every block, every MAX_SUBBLOCK_COUNT and    *)
(* every set of deposits: the outputs the host prepares are those of the   *)
(* client programs, and execute_aggregation accepts a valid block.         *)
(***************************************************************************)
EXTENDS Pipeline, SubblockHostProofs

(* What the host does in the pipeline it does on its own. *)
LEMMA PipeRunsHost == PipeSpec => HostSpec
  <1>1. PipeInit => HostInit
    BY DEF PipeInit
  <1>2. [PipeNext]_pipeVars => [HostNext]_<<splitVars, hostVars>>
    BY DEF PipeNext, pipeVars, ExecuteHost, DeriveHeader, ValidateAggregation
  <1> QED
    BY <1>1, <1>2, PTL DEF PipeSpec, HostSpec

-----------------------------------------------------------------------------
(***************************************************************************)
(* Where the loop cut the block: subblock k has the transactions behind    *)
(* c[k - 1] up to c[k].                                                    *)
(***************************************************************************)
CutInput(a, b) ==
  [txs               |-> SubSeq(Body, a + 1, b),
   is_first_subblock |-> a = 0,
   is_last_subblock  |-> b = block.txs,
   starting_gas_used |-> block.gas[a]]

CutAt(k, a, b) ==
  /\ a \in 0..block.txs /\ b \in 0..block.txs /\ a <= b
  /\ a = 0 <=> k = 1
  /\ a < block.txs => a < b
  /\ a # 0 => a < block.txs
  /\ subblock_inputs[k] = CutInput(a, b)

Cuts(c) ==
  /\ c \in [0..subblock_index -> 0..block.txs]
  /\ c[0] = 0
  /\ c[subblock_index] = complete_num_txs
  /\ \A k \in 1..subblock_index : CutAt(k, c[k - 1], c[k])

CutsInv ==
  /\ host_pc \notin {"split", "execute"} => complete_num_txs = block.txs
  /\ \E c : Cuts(c)

\* Nothing is cut when the host starts.
LEMMA CutsInitInv ==
  ASSUME HostInit
  PROVE  CutsInv
  <1> DEFINE c == [k \in 0..0 |-> 0]
  <1>1. block.txs \in Nat
    BY BlocksAssumption DEF HostInit, SplitInit, IsBlock
  <1>2. subblock_index = 0 /\ complete_num_txs = 0 /\ host_pc = "split"
    BY DEF HostInit
  <1>3. c \in [0..0 -> 0..block.txs] /\ c[0] = 0
    BY <1>1
  <1>4. Cuts(c)
    BY <1>2, <1>3 DEF Cuts
  <1> QED
    BY <1>2, <1>4 DEF CutsInv

\* A step that leaves the inputs alone leaves the cuts alone.
LEMMA CutsKept ==
  ASSUME CutsInv,
         UNCHANGED <<block, subblock_index, complete_num_txs, subblock_inputs>>,
         host_pc' \notin {"split", "execute"} => host_pc \notin {"split", "execute"}
  PROVE  CutsInv'
  <1>1. PICK c : Cuts(c)
    BY DEF CutsInv
  <1>2. Body' = Body
    BY DEF Body
  <1>3. Cuts(c)'
    BY <1>1, <1>2 DEF Cuts, CutAt, CutInput
  <1> QED
    BY <1>3 DEF CutsInv

\* A round of the loop makes one more cut.
LEMMA RunSubblockCuts ==
  ASSUME HostInv, CutsInv, RunSubblock
  PROVE  CutsInv'
  <1>1. /\ host_pc = "execute" /\ subblock_index < Len(limits)
        /\ IsBlock(block) /\ complete_num_txs \in 0..block.txs
        /\ limits[subblock_index + 1] \in Nat
        /\ complete_num_txs # 0 => complete_num_txs < block.txs
    BY RoundFacts DEF RunSubblock
  <1>2. PICK upper \in Executed(complete_num_txs, SubblockGasLimit) :
               RunUpTo(upper)
    BY <1>1 DEF RunSubblock
  <1>3. cumulative_gas_used = block.gas[complete_num_txs] /\ cumulative_gas_used \in Nat
        /\ subblock_index \in Nat /\ InLoop
    BY <1>1 DEF HostInv, HostTypeOK
  <1>4. SubblockGasLimit \in Nat
    BY <1>1, <1>3 DEF SubblockGasLimit
  <1>5. /\ upper \in complete_num_txs..block.txs /\ upper \in Nat
        /\ complete_num_txs < block.txs => complete_num_txs < upper
    BY <1>1, <1>2, <1>4, ExecutedFacts
  <1>6. block.txs \in Nat
    BY <1>1 DEF IsBlock
  <1>7. block' = block /\ Body' = Body
    BY DEF RunSubblock, splitVars, Body
  <1>8. /\ complete_num_txs' = upper /\ subblock_index' = subblock_index + 1
        /\ host_pc' \notin {"split", "execute"} => upper = block.txs
        /\ subblock_inputs' = Append(subblock_inputs, InputFor(complete_num_txs, upper))
    BY <1>1, <1>2, <1>5, <1>6 DEF RunUpTo
  <1>9. /\ \A k \in 1..subblock_index : subblock_inputs'[k] = subblock_inputs[k]
        /\ subblock_inputs'[subblock_index + 1] = InputFor(complete_num_txs, upper)
    <2>1. subblock_inputs = [k \in 1..subblock_index |-> subblock_inputs[k]]
      BY DEF HostInv
    <2> QED
      BY <2>1, <1>3, <1>8, AppendAt
  <1>10. PICK c : Cuts(c)
    BY DEF CutsInv
  <1>11. PICK d : d = [k \in 0..(subblock_index + 1) |->
                         IF k = subblock_index + 1 THEN upper ELSE c[k]]
    OBVIOUS
  <1>12. upper \in 0..block.txs
    BY <1>1, <1>5, <1>6
  <1>13. /\ d \in [0..(subblock_index + 1) -> 0..block.txs]
         /\ d[subblock_index + 1] = upper
         /\ \A k \in 0..subblock_index : d[k] = c[k]
    <2>1. ASSUME NEW k \in 0..(subblock_index + 1), k # subblock_index + 1
          PROVE  c[k] \in 0..block.txs
      <3>1. k \in 0..subblock_index
        BY <2>1, <1>3
      <3> QED
        BY <3>1, <1>10 DEF Cuts
    <2> QED
      BY <2>1, <1>3, <1>11, <1>12
  <1>14. d[0] = 0 /\ d[subblock_index] = complete_num_txs
    BY <1>3, <1>10, <1>13 DEF Cuts
  <1>15. ASSUME NEW k \in 1..(subblock_index + 1)
         PROVE  CutAt(k, d[k - 1], d[k])'
    <2>1. CASE k = subblock_index + 1
      <3>1. k - 1 = subblock_index
        BY <2>1, <1>3
      <3>2. d[k - 1] = complete_num_txs /\ d[k] = upper
        BY <3>1, <2>1, <1>13, <1>14
      <3>3. subblock_inputs'[k] = CutInput(complete_num_txs, upper)
        BY <2>1, <1>3, <1>9 DEF InputFor, CutInput
      <3>4. complete_num_txs = 0 <=> k = 1
        BY <2>1, <1>3 DEF InLoop
      <3>5. complete_num_txs <= upper
        BY <1>1, <1>5, <1>6
      <3> QED
        BY <3>2, <3>3, <3>4, <3>5, <1>1, <1>5, <1>7, <1>12 DEF CutAt, CutInput
    <2>2. CASE k # subblock_index + 1
      <3>1. k \in 1..subblock_index /\ k \in 0..subblock_index /\ k - 1 \in 0..subblock_index
        BY <2>2, <1>3
      <3>2. CutAt(k, c[k - 1], c[k]) /\ d[k] = c[k] /\ d[k - 1] = c[k - 1]
        BY <3>1, <1>10, <1>13 DEF Cuts
      <3> QED
        BY <3>1, <3>2, <1>7, <1>9 DEF CutAt, CutInput
    <2> QED
      BY <2>1, <2>2
  <1>16. Cuts(d)'
    BY <1>7, <1>8, <1>13, <1>14, <1>15 DEF Cuts
  <1> QED
    BY <1>7, <1>8, <1>16 DEF CutsInv

\* The cuts are kept by every step of the host.
LEMMA CutsStep ==
  ASSUME HostInv, CutsInv, [HostNext]_<<splitVars, hostVars>>
  PROVE  CutsInv'
  <1>1. CASE UNCHANGED <<splitVars, hostVars>>
    <2>1. /\ UNCHANGED <<block, subblock_index, complete_num_txs, subblock_inputs>>
          /\ host_pc' = host_pc
      BY <1>1 DEF splitVars, hostVars
    <2> QED
      BY <2>1, CutsKept
  <1>2. CASE ComputeGasLimits
    <2>1. UNCHANGED <<block, subblock_index, complete_num_txs, subblock_inputs>>
      BY <1>2, SplitKeepsBlock DEF ComputeGasLimits
    <2>2. HostInv'
      BY <1>2, ComputeGasLimitsInv
    <2>3. host_pc' \in {"split", "execute"}
      BY <1>2, <2>2 DEF ComputeGasLimits, HostInv
    <2> QED
      BY <2>1, <2>3, CutsKept
  <1>3. CASE RunSubblock
    BY <1>3, RunSubblockCuts
  <1>4. CASE VerifyStateRoot
    <2>1. /\ UNCHANGED <<block, subblock_index, complete_num_txs, subblock_inputs>>
          /\ host_pc \notin {"split", "execute"}
      BY <1>4 DEF VerifyStateRoot, splitVars
    <2> QED
      BY <2>1, CutsKept
  <1>5. CASE ComputeRoots
    <2>1. /\ UNCHANGED <<block, subblock_index, complete_num_txs, subblock_inputs>>
          /\ host_pc \notin {"split", "execute"}
      BY <1>5 DEF ComputeRoots, splitVars
    <2> QED
      BY <2>1, CutsKept
  <1> QED
    BY <1>1, <1>2, <1>3, <1>4, <1>5 DEF HostNext

-----------------------------------------------------------------------------
(* The transactions behind a up to b, and their gas. *)
TxsBetween(a, b, txs) ==
  /\ txs \in Seq(Step) /\ Len(txs) = b - a
  /\ \A j \in 1..(b - a) : /\ txs[j] = Body[a + j]
                           /\ txs[j].id = a + j
                           /\ txs[j].gas = block.gas[a + j] - block.gas[(a + j) - 1]

\* The transactions of a cut.
LEMMA CutTxs ==
  ASSUME IsBlock(block), NEW a \in 0..block.txs, NEW b \in 0..block.txs, a <= b,
         NEW txs, txs = SubSeq(Body, a + 1, b)
  PROVE  TxsBetween(a, b, txs)
  <1>1. Body \in Seq(Step) /\ Len(Body) = block.txs /\ block.txs \in Nat
    BY BodySteps
  <1>2. a \in Nat /\ b \in Nat /\ b <= Len(Body) /\ a + 1 \in 1..(Len(Body) + 1) /\ b \in 0..Len(Body)
    BY <1>1
  <1>3. /\ txs \in Seq(Step)
        /\ Len(txs) = (IF a + 1 <= b THEN b - (a + 1) + 1 ELSE 0)
        /\ \A i \in 1..(b - (a + 1) + 1) : txs[i] = Body[(a + 1) + i - 1]
    BY <1>1, <1>2, SubSeqProperties
  <1>4. Len(txs) = b - a
    BY <1>2, <1>3
  <1>5. ASSUME NEW j \in 1..(b - a)
        PROVE  /\ txs[j] = Body[a + j]
               /\ txs[j].id = a + j
               /\ txs[j].gas = block.gas[a + j] - block.gas[(a + j) - 1]
    <2>1. j \in 1..(b - (a + 1) + 1) /\ (a + 1) + j - 1 = a + j /\ a + j \in 1..block.txs
      BY <1>1, <1>2
    <2>2. txs[j] = Body[a + j]
      BY <2>1, <1>3
    <2>3. Body[a + j] = [id |-> a + j, gas |-> block.gas[a + j] - block.gas[(a + j) - 1]]
      BY <2>1 DEF Body
    <2> QED
      BY <2>2, <2>3
  <1> QED
    BY <1>3, <1>4, <1>5 DEF TxsBetween

\* The receipts of the transactions behind a up to b, counted through the block.
CutReceipts(a, b) ==
  [j \in 1..(b - a) |->
     [gas |-> block.gas[a + j] - block.gas[(a + j) - 1], cumulative_gas_used |-> block.gas[a + j]]]

(* The client counts the gas on from the start it is given, and arrives at *)
(* the gas of the whole block.                                             *)
LEMMA ClientReceipts ==
  ASSUME IsBlock(block), NEW a \in 0..block.txs, NEW b \in 0..block.txs, a <= b,
         NEW input, input.txs = SubSeq(Body, a + 1, b), input.starting_gas_used = block.gas[a]
  PROVE  Receipts(input) = CutReceipts(a, b)
  <1> DEFINE N == Len(input.txs)
             At(f, j) == IF j = 0 THEN input.starting_gas_used ELSE f[j - 1] + input.txs[j].gas
             Def(f) == f = [j \in 0..N |-> At(f, j)]
             w == [j \in 0..N |-> block.gas[a + j]]
             used == CHOOSE f : Def(f)
             S == {j \in 0..N : used[j] = block.gas[a + j]}
  <1>1. /\ N = b - a /\ N \in Nat /\ a \in Nat /\ b \in Nat /\ block.txs \in Nat
        /\ \A j \in 1..N : input.txs[j].gas = block.gas[a + j] - block.gas[(a + j) - 1]
    <2>1. block.txs \in Nat
      BY DEF IsBlock
    <2>2. PICK t : t = input.txs
      OBVIOUS
    <2>3. t = SubSeq(Body, a + 1, b)
      BY <2>2
    <2>4. TxsBetween(a, b, t)
      BY <2>3, CutTxs
    <2>5. /\ Len(t) = b - a
          /\ \A j \in 1..(b - a) : t[j].gas = block.gas[a + j] - block.gas[(a + j) - 1]
      BY <2>4 DEF TxsBetween
    <2>6. a \in Nat /\ b \in Nat /\ b - a \in Nat
      BY <2>1
    <2> QED
      BY <2>1, <2>2, <2>5, <2>6
  <1> HIDE DEF N
  <1>2. \A j \in 0..N : a + j \in 0..block.txs /\ block.gas[a + j] \in Nat
    <2>1. ASSUME NEW j \in 0..N
          PROVE  a + j \in 0..block.txs
      BY <1>1
    <2>2. block.gas \in [0..block.txs -> Nat]
      BY DEF IsBlock
    <2> QED
      BY <2>1, <2>2, Zenon
  <1>3. ASSUME NEW j \in 1..N
        PROVE  block.gas[a + (j - 1)] + input.txs[j].gas = block.gas[a + j]
    <2>1. j \in 0..N /\ j - 1 \in 0..N /\ (a + j) - 1 = a + (j - 1)
      BY <1>1
    <2>2. block.gas[a + j] \in Nat /\ block.gas[a + (j - 1)] \in Nat
      BY <2>1, <1>2
    <2>3. input.txs[j].gas = block.gas[a + j] - block.gas[a + (j - 1)]
      BY <2>1, <1>1
    <2>4. PICK u, v \in Nat : u = block.gas[a + j] /\ v = block.gas[a + (j - 1)]
      BY <2>2
    <2>5. input.txs[j].gas = u - v
      BY <2>3, <2>4
    <2>6. v + (u - v) = u
      BY <2>4
    <2> QED
      BY <2>4, <2>5, <2>6
  <1>4. Def(w)
    <2>1. ASSUME NEW j \in 0..N
          PROVE  w[j] = At(w, j)
      <3>1. CASE j = 0
        BY <3>1, <1>1
      <3>2. CASE j # 0
        <4>1. j \in 1..N /\ j - 1 \in 0..N
          BY <3>2, <1>1
        <4>2. w[j - 1] = block.gas[a + (j - 1)] /\ w[j] = block.gas[a + j]
          BY <4>1
        <4> QED
          BY <3>2, <4>1, <4>2, <1>3
      <3> QED
        BY <3>1, <3>2
    <2> QED
      BY <2>1
  <1>5. Def(used)
    BY <1>4, Zenon
  <1>6. Receipts(input) = [j \in 1..N |-> [gas |-> input.txs[j].gas, cumulative_gas_used |-> used[j]]]
    BY Zenon DEF Receipts, N
  <1>7. \A j \in 0..N : used[j] = At(used, j)
    BY <1>5
  <1> HIDE DEF used
  <1>8. 0 \in S
    BY <1>1, <1>7
  <1>9. ASSUME NEW n \in 0..(N - 1), n \in S
        PROVE  n + 1 \in S
    <2>1. n + 1 \in 1..N /\ n + 1 \in 0..N /\ (n + 1) - 1 = n
      BY <1>1
    <2>2. used[n + 1] = used[n] + input.txs[n + 1].gas
      BY <2>1, <1>1, <1>7
    <2>3. block.gas[a + n] + input.txs[n + 1].gas = block.gas[a + (n + 1)]
      BY <2>1, <1>3
    <2> QED
      BY <2>1, <2>2, <2>3, <1>9
  <1> HIDE DEF S
  <1>10. 0..N \subseteq S
    BY <1>1, <1>8, <1>9, InductionUpTo
  <1>11. \A j \in 1..N : used[j] = block.gas[a + j]
    BY <1>1, <1>10 DEF S
  <1> QED
    BY <1>1, <1>6, <1>11 DEF CutReceipts

(* A part of a sequence, known by its elements. *)
PartBehind(s, m, n, t) ==
  m + n <= Len(s) /\ Len(t) = n /\ \A i \in 1..n : s[m + i] = t[i]

\* Such a part is what SubSeq returns.
LEMMA Middle ==
  ASSUME NEW S, NEW s \in Seq(S), NEW m \in Nat, NEW n \in Nat, NEW t \in Seq(S),
         PartBehind(s, m, n, t)
  PROVE  SubSeq(s, m + 1, m + n) = t
  <1>0. m + n <= Len(s) /\ Len(t) = n /\ \A i \in 1..n : s[m + i] = t[i]
    BY DEF PartBehind
  <1>1. PICK x, y \in Int : x = m + 1 /\ y = m + n
    OBVIOUS
  <1>2. PICK k \in Nat : k = Len(s)
    BY LenProperties
  <1>3. x >= 1 /\ y <= k /\ y - x + 1 = n /\ (x <= y => n = y - x + 1) /\ (~(x <= y) => n = 0)
    BY <1>0, <1>1, <1>2
  <1>4. \A i \in x..y : s[i] \in S
    <2>1. \A i \in 1..k : s[i] \in S
      BY <1>2, ElementOfSeq
    <2> QED
      BY <2>1, <1>1, <1>2, <1>3
  <1>5. PICK sub : sub = SubSeq(s, x, y)
    OBVIOUS
  <1>6. /\ sub \in Seq(S)
        /\ Len(sub) = IF x <= y THEN y - x + 1 ELSE 0
        /\ \A i \in 1..(y - x + 1) : sub[i] = s[x + i - 1]
    BY <1>1, <1>4, <1>5, SubSeqProperties
  <1>7. Len(sub) = n /\ \A i \in 1..n : sub[i] = s[x + i - 1]
    BY <1>3, <1>6
  <1>8. ASSUME NEW i \in 1..n
        PROVE  sub[i] = t[i]
    <2>1. x + i - 1 = m + i
      BY <1>1
    <2> QED
      BY <2>1, <1>0, <1>7
  <1>9. sub = t
    BY <1>0, <1>6, <1>7, <1>8, SeqEqual
  <1> QED
    BY <1>1, <1>5, <1>9

(* The steps of a run over txs from a to b, in a block of m transactions. *)
StepsBetween(txs, a, b, m) ==
  (IF a = 0 THEN <<Pre>> ELSE << >>) \o txs \o (IF b = m THEN <<Post>> ELSE << >>)

FoundAgain(steps, txs, a, b, m) ==
  /\ (steps[1] = Pre) <=> a = 0
  /\ (steps[Len(steps)] = Post) <=> b = m
  /\ SubSeq(steps, IF a = 0 THEN 2 ELSE 1, IF b = m THEN Len(steps) - 1 ELSE Len(steps)) = txs

(* The transactions of a run, found again in its steps. *)
LEMMA TxsOfSteps ==
  ASSUME NEW txs \in Seq(Step), \A j \in 1..Len(txs) : txs[j].id > 0,
         NEW a \in Nat, NEW b \in Nat, NEW m \in Nat, Len(txs) = 0 => a = 0 /\ b = m,
         NEW steps, steps = StepsBetween(txs, a, b, m)
  PROVE  FoundAgain(steps, txs, a, b, m)
  <1>0. PICK p, q :
             /\ p = (IF a = 0 THEN <<Pre>> ELSE << >>)
             /\ q = (IF b = m THEN <<Post>> ELSE << >>)
    OBVIOUS
  <1>1. p \in Seq(Step) /\ q \in Seq(Step)
    BY <1>0, PrePostSteps
  <1>2. PICK n \in Nat : n = Len(txs)
    OBVIOUS
  <1>3. /\ Len(p) = (IF a = 0 THEN 1 ELSE 0) /\ (a = 0 => p[1] = Pre)
        /\ Len(q) = (IF b = m THEN 1 ELSE 0) /\ (b = m => q[1] = Post)
    BY <1>0
  <1>4. /\ steps \in Seq(Step) /\ Len(steps) = Len(p) + n + Len(q)
        /\ \A i \in 1..Len(p) : steps[i] = p[i]
        /\ \A i \in 1..n : steps[Len(p) + i] = txs[i]
        /\ \A i \in 1..Len(q) : steps[Len(p) + n + i] = q[i]
    <2>1. steps = (p \o txs) \o q
      BY <1>0 DEF StepsBetween
    <2>2. /\ (p \o txs) \o q \in Seq(Step)
          /\ Len((p \o txs) \o q) = Len(p) + Len(txs) + Len(q)
          /\ \A i \in 1..Len(p) : ((p \o txs) \o q)[i] = p[i]
          /\ \A i \in 1..Len(txs) : ((p \o txs) \o q)[Len(p) + i] = txs[i]
          /\ \A i \in 1..Len(q) : ((p \o txs) \o q)[Len(p) + Len(txs) + i] = q[i]
      BY <1>1, ThreeParts, SMTT(30)
    <2> QED
      BY <2>1, <2>2, <1>2
  <1>5. Pre # Post /\ \A j \in 1..n : txs[j] # Pre /\ txs[j] # Post
    <2>1. Pre.id = 0 /\ Post.id = -1
      BY DEF Pre, Post
    <2> QED
      BY <2>1, <1>2
  <1>6. (steps[1] = Pre) <=> a = 0
    <2>1. CASE a = 0
      <3>1. 1 \in 1..Len(p)
        BY <2>1, <1>3
      <3> QED
        BY <3>1, <2>1, <1>3, <1>4
    <2>2. CASE a # 0
      <3>1. 1 \in 1..n /\ Len(p) = 0 /\ 0 + 1 = 1
        BY <2>2, <1>2, <1>3
      <3>2. steps[0 + 1] = txs[1]
        BY <3>1, <1>4
      <3> QED
        BY <3>1, <3>2, <2>2, <1>5
    <2> QED
      BY <2>1, <2>2
  <1>7. (steps[Len(steps)] = Post) <=> b = m
    <2>1. CASE b = m
      <3>1. 1 \in 1..Len(q) /\ Len(steps) = Len(p) + n + 1
        BY <2>1, <1>3, <1>4
      <3> QED
        BY <3>1, <2>1, <1>3, <1>4
    <2>2. CASE b # m
      <3>1. n \in 1..n /\ Len(steps) = Len(p) + n
        BY <2>2, <1>2, <1>3, <1>4
      <3>2. steps[Len(steps)] = txs[n]
        BY <3>1, <1>4
      <3> QED
        BY <3>1, <3>2, <2>2, <1>5
    <2> QED
      BY <2>1, <2>2
  <1>8. SubSeq(steps, IF a = 0 THEN 2 ELSE 1, IF b = m THEN Len(steps) - 1 ELSE Len(steps)) = txs
    <2>1. PICK k \in Nat : k = Len(p)
      BY <1>3
    <2>2. PICK l \in Nat : l = Len(q)
      BY <1>3
    <2>3. PICK ls \in Nat : ls = Len(steps)
      BY <1>4, LenProperties
    <2>4. ls = k + n + l
      BY <2>1, <2>2, <2>3, <1>4
    <2>5. k + n <= ls
      BY <2>4, <1>2
    <2>6. SubSeq(steps, k + 1, k + n) = txs
      <3>1. PartBehind(steps, k, n, txs)
        BY <2>1, <2>3, <2>5, <1>2, <1>4 DEF PartBehind
      <3> QED
        BY <3>1, <1>4, Middle
    <2>7. k = (IF a = 0 THEN 1 ELSE 0) /\ l = (IF b = m THEN 1 ELSE 0)
      BY <2>1, <2>2, <1>3
    <2>8. k + 1 = (IF a = 0 THEN 2 ELSE 1) /\ k + n = (IF b = m THEN ls - 1 ELSE ls)
      BY <2>4, <2>7, <1>2
    <2> QED
      BY <2>3, <2>6, <2>8
  <1> QED
    BY <1>6, <1>7, <1>8 DEF FoundAgain

-----------------------------------------------------------------------------
(* The requests of the transactions behind a up to b. *)
CutRequests(a, b) ==
  Report(DEPOSIT_REQUEST_TYPE, DepositsOf(SubSeq(Body, a + 1, b)))
    \o (IF b = block.txs THEN Report(WITHDRAWAL_REQUEST_TYPE, Queue) ELSE << >>)

(* What the host's run of a subblock made: its transactions, whether it    *)
(* came to the end, its receipts.                                          *)
LEMMA SubblockRun ==
  ASSUME HostInv, NEW k \in 1..subblock_index, NEW a, NEW b, CutAt(k, a, b)
  PROVE  /\ HostTxs(k) = SubSeq(Body, a + 1, b)
         /\ EndsBlock(k) <=> b = block.txs
         /\ HostReceipts(k, block.gas[a]) = CutReceipts(a, b)
  <1>1. /\ a \in 0..block.txs /\ b \in 0..block.txs /\ a <= b /\ (a < block.txs => a < b)
        /\ (a # 0 => a < block.txs)
        /\ subblock_inputs[k] = CutInput(a, b)
    BY DEF CutAt
  <1>2. IsBlock(block) /\ block.txs \in Nat /\ state_diffs[k] = Steps(subblock_inputs[k])
    BY DEF HostInv, SplitInv, SplitTypeOK, IsBlock
  <1>3. PICK txs : txs = SubSeq(Body, a + 1, b)
    OBVIOUS
  <1>4. TxsBetween(a, b, txs)
    BY <1>1, <1>2, <1>3, CutTxs
  <1>5. /\ txs \in Seq(Step) /\ Len(txs) = b - a
        /\ \A j \in 1..(b - a) : /\ txs[j].id = a + j
                                 /\ txs[j].gas = block.gas[a + j] - block.gas[(a + j) - 1]
    BY <1>4 DEF TxsBetween
  <1>6. PICK steps : steps = state_diffs[k]
    OBVIOUS
  <1>7. steps = StepsBetween(txs, a, b, block.txs)
    <2>1. Steps(CutInput(a, b)) = StepsBetween(SubSeq(Body, a + 1, b), a, b, block.txs)
      BY ClientSteps DEF CutInput, StepsBetween
    <2> QED
      BY <2>1, <1>1, <1>2, <1>3, <1>6
  <1>8. a \in Nat /\ b \in Nat /\ (Len(txs) = 0 => a = 0 /\ b = block.txs)
    BY <1>1, <1>2, <1>5
  <1>9. \A j \in 1..Len(txs) : txs[j].id > 0
    BY <1>5, <1>8
  <1>10. /\ (steps[1] = Pre) <=> a = 0
         /\ (steps[Len(steps)] = Post) <=> b = block.txs
         /\ SubSeq(steps, IF a = 0 THEN 2 ELSE 1,
                          IF b = block.txs THEN Len(steps) - 1 ELSE Len(steps)) = txs
    <2>1. PICK m \in Nat : m = block.txs
      BY <1>2
    <2>2. FoundAgain(steps, txs, a, b, m)
      BY <2>1, <1>5, <1>7, <1>8, <1>9, TxsOfSteps
    <2> QED
      BY <2>1, <2>2 DEF FoundAgain
  <1>11. EndsBlock(k) <=> b = block.txs
    BY <1>6, <1>10 DEF EndsBlock
  <1>12. HostTxs(k) = txs
    BY <1>6, <1>10, <1>11 DEF HostTxs
  <1>13. HostReceipts(k, block.gas[a])
           = [j \in 1..(b - a) |->
                [gas |-> txs[j].gas,
                 cumulative_gas_used |->
                   block.gas[a] + (block.gas[txs[j].id] - block.gas[txs[1].id - 1])]]
    BY <1>5, <1>12 DEF HostReceipts
  <1>14. ASSUME NEW j \in 1..(b - a)
         PROVE  /\ txs[j].gas = block.gas[a + j] - block.gas[(a + j) - 1]
                /\ block.gas[a] + (block.gas[txs[j].id] - block.gas[txs[1].id - 1])
                     = block.gas[a + j]
    <2>1. 1 \in 1..(b - a) /\ (a + 1) - 1 = a /\ a + j \in 0..block.txs
      BY <1>1, <1>2, <1>8
    <2>2. txs[1].id - 1 = a /\ txs[j].id = a + j
      BY <2>1, <1>5
    <2>3. PICK u, v \in Nat : u = block.gas[a] /\ v = block.gas[a + j]
      BY <2>1, <1>1, <1>2, GasIncreases
    <2>4. u + (v - u) = v
      BY <2>3
    <2> QED
      BY <2>2, <2>3, <2>4, <1>5
  <1>15. HostReceipts(k, block.gas[a]) = CutReceipts(a, b)
    BY <1>13, <1>14 DEF CutReceipts
  <1> QED
    BY <1>3, <1>11, <1>12, <1>15

\* The output of a subblock, with its transactions behind a up to b.
CutOutput(k, a, b) ==
  [input_state_root  |-> subblock_roots[k][1],
   output_state_root |-> subblock_roots[k][2],
   logs_bloom        |-> Bloom(SubSeq(Body, a + 1, b)),
   receipts          |-> CutReceipts(a, b),
   requests          |-> CutRequests(a, b)]

\* The output the host prepared.
LEMMA HostOutputIs ==
  ASSUME HostInv, NEW k \in 1..subblock_index, NEW a, NEW b, CutAt(k, a, b)
  PROVE  HostOutput(k) = CutOutput(k, a, b)
  <1>1. /\ HostTxs(k) = SubSeq(Body, a + 1, b)
        /\ EndsBlock(k) <=> b = block.txs
        /\ HostReceipts(k, block.gas[a]) = CutReceipts(a, b)
    BY SubblockRun
  <1>2. subblock_inputs[k].starting_gas_used = block.gas[a]
    BY DEF CutAt, CutInput
  <1>3. RequestsOf(HostTxs(k), EndsBlock(k)) = CutRequests(a, b)
    BY <1>1, Zenon DEF RequestsOf, CutRequests
  <1>4. Bloom(HostTxs(k)) = Bloom(SubSeq(Body, a + 1, b))
    BY <1>1
  <1>5. HostReceipts(k, subblock_inputs[k].starting_gas_used) = CutReceipts(a, b)
    BY <1>1, <1>2
  <1> QED
    BY <1>3, <1>4, <1>5, Zenon DEF HostOutput, HostOutputFrom, CutOutput

\* The output of the client program.
LEMMA ClientOutputIs ==
  ASSUME HostInv, RootsInv, host_pc = "done",
         NEW k \in 1..subblock_index, NEW a, NEW b, CutAt(k, a, b)
  PROVE  ClientOutput(k) = CutOutput(k, a, b)
  <1> DEFINE input == HostInput(k)
  <1>1. /\ a \in 0..block.txs /\ b \in 0..block.txs /\ a <= b
        /\ subblock_inputs[k] = CutInput(a, b)
    BY DEF CutAt
  <1>2. IsBlock(block) /\ block.txs \in Nat /\ state_diffs[k] = Steps(subblock_inputs[k])
    BY DEF HostInv, SplitInv, SplitTypeOK, IsBlock
  <1>3. /\ input.txs = SubSeq(Body, a + 1, b)
        /\ input.is_first_subblock = (a = 0)
        /\ input.is_last_subblock = (b = block.txs)
        /\ input.starting_gas_used = block.gas[a]
    BY <1>1 DEF HostInput, CutInput
  <1>4. Steps(input) = state_diffs[k]
    <2>1. Steps(input) = Steps(CutInput(a, b))
      BY <1>3, ClientSteps DEF CutInput
    <2> QED
      BY <2>1, <1>1, <1>2
  <1>5. subblock_roots[k][2] = subblock_roots[k][1] \o state_diffs[k]
    <2>1. PICK st : RootsChain(st)
      BY DEF RootsInv
    <2>2. Len(subblock_roots) = subblock_index /\ subblock_index \in Nat
      BY DEF RootsInv, HostInv, HostTypeOK
    <2>3. subblock_roots[k] = <<st[k - 1], st[k]>> /\ st[k] = st[k - 1] \o state_diffs[k]
      BY <2>1, <2>2 DEF RootsChain
    <2>4. PICK x, y : x = st[k - 1] /\ y = st[k]
      OBVIOUS
    <2>5. subblock_roots[k] = <<x, y>> /\ y = x \o state_diffs[k]
      BY <2>3, <2>4
    <2> QED
      BY <2>5
  <1> HIDE DEF input
  <1>6. Receipts(input) = CutReceipts(a, b)
    BY <1>1, <1>2, <1>3, ClientReceipts
  <1>7. RequestsOf(input.txs, input.is_last_subblock) = CutRequests(a, b)
    BY <1>3, Zenon DEF RequestsOf, CutRequests
  <1>8. Bloom(input.txs) = Bloom(SubSeq(Body, a + 1, b))
    BY <1>3
  <1>9. ClientOutput(k) = ExecuteSubblock(input, subblock_roots[k][1],
                                          RequestsOf(input.txs, input.is_last_subblock))
    BY Zenon DEF ClientOutput, input
  <1> QED
    BY <1>4, <1>5, <1>6, <1>7, <1>8, <1>9, Zenon DEF ExecuteSubblock, CutOutput

-----------------------------------------------------------------------------
(* The host is done before its header is derived. *)
Staged == stage # "host" => host_pc = "done"

HostSide == HostInv /\ RootsInv /\ CutsInv /\ Staged

\* A step of the pipeline keeps what the host knows.
LEMMA HostSideStep ==
  ASSUME HostSide, [PipeNext]_pipeVars
  PROVE  HostSide'
  <1>1. [HostNext]_<<splitVars, hostVars>>
    BY DEF PipeNext, pipeVars, ExecuteHost, DeriveHeader, ValidateAggregation
  <1>2. HostInv' /\ RootsInv' /\ CutsInv'
    BY <1>1, HostStep, CutsStep DEF HostSide
  <1>3. Staged'
    <2>1. CASE ExecuteHost
      BY <2>1 DEF ExecuteHost, Staged
    <2>2. CASE DeriveHeader
      BY <2>2 DEF DeriveHeader, Staged, HostSide, hostVars
    <2>3. CASE ValidateAggregation
      BY <2>3 DEF ValidateAggregation, Staged, HostSide, hostVars
    <2>4. CASE UNCHANGED pipeVars
      BY <2>4 DEF pipeVars, Staged, HostSide, hostVars
    <2> QED
      BY <2>1, <2>2, <2>3, <2>4 DEF PipeNext
  <1> QED
    BY <1>2, <1>3 DEF HostSide

\* And knows it at the start.
LEMMA HostSideInit ==
  ASSUME PipeInit
  PROVE  HostSide
  BY HostInitInv, RootsInitInv, CutsInitInv DEF PipeInit, HostSide, Staged

(***************************************************************************)
(* Each client program commits exactly the output the host prepared for    *)
(* its subblock: the check of SubblockHostOutput::validate, which the host *)
(* leaves out, would pass for every block and every split.                 *)
(***************************************************************************)
THEOREM PipeOutputsValid == PipeSpec => []HostOutputsValid
  <1>1. HostSide => HostOutputsValid
    <2> SUFFICES ASSUME HostSide, stage # "host", NEW i \in DOMAIN subblock_inputs
                 PROVE  HostOutput(i) = ClientOutput(i)
      BY DEF HostOutputsValid
    <2>1. HostInv /\ RootsInv /\ CutsInv /\ host_pc = "done" /\ subblock_index \in Nat
      BY DEF HostSide, Staged, HostInv, HostTypeOK
    <2>2. i \in 1..subblock_index
      BY DEF HostSide, HostInv
    <2>3. PICK c : Cuts(c)
      BY <2>1 DEF CutsInv
    <2>4. CutAt(i, c[i - 1], c[i])
      BY <2>2, <2>3 DEF Cuts
    <2>5. PICK a, b : a = c[i - 1] /\ b = c[i]
      OBVIOUS
    <2>6. CutAt(i, a, b)
      BY <2>4, <2>5
    <2> QED
      BY <2>1, <2>2, <2>6, HostOutputIs, ClientOutputIs
  <1> QED
    BY <1>1, HostSideInit, HostSideStep, PTL DEF PipeSpec

-----------------------------------------------------------------------------
(***************************************************************************)
(* How the parts of two neighbouring subblocks join.                       *)
(***************************************************************************)
\* The bloom of a cut holds its transactions.
LEMMA CutBloom ==
  ASSUME IsBlock(block), NEW a \in 0..block.txs, NEW b \in 0..block.txs, a <= b
  PROVE  Bloom(SubSeq(Body, a + 1, b)) = (a + 1)..b
  <1>1. block.txs \in Nat
    BY DEF IsBlock
  <1>2. PICK txs : txs = SubSeq(Body, a + 1, b)
    OBVIOUS
  <1>3. TxsBetween(a, b, txs)
    BY <1>2, CutTxs
  <1>4. DOMAIN txs = 1..(b - a) /\ \A j \in 1..(b - a) : txs[j].id = a + j
    BY <1>3 DEF TxsBetween
  <1>5. Bloom(txs) = {a + j : j \in 1..(b - a)}
    BY <1>4 DEF Bloom
  <1>6. {a + j : j \in 1..(b - a)} = (a + 1)..b
    <2>1. \A x \in (a + 1)..b : x - a \in 1..(b - a) /\ x = a + (x - a)
      BY <1>1
    <2>2. \A j \in 1..(b - a) : a + j \in (a + 1)..b
      BY <1>1
    <2> QED
      BY <2>1, <2>2
  <1> QED
    BY <1>2, <1>5, <1>6

\* Transactions join to transactions.
LEMMA JoinTxs ==
  ASSUME IsBlock(block), NEW a \in 0..block.txs, NEW b \in 0..block.txs, a <= b
  PROVE  SubSeq(Body, 1, a) \o SubSeq(Body, a + 1, b) = SubSeq(Body, 1, b)
  <1>1. Body \in Seq(Step) /\ Len(Body) = block.txs /\ block.txs \in Nat
    BY BodySteps
  <1>2. 1 \in 1..(Len(Body) + 1) /\ a \in (1 - 1)..Len(Body) /\ b \in a..Len(Body)
    BY <1>1
  <1> QED
    BY <1>1, <1>2, ConcatAdjacentSubSeq

\* Receipts join to receipts, although each subblock counted on its own.
LEMMA JoinReceipts ==
  ASSUME IsBlock(block), NEW a \in 0..block.txs, NEW b \in 0..block.txs, a <= b
  PROVE  CutReceipts(0, a) \o CutReceipts(a, b) = CutReceipts(0, b)
  <1>1. PICK R : R = {[gas |-> block.gas[i] - block.gas[i - 1], cumulative_gas_used |-> block.gas[i]] :
                        i \in 1..block.txs}
    OBVIOUS
  <1>2. block.txs \in Nat /\ a \in Nat /\ b \in Nat
    BY DEF IsBlock
  <1>3. ASSUME NEW u \in Nat, NEW v \in Nat, u <= v, v <= block.txs, NEW s, s = CutReceipts(u, v)
        PROVE  /\ s \in Seq(R) /\ Len(s) = v - u
               /\ \A j \in 1..(v - u) :
                    s[j] = [gas |-> block.gas[u + j] - block.gas[(u + j) - 1],
                            cumulative_gas_used |-> block.gas[u + j]]
    <2>1. \A j \in 1..(v - u) : u + j \in 1..block.txs
      BY <1>2, <1>3
    <2>2. s \in [1..(v - u) -> R]
      BY <2>1, <1>1, <1>3 DEF CutReceipts
    <2>3. PICK n \in Nat : n = v - u
      BY <1>3
    <2>4. s \in [1..n -> R]
      BY <2>2, <2>3
    <2>5. s \in Seq(R) /\ Len(s) = n
      BY <2>4
    <2>6. \A j \in 1..(v - u) : s[j] = [gas |-> block.gas[u + j] - block.gas[(u + j) - 1],
                                      cumulative_gas_used |-> block.gas[u + j]]
      BY <1>3 DEF CutReceipts
    <2> QED
      BY <2>3, <2>5, <2>6
  <1>4. PICK p, q, r : p = CutReceipts(0, a) /\ q = CutReceipts(a, b) /\ r = CutReceipts(0, b)
    OBVIOUS
  <1>5. /\ p \in Seq(R) /\ Len(p) = a
        /\ \A j \in 1..a : p[j] = [gas |-> block.gas[j] - block.gas[j - 1],
                                   cumulative_gas_used |-> block.gas[j]]
    <2>1. 0 \in Nat /\ 0 <= a /\ a <= block.txs /\ a - 0 = a
      BY <1>2
    <2>2. /\ p \in Seq(R) /\ Len(p) = a - 0
          /\ \A j \in 1..(a - 0) :
               p[j] = [gas |-> block.gas[0 + j] - block.gas[(0 + j) - 1],
                       cumulative_gas_used |-> block.gas[0 + j]]
      <3>1. PICK z : z = 0
        OBVIOUS
      <3>2. z \in Nat /\ z <= a /\ a <= block.txs /\ a \in Nat
        BY <2>1, <3>1, <1>2
      <3>3. p = CutReceipts(z, a)
        BY <1>4, <3>1, Zenon
      <3>4. /\ p \in Seq(R) /\ Len(p) = a - z
            /\ \A j \in 1..(a - z) :
                 p[j] = [gas |-> block.gas[z + j] - block.gas[(z + j) - 1],
                         cumulative_gas_used |-> block.gas[z + j]]
        BY <3>2, <3>3, <1>3, Zenon
      <3> QED
        BY <3>1, <3>4, Zenon
    <2>3. \A j \in 1..a : 0 + j = j
      BY <1>2
    <2> QED
      BY <2>1, <2>2, <2>3
  <1>6. /\ r \in Seq(R) /\ Len(r) = b
        /\ \A j \in 1..b : r[j] = [gas |-> block.gas[j] - block.gas[j - 1],
                                   cumulative_gas_used |-> block.gas[j]]
    <2>1. 0 \in Nat /\ 0 <= b /\ b <= block.txs /\ b - 0 = b
      BY <1>2
    <2>2. /\ r \in Seq(R) /\ Len(r) = b - 0
          /\ \A j \in 1..(b - 0) :
               r[j] = [gas |-> block.gas[0 + j] - block.gas[(0 + j) - 1],
                       cumulative_gas_used |-> block.gas[0 + j]]
      <3>1. PICK z : z = 0
        OBVIOUS
      <3>2. z \in Nat /\ z <= b /\ b <= block.txs /\ b \in Nat
        BY <2>1, <3>1, <1>2
      <3>3. r = CutReceipts(z, b)
        BY <1>4, <3>1, Zenon
      <3>4. /\ r \in Seq(R) /\ Len(r) = b - z
            /\ \A j \in 1..(b - z) :
                 r[j] = [gas |-> block.gas[z + j] - block.gas[(z + j) - 1],
                         cumulative_gas_used |-> block.gas[z + j]]
        BY <3>2, <3>3, <1>3, Zenon
      <3> QED
        BY <3>1, <3>4, Zenon
    <2>3. \A j \in 1..b : 0 + j = j
      BY <1>2
    <2> QED
      BY <2>1, <2>2, <2>3
  <1>7. /\ q \in Seq(R) /\ Len(q) = b - a
        /\ \A j \in 1..(b - a) :
             q[j] = [gas |-> block.gas[a + j] - block.gas[(a + j) - 1],
                     cumulative_gas_used |-> block.gas[a + j]]
    <2>1. b <= block.txs
      BY <1>2
    <2> QED
      BY <2>1, <1>2, <1>3, <1>4, ZenonT(60)
  <1>8. /\ p \o q \in Seq(R) /\ Len(p \o q) = b
        /\ \A j \in 1..a : (p \o q)[j] = p[j]
        /\ \A j \in (a + 1)..b : (p \o q)[j] = q[j - a]
    <2>1. a + (b - a) = b
      BY <1>2
    <2>2. p \o q \in Seq(R)
      BY <1>5, <1>7, ConcatProperties
    <2>3. /\ Len(p \o q) = Len(p) + Len(q)
          /\ \A j \in 1..Len(p) : (p \o q)[j] = p[j]
          /\ \A j \in (Len(p) + 1)..(Len(p) + Len(q)) : (p \o q)[j] = q[j - Len(p)]
      <3>1. p \in Seq(R) /\ q \in Seq(R)
        BY <1>5, <1>7
      <3> QED
        BY <3>1, ConcatAt
    <2>4. Len(p) = a /\ Len(q) = b - a
      BY <1>5, <1>7
    <2> QED
      BY <2>1, <2>2, <2>3, <2>4
  <1>9. ASSUME NEW j \in 1..b
        PROVE  (p \o q)[j] = r[j]
    <2>1. CASE j <= a
      <3>1. j \in 1..a
        BY <2>1, <1>2
      <3> QED
        BY <3>1, <1>5, <1>6, <1>8
    <2>2. CASE ~(j <= a)
      <3>1. j \in (a + 1)..b /\ j - a \in 1..(b - a) /\ a + (j - a) = j
        BY <2>2, <1>2
      <3> QED
        BY <3>1, <1>6, <1>7, <1>8, SMTT(30)
    <2> QED
      BY <2>1, <2>2
  <1>10. p \o q = r
    BY <1>6, <1>8, <1>9, SeqEqual
  <1> QED
    BY <1>4, <1>10

(* The last receipt has the gas of all transactions before it. *)
LEMMA LastReceipt ==
  ASSUME IsBlock(block), NEW a \in 0..block.txs, NEW r, r = CutReceipts(0, a)
  PROVE  (IF r = << >> THEN 0 ELSE r[Len(r)].cumulative_gas_used) = block.gas[a]
  <1>1. block.txs \in Nat /\ a \in Nat /\ block.gas[0] = 0 /\ a - 0 = a /\ 0 + a = a
    BY DEF IsBlock
  <1>2. r = [j \in 1..a |-> [gas |-> block.gas[0 + j] - block.gas[(0 + j) - 1],
                              cumulative_gas_used |-> block.gas[0 + j]]]
    BY <1>1 DEF CutReceipts
  <1>3. CASE a = 0
    <2>1. r = << >>
      BY <1>2, <1>3
    <2> QED
      BY <2>1, <1>1, <1>3
  <1>4. CASE a # 0
    <2>1. a \in 1..a /\ DOMAIN r = 1..a /\ 1 \in DOMAIN r
      BY <1>1, <1>2, <1>4
    <2>2. r # << >>
      BY <2>1
    <2>3. Len(r) = a
      BY <1>1, <1>2
    <2>4. r[a] = [gas |-> block.gas[0 + a] - block.gas[(0 + a) - 1],
                  cumulative_gas_used |-> block.gas[0 + a]]
      BY <2>1, <1>2
    <2> QED
      BY <2>2, <2>3, <2>4, <1>1
  <1> QED
    BY <1>3, <1>4

-----------------------------------------------------------------------------
(***************************************************************************)
(* The deposits found in the receipts of transactions, one after the other.*)
(***************************************************************************)
Found(txs, g) ==
  /\ g = [n \in 0..Len(txs) |->
            IF n = 0
              THEN << >>
              ELSE IF txs[n].id \in Depositors THEN Append(g[n - 1], txs[n].id)
                   ELSE g[n - 1]]
  /\ DepositsOf(txs) = g[Len(txs)]

\* The search for deposits is a function of how far it is.
LEMMA DepositsFound ==
  ASSUME NEW txs, Len(txs) \in Nat
  PROVE  \E g : Found(txs, g)
  <1> DEFINE N == Len(txs)
             At(f, n) == IF n = 0
                           THEN << >>
                           ELSE IF txs[n].id \in Depositors THEN Append(f[n - 1], txs[n].id)
                                ELSE f[n - 1]
             Def(f, m) == f = [n \in 0..m |-> At(f, n)]
             S == {m \in 0..N : \E f : Def(f, m)}
             g == CHOOSE f : Def(f, N)
  <1>1. 0 \in S
    <2> DEFINE f == [n \in 0..0 |-> << >>]
    <2>1. Def(f, 0)
      OBVIOUS
    <2>2. \E x : Def(x, 0)
      BY <2>1, Zenon
    <2> HIDE DEF Def
    <2> QED
      BY <2>2
  <1>2. ASSUME NEW m \in 0..(N - 1), m \in S
        PROVE  m + 1 \in S
    <2>1. PICK f : Def(f, m)
      BY <1>2
    <2> DEFINE h == [n \in 0..(m + 1) |-> IF n = m + 1 THEN At(f, n) ELSE f[n]]
    <2>2. ASSUME NEW n \in 0..(m + 1)
          PROVE  h[n] = At(h, n)
      <3>1. CASE n = m + 1
        <4>1. n - 1 \in 0..(m + 1) /\ n - 1 # m + 1 /\ h[n - 1] = f[n - 1]
          BY <3>1
        <4> QED
          BY <3>1, <4>1
      <3>2. CASE n # m + 1
        <4>1. n \in 0..m /\ h[n] = f[n]
          BY <3>2
        <4>2. f[n] = At(f, n)
          BY <4>1, <2>1
        <4>3. n # 0 => n - 1 \in 0..(m + 1) /\ n - 1 # m + 1 /\ h[n - 1] = f[n - 1]
          BY <4>1
        <4> QED
          BY <4>1, <4>2, <4>3
      <3> QED
        BY <3>1, <3>2
    <2>3. Def(h, m + 1)
      <3>1. h = [n \in 0..(m + 1) |-> h[n]]
        OBVIOUS
      <3> HIDE DEF h, At
      <3> QED
        BY <3>1, <2>2
    <2>4. \E x : Def(x, m + 1)
      BY <2>3, Zenon
    <2> HIDE DEF Def
    <2> QED
      BY <2>4
  <1> HIDE DEF S
  <1>3. 0..N \subseteq S
    BY <1>1, <1>2, InductionUpTo
  <1>4. \E f : Def(f, N)
    BY <1>3 DEF S
  <1>5. Def(g, N)
    BY <1>4, Zenon
  <1>6. DepositsOf(txs) = g[N]
    BY Zenon DEF DepositsOf
  <1>7. Found(txs, g)
    BY <1>5, <1>6, Zenon DEF Found
  <1> HIDE DEF g
  <1> QED
    BY <1>7

\* One round of the search.
LEMMA FoundAt ==
  ASSUME NEW txs \in Seq(Step), NEW g, Found(txs, g)
  PROVE  /\ g[0] = << >>
         /\ \A n \in 1..Len(txs) : /\ txs[n].id \in Depositors => g[n] = Append(g[n - 1], txs[n].id)
                                   /\ txs[n].id \notin Depositors => g[n] = g[n - 1]
  <1>1. \A n \in 0..Len(txs) : g[n] = IF n = 0
                                        THEN << >>
                                        ELSE IF txs[n].id \in Depositors
                                               THEN Append(g[n - 1], txs[n].id)
                                               ELSE g[n - 1]
    BY DEF Found
  <1>2. Len(txs) \in Nat /\ 0 \in 0..Len(txs) /\ \A n \in 1..Len(txs) : n \in 0..Len(txs) /\ n # 0
    <2>1. Len(txs) \in Nat
      BY LenProperties
    <2> QED
      BY <2>1
  <1>3. g[0] = << >>
    BY <1>1, <1>2
  <1>4. ASSUME NEW n \in 1..Len(txs)
        PROVE  /\ txs[n].id \in Depositors => g[n] = Append(g[n - 1], txs[n].id)
               /\ txs[n].id \notin Depositors => g[n] = g[n - 1]
    BY <1>1, <1>2
  <1> QED
    BY <1>3, <1>4

\* The deposits are numbers.
LEMMA FoundType ==
  ASSUME NEW txs \in Seq(Step), NEW g, Found(txs, g)
  PROVE  /\ \A n \in 0..Len(txs) : g[n] \in Seq(Int)
         /\ DepositsOf(txs) \in Seq(Int)
  <1> DEFINE N == Len(txs)
             S == {n \in 0..N : g[n] \in Seq(Int)}
  <1>1. N \in Nat /\ DepositsOf(txs) = g[N]
    BY LenProperties DEF Found
  <1>2. 0 \in S
    <2>1. g[0] = << >>
      BY FoundAt
    <2>2. << >> \in Seq(Int) /\ 0 \in 0..N
      BY <1>1
    <2> QED
      BY <2>1, <2>2
  <1>3. ASSUME NEW n \in 0..(N - 1), n \in S
        PROVE  n + 1 \in S
    <2>1. n + 1 \in 1..N /\ n + 1 \in 0..N /\ (n + 1) - 1 = n
      BY <1>1
    <2>2. txs[n + 1] \in Step
      BY <2>1, ElementOfSeq
    <2>3. PICK e \in Int : e = txs[n + 1].id
      BY <2>2 DEF Step
    <2>4. g[n + 1] = Append(g[n], e) \/ g[n + 1] = g[n]
      BY <2>1, <2>3, FoundAt
    <2>5. PICK q \in Seq(Int) : q = g[n]
      BY <1>3
    <2>6. Append(q, e) \in Seq(Int)
      BY AppendProperties
    <2>7. g[n + 1] \in Seq(Int)
      BY <2>4, <2>5, <2>6
    <2> QED
      BY <2>1, <2>7
  <1> HIDE DEF S
  <1>4. 0..N \subseteq S
    BY <1>1, <1>2, <1>3, InductionUpTo
  <1>5. \A n \in 0..N : g[n] \in Seq(Int)
    BY <1>4 DEF S
  <1>6. N \in 0..N
    BY <1>1
  <1> QED
    BY <1>1, <1>5, <1>6

AppendGoesThrough(u, v, e) == Append(u \o v, e) = u \o Append(v, e)

\* Appending to the second of two sequences.
LEMMA AppendToConcat ==
  ASSUME NEW S, NEW u \in Seq(S), NEW v \in Seq(S), NEW e \in S
  PROVE  AppendGoesThrough(u, v, e)
  <1>1. <<e>> \in Seq(S)
    OBVIOUS
  <1>2. u \o v \in Seq(S)
    BY ConcatProperties
  <1>3. \A s \in Seq(S) : Append(s, e) = s \o <<e>>
    BY AppendIsConcat
  <1>4. (u \o v) \o <<e>> = u \o (v \o <<e>>)
    BY <1>1, ConcatAssociative
  <1> QED
    BY <1>2, <1>3, <1>4 DEF AppendGoesThrough

(* The deposits of a subblock follow those of the subblocks before it. *)
LEMMA CutDeposits ==
  ASSUME IsBlock(block), NEW g, Found(Body, g),
         NEW a \in 0..block.txs, NEW b \in 0..block.txs, a <= b
  PROVE  /\ g[a] \in Seq(Int) /\ g[b] \in Seq(Int)
         /\ DepositsOf(SubSeq(Body, a + 1, b)) \in Seq(Int)
         /\ g[b] = g[a] \o DepositsOf(SubSeq(Body, a + 1, b))
  <1>1. Body \in Seq(Step) /\ Len(Body) = block.txs /\ block.txs \in Nat
    BY BodySteps
  <1>2. PICK txs : txs = SubSeq(Body, a + 1, b)
    OBVIOUS
  <1>3. TxsBetween(a, b, txs)
    BY <1>2, CutTxs
  <1>4. txs \in Seq(Step) /\ Len(txs) = b - a /\ \A j \in 1..(b - a) : txs[j] = Body[a + j]
    BY <1>3 DEF TxsBetween
  <1>5. PICK N \in Nat : N = b - a
    BY <1>1
  <1>6. Len(txs) = N /\ Len(txs) \in Nat
    BY <1>4, <1>5
  <1>7. PICK h : Found(txs, h)
    BY <1>6, DepositsFound
  <1>8. DepositsOf(txs) = h[N] /\ DepositsOf(txs) \in Seq(Int) /\ \A n \in 0..N : h[n] \in Seq(Int)
    <2>1. DepositsOf(txs) = h[N]
      BY <1>6, <1>7 DEF Found
    <2> QED
      BY <2>1, <1>4, <1>6, <1>7, FoundType
  <1>9. \A n \in 0..block.txs : g[n] \in Seq(Int)
    BY <1>1, FoundType
  <1> DEFINE S == {n \in 0..N : g[a + n] = g[a] \o h[n]}
  <1>10. 0 \in S
    <2>1. h[0] = << >>
      BY <1>4, <1>7, FoundAt
    <2>2. g[a] \o << >> = g[a]
      BY <1>9, ConcatEmptySeq
    <2>3. a + 0 = a /\ 0 \in 0..N
      BY <1>1
    <2>4. g[a + 0] = g[a] \o h[0]
      BY <2>1, <2>2, <2>3
    <2> QED
      BY <2>3, <2>4
  <1>11. ASSUME NEW n \in 0..(N - 1), n \in S
         PROVE  n + 1 \in S
    <2>1. /\ n + 1 \in 1..N /\ n + 1 \in 0..N /\ (n + 1) - 1 = n /\ n \in 0..N
          /\ a + (n + 1) \in 1..block.txs /\ (a + (n + 1)) - 1 = a + n
      BY <1>1, <1>5
    <2>2. txs[n + 1] = Body[a + (n + 1)] /\ txs[n + 1] \in Step
      <3>1. n + 1 \in 1..(b - a)
        BY <2>1, <1>5
      <3>2. txs[n + 1] = Body[a + (n + 1)]
        BY <3>1, <1>4
      <3>3. \A j \in 1..Len(txs) : txs[j] \in Step
        BY <1>4, ElementOfSeq
      <3> QED
        BY <3>2, <3>3, <2>1, <1>6
    <2>3. PICK e \in Int : e = txs[n + 1].id /\ e = Body[a + (n + 1)].id
      BY <2>2 DEF Step
    <2>4. /\ e \in Depositors => h[n + 1] = Append(h[n], e)
          /\ e \notin Depositors => h[n + 1] = h[n]
      BY <2>1, <2>3, <1>4, <1>6, <1>7, FoundAt, SMTT(30)
    <2>5. /\ e \in Depositors => g[a + (n + 1)] = Append(g[a + n], e)
          /\ e \notin Depositors => g[a + (n + 1)] = g[a + n]
      <3>1. PICK k \in 1..Len(Body) : k = a + (n + 1)
        BY <2>1, <1>1
      <3>2. /\ Body[k].id \in Depositors => g[k] = Append(g[k - 1], Body[k].id)
            /\ Body[k].id \notin Depositors => g[k] = g[k - 1]
        BY <1>1, FoundAt
      <3> QED
        BY <3>1, <3>2, <2>1, <2>3
    <2>6. PICK u, v \in Seq(Int) : u = g[a] /\ v = h[n]
      BY <2>1, <1>8, <1>9
    <2>7. g[a + n] = u \o v
      BY <2>6, <1>11
    <2>8. Append(u \o v, e) = u \o Append(v, e)
      <3>1. AppendGoesThrough(u, v, e)
        BY AppendToConcat
      <3> QED
        BY <3>1 DEF AppendGoesThrough
    <2>9. g[a + (n + 1)] = g[a] \o h[n + 1]
      BY <2>4, <2>5, <2>6, <2>7, <2>8
    <2> QED
      BY <2>1, <2>9
  <1> HIDE DEF S
  <1>12. 0..N \subseteq S
    BY <1>10, <1>11, InductionUpTo
  <1>13. g[a + N] = g[a] \o h[N]
    <2>1. N \in S
      BY <1>12
    <2> QED
      BY <2>1 DEF S
  <1>14. a + N = b
    BY <1>1, <1>5
  <1> QED
    BY <1>2, <1>8, <1>9, <1>13, <1>14

(* A transaction has one deposit, so no two deposits are alike. *)
LEMMA DepositsDistinct ==
  ASSUME IsBlock(block), NEW g, Found(Body, g)
  PROVE  Distinct(DepositsOf(Body))
  <1>1. Body \in Seq(Step) /\ Len(Body) = block.txs /\ block.txs \in Nat
    BY BodySteps
  <1>2. \A n \in 0..block.txs : g[n] \in Seq(Int)
    BY <1>1, FoundType
  <1> DEFINE Below(s, n) == \A i \in 1..Len(s) : s[i] <= n
             S == {n \in 0..block.txs : Distinct(g[n]) /\ Below(g[n], n)}
  <1>3. 0 \in S
    <2>1. g[0] = << >>
      BY <1>1, FoundAt
    <2>2. Distinct(<< >>) /\ Below(<< >>, 0)
      BY DEF Distinct
    <2> QED
      BY <2>1, <2>2, <1>1
  <1>4. ASSUME NEW n \in 0..(block.txs - 1), n \in S
        PROVE  n + 1 \in S
    <2>1. n + 1 \in 1..block.txs /\ n \in 0..block.txs /\ n + 1 \in 0..block.txs /\ (n + 1) - 1 = n
      BY <1>1
    <2>2. Body[n + 1].id = n + 1
      BY <2>1 DEF Body
    <2>3. PICK q \in Seq(Int) : q = g[n]
      BY <2>1, <1>2
    <2>4. Distinct(q) /\ Below(q, n)
      BY <2>3, <1>4
    <2>5. g[n + 1] = Append(q, n + 1) \/ g[n + 1] = q
      BY <2>1, <2>2, <2>3, <1>1, FoundAt
    <2>6. CASE g[n + 1] = q
      <3>1. Below(q, n + 1)
        <4>1. ASSUME NEW i \in 1..Len(q) PROVE q[i] <= n + 1
          <5>1. q[i] \in Int /\ q[i] <= n
            BY <2>4, <2>3, ElementOfSeq
          <5> QED
            BY <5>1, <2>1
        <4> QED
          BY <4>1
      <3> QED
        BY <3>1, <2>1, <2>4, <2>6
    <2>7. CASE g[n + 1] = Append(q, n + 1)
      <3>0. PICK e \in Int : e = n + 1
        BY <2>1
      <3>1. PICK r \in Seq(Int) : r = Append(q, n + 1)
        BY <3>0, AppendProperties
      <3>2. PICK k \in Nat : k = Len(q)
        BY LenProperties
      <3>3. /\ Len(r) = k + 1 /\ r[k + 1] = n + 1
            /\ \A i \in 1..k : r[i] = q[i] /\ q[i] \in Int /\ q[i] <= n
        <4>1. /\ Len(r) = Len(q) + 1 /\ r[Len(q) + 1] = n + 1
              /\ \A i \in 1..Len(q) : r[i] = q[i]
          BY <3>1, <2>1, AppendProperties
        <4>2. \A i \in 1..Len(q) : q[i] \in Int
          BY <2>3, ElementOfSeq
        <4> QED
          BY <4>1, <4>2, <3>2, <2>4
      <3>4. \A i, j \in 1..k : q[i] = q[j] => i = j
        BY <2>4, <3>2 DEF Distinct
      <3>5. ASSUME NEW i \in 1..(k + 1), NEW j \in 1..(k + 1), r[i] = r[j]
            PROVE  i = j
        <4>1. i \in 1..k \/ i = k + 1
          OBVIOUS
        <4>2. j \in 1..k \/ j = k + 1
          OBVIOUS
        <4>3. CASE i \in 1..k /\ j \in 1..k
          BY <4>3, <3>3, <3>4, <3>5
        <4>4. CASE i = k + 1 /\ j \in 1..k
          BY <4>4, <3>3, <3>5, <2>1
        <4>5. CASE i \in 1..k /\ j = k + 1
          <5>1. r[j] = n + 1 /\ r[i] <= n /\ r[i] \in Int
            BY <4>5, <3>3
          <5> QED
            BY <5>1, <3>5, <2>1
        <4> QED
          BY <4>1, <4>2, <4>3, <4>4, <4>5
      <3>6. Distinct(r)
        BY <3>3, <3>5 DEF Distinct
      <3>7. Below(r, n + 1)
        <4>1. ASSUME NEW i \in 1..(k + 1) PROVE r[i] <= n + 1
          <5>1. i \in 1..k \/ i = k + 1
            BY <3>2
          <5> QED
            BY <5>1, <3>3, <2>1
        <4> QED
          BY <4>1, <3>3
      <3> QED
        BY <3>1, <3>6, <3>7, <2>1, <2>7
    <2> QED
      BY <2>5, <2>6, <2>7
  <1> HIDE DEF S
  <1>5. 0..block.txs \subseteq S
    BY <1>1, <1>3, <1>4, InductionUpTo
  <1>6. DepositsOf(Body) = g[block.txs] /\ block.txs \in 0..block.txs
    BY <1>1 DEF Found
  <1> QED
    BY <1>5, <1>6 DEF S

-----------------------------------------------------------------------------
(* A block is the cut from its beginning to its end. *)
LEMMA WholeBlock ==
  ASSUME IsBlock(block)
  PROVE  /\ SubSeq(Body, 1, block.txs) = Body
         /\ Bloom(Body) = 1..block.txs
         /\ CutReceipts(0, block.txs) = BlockReceipts
         /\ block.txs \in Nat
  <1>1. Body \in Seq(Step) /\ Len(Body) = block.txs /\ block.txs \in Nat
    BY BodySteps
  <1>2. SubSeq(Body, 1, block.txs) = Body
    BY <1>1, SubSeqFull
  <1>3. Bloom(Body) = 1..block.txs
    <2>1. 0 \in 0..block.txs /\ block.txs \in 0..block.txs /\ 0 <= block.txs /\ 0 + 1 = 1
      BY <1>1
    <2>2. PICK z \in 0..block.txs : z = 0
      BY <2>1
    <2>3. PICK m \in 0..block.txs : m = block.txs
      BY <2>1
    <2>4. Bloom(SubSeq(Body, z + 1, m)) = (z + 1)..m
      BY <2>1, <2>2, <2>3, CutBloom
    <2>5. z + 1 = 1
      BY <2>2
    <2> QED
      BY <2>3, <2>4, <2>5, <1>2
  <1>4. CutReceipts(0, block.txs) = BlockReceipts
    <2>1. block.txs - 0 = block.txs /\ \A j \in 1..block.txs : 0 + j = j
      BY <1>1
    <2>2. \A j \in 1..block.txs : Body[j].gas = block.gas[j] - block.gas[j - 1]
      BY DEF Body
    <2> QED
      BY <2>1, <2>2 DEF CutReceipts, BlockReceipts
  <1> QED
    BY <1>1, <1>2, <1>3, <1>4

\* Every transaction is in a subblock.
LEMMA CutsCover ==
  ASSUME HostInv, complete_num_txs = block.txs, NEW c, Cuts(c), NEW t \in 1..block.txs
  PROVE  \E k \in 1..subblock_index : t \in (c[k - 1] + 1)..c[k]
  <1>1. IsBlock(block) /\ block.txs \in Nat /\ subblock_index \in Nat
    BY DEF HostInv, HostTypeOK, SplitInv, SplitTypeOK, IsBlock
  <1>2. /\ \A k \in 0..subblock_index : c[k] \in 0..block.txs
        /\ c[0] = 0 /\ c[subblock_index] = block.txs
    BY DEF Cuts
  <1> DEFINE S == {k \in 0..subblock_index : t <= c[k]}
  <1>3. S \subseteq Nat /\ S # {}
    <2>1. subblock_index \in S
      BY <1>1, <1>2
    <2> QED
      BY <2>1, <1>1
  <1> HIDE DEF S
  <1>4. PICK k \in S : \A m \in S : k <= m
    BY <1>3, LeastNat
  <1>5. k \in 0..subblock_index /\ t <= c[k]
    BY <1>4 DEF S
  <1>6. k # 0
    BY <1>2, <1>5
  <1>7. k \in 1..subblock_index /\ k - 1 \in 0..subblock_index /\ k - 1 < k
    BY <1>1, <1>5, <1>6
  <1>8. k - 1 \notin S
    BY <1>4, <1>7
  <1>9. ~(t <= c[k - 1])
    BY <1>7, <1>8 DEF S
  <1>10. c[k - 1] \in Int /\ c[k] \in Int /\ t \in Int
    BY <1>1, <1>2, <1>5, <1>7
  <1>11. t \in (c[k - 1] + 1)..c[k]
    BY <1>5, <1>9, <1>10
  <1> QED
    BY <1>7, <1>11

(* The host's header is the header of the block. *)
LEMMA HostHeaderIs ==
  ASSUME HostInv, CutsInv, complete_num_txs = block.txs
  PROVE  HostHeader = CurrentHeader
  <1>1. IsBlock(block) /\ block.txs \in Nat /\ subblock_index \in Nat
    BY DEF HostInv, HostTypeOK, SplitInv, SplitTypeOK, IsBlock
  <1>2. DOMAIN state_diffs = 1..subblock_index
    BY DEF HostInv
  <1>3. PICK c : Cuts(c)
    BY DEF CutsInv
  <1>4. ASSUME NEW k \in 1..subblock_index
        PROVE  /\ Bloom(HostTxs(k)) = (c[k - 1] + 1)..c[k]
               /\ c[k - 1] \in 0..block.txs /\ c[k] \in 0..block.txs
    <2>1. PICK a, b : a = c[k - 1] /\ b = c[k]
      OBVIOUS
    <2>2. CutAt(k, a, b)
      BY <2>1, <1>3 DEF Cuts
    <2>3. HostTxs(k) = SubSeq(Body, a + 1, b)
      BY <2>2, SubblockRun
    <2>4. a \in 0..block.txs /\ b \in 0..block.txs /\ a <= b
      BY <2>2 DEF CutAt
    <2>5. Bloom(SubSeq(Body, a + 1, b)) = (a + 1)..b
      BY <2>4, <1>1, CutBloom
    <2> QED
      BY <2>1, <2>3, <2>4, <2>5
  <1>5. PICK U : U = UNION {Bloom(HostTxs(i)) : i \in DOMAIN state_diffs}
    OBVIOUS
  <1>6. U = 1..block.txs
    <2>1. ASSUME NEW t \in U
          PROVE  t \in 1..block.txs
      <3>1. PICK k \in 1..subblock_index : t \in Bloom(HostTxs(k))
        BY <2>1, <1>2, <1>5
      <3>2. t \in (c[k - 1] + 1)..c[k] /\ c[k - 1] \in 0..block.txs /\ c[k] \in 0..block.txs
        BY <3>1, <1>4
      <3> QED
        BY <3>2, <1>1
    <2>2. ASSUME NEW t \in 1..block.txs
          PROVE  t \in U
      <3>1. PICK k \in 1..subblock_index : t \in (c[k - 1] + 1)..c[k]
        BY <1>3, CutsCover
      <3>2. t \in Bloom(HostTxs(k))
        BY <3>1, <1>4
      <3> QED
        BY <3>2, <1>2, <1>5
    <2> QED
      BY <2>1, <2>2
  <1>7. U = Bloom(Body)
    BY <1>1, <1>6, WholeBlock
  <1>8. PICK h : h = CurrentHeader
    OBVIOUS
  <1>9. /\ h.parent_hash = AncestorHeaders[1].hash /\ h.transactions_root = Body
        /\ h.rest_root = Rest /\ h.logs_bloom = U
        /\ h = [number |-> h.number, parent_hash |-> h.parent_hash, state_root |-> h.state_root,
                transactions_root |-> h.transactions_root, rest_root |-> h.rest_root,
                receipts_root |-> h.receipts_root, gas_used |-> h.gas_used,
                logs_bloom |-> h.logs_bloom, requests_hash |-> h.requests_hash]
    BY <1>7, <1>8 DEF CurrentHeader
  <1>10. HostHeader = [h EXCEPT !.parent_hash = h.parent_hash,
                                !.transactions_root = h.transactions_root,
                                !.rest_root = h.rest_root,
                                !.logs_bloom = h.logs_bloom]
    BY <1>5, <1>8, <1>9 DEF HostHeader
  <1>11. [h EXCEPT !.parent_hash = h.parent_hash,
                   !.transactions_root = h.transactions_root,
                   !.rest_root = h.rest_root,
                   !.logs_bloom = h.logs_bloom] = h
    BY <1>9
  <1> QED
    BY <1>8, <1>10, <1>11

-----------------------------------------------------------------------------
(***************************************************************************)
(* The aggregation of what the host prepared: behind n public values the   *)
(* program knows the transactions, receipts, bloom and state of the block  *)
(* up to the n-th cut, and the deposits up to there as lists of subblocks. *)
(***************************************************************************)
RequestPieces == Int \union {Queue[j] : j \in DOMAIN Queue}

RequestsSoFar(n, c, list) ==
  \E g, P, d :
    /\ Found(Body, g)
    /\ P \in Seq(RequestLists(RequestPieces))
    /\ DepositParts(g[c[n]], d, P)
    /\ list = P \o (IF n = subblock_index THEN Report(WITHDRAWAL_REQUEST_TYPE, Queue)
                                          ELSE << >>)

\* The hashes of the first n ancestors.
HashesDown(n) ==
  [m \in {AncestorHeaders[j].number : j \in 1..n} |->
     AncestorHeaders[AncestorHeaders[1].number + 1 - m].hash]

Aggregated(c, st, n) ==
  /\ n \in 0..subblock_index /\ Len(seen) = n /\ seen = [k \in 1..n |-> seen[k]]
  /\ cumulative = [output_state_root |-> st[n], logs_bloom |-> 1..c[n],
                   receipts |-> CutReceipts(0, c[n])]
  /\ transaction_body = SubSeq(Body, 1, c[n])
  /\ block_hashes = IF n = 0 THEN << >> ELSE <<HostBlockHashes>>
  /\ agg_pc = "loop" => RequestsSoFar(n, c, agg_requests) /\ linked = 0 /\ reconstructed = HashesDown(0)
  /\ agg_pc # "loop" => /\ n = subblock_index
                        /\ agg_requests = RequestsOf(Body, TRUE)
                        /\ linked \in 0..Len(AncestorHeaders)
                        /\ reconstructed = HashesDown(linked)
  /\ agg_pc = "accepted" => header = <<CurrentHeader>>

AggUntouched ==
  /\ agg_pc = "loop"
  /\ cumulative = [output_state_root |-> << >>, logs_bloom |-> {}, receipts |-> << >>]
  /\ agg_requests = << >>
  /\ transaction_body = << >>
  /\ block_hashes = << >>
  /\ linked = 0
  /\ reconstructed = << >>
  /\ seen = << >>

AggSide ==
  /\ stage \in {"host", "header", "aggregate"}
  /\ agg_pc \in {"loop", "link", "accepted"}
  /\ stage # "aggregate" => AggUntouched
  /\ stage = "aggregate" =>
       /\ agg_input = [header |-> CurrentHeader, txs |-> Body, rest |-> Rest,
                       ancestors |-> AncestorHeaders]
       /\ agg_len = subblock_index
       /\ \E c, st, n : Cuts(c) /\ RootsChain(st) /\ Aggregated(c, st, n)

(* What a finished host leaves to the aggregation. *)
HostDone ==
  /\ HostInv /\ IsBlock(block) /\ block.txs \in Nat
  /\ subblock_index \in Nat /\ subblock_index > 0
  /\ Len(subblock_inputs) = subblock_index
  /\ Len(subblock_roots) = subblock_index
  /\ complete_num_txs = block.txs
  /\ applied = BlockSteps(Body)

\* It is what the invariant says of a host that is done.
LEMMA DoneFacts ==
  ASSUME HostSide, host_pc = "done"
  PROVE  HostDone
  <1>1. HostInv /\ RootsInv /\ CutsInv
    BY DEF HostSide
  <1>2. IsBlock(block) /\ block.txs \in Nat
    BY <1>1 DEF HostInv, SplitInv, SplitTypeOK, IsBlock
  <1>3. subblock_index \in Nat /\ Len(subblock_inputs) = subblock_index /\ applied = BlockSteps(Body)
    BY <1>1 DEF HostInv, HostTypeOK
  <1>4. subblock_index > 0 /\ Len(subblock_roots) = subblock_index
    BY <1>1 DEF RootsInv
  <1>5. complete_num_txs = block.txs
    BY <1>1 DEF CutsInv
  <1> QED
    BY <1>1, <1>2, <1>3, <1>4, <1>5 DEF HostDone

\* The aggregation starts with the parent state and nothing else.
LEMMA AggregationStarts ==
  ASSUME HostDone, NEW c, Cuts(c), NEW st, RootsChain(st), AggUntouched
  PROVE  Aggregated(c, st, 0)
  <1>1. c[0] = 0 /\ st[0] = << >> /\ subblock_index \in Nat /\ subblock_index > 0 /\ IsBlock(block)
    BY DEF Cuts, RootsChain, HostDone
  <1>2. 1..0 = {} /\ 0 \in 0..subblock_index
    BY <1>1
  <1>3. CutReceipts(0, 0) = << >>
    BY DEF CutReceipts
  <1>4. SubSeq(Body, 1, 0) = << >>
    BY SubSeqEmpty
  <1>5. HashesDown(0) = << >>
    BY DEF HashesDown
  <1>6. RequestsSoFar(0, c, agg_requests)
    <2>1. Body \in Seq(Step) /\ Len(Body) \in Nat
      BY <1>1, BodySteps
    <2>2. PICK g : Found(Body, g)
      BY <2>1, DepositsFound
    <2>3. g[c[0]] = << >>
      BY <2>1, <2>2, <1>1, FoundAt
    <2>4. PICK P : P = << >>
      OBVIOUS
    <2>5. P \in Seq(RequestLists(RequestPieces)) /\ Len(P) = 0
      BY <2>4
    <2>6. PICK d : d = [k \in 0..0 |-> 0]
      OBVIOUS
    <2>7. DepositParts(<< >>, d, << >>)
      BY <2>6 DEF DepositParts
    <2>8. agg_requests = P \o << >>
      BY <2>4 DEF AggUntouched
    <2>9. 0 # subblock_index
      BY <1>1
    <2> QED
      BY <2>2, <2>3, <2>4, <2>5, <2>7, <2>8, <2>9 DEF RequestsSoFar
  <1>7. seen = << >> /\ Len(seen) = 0 /\ seen = [k \in 1..0 |-> seen[k]]
    BY <1>2 DEF AggUntouched
  <1> QED
    BY <1>1, <1>2, <1>3, <1>4, <1>5, <1>6, <1>7 DEF Aggregated, AggUntouched

\* Deriving the header succeeds, and hands over to the aggregation.
LEMMA DeriveHeaderSide ==
  ASSUME HostSide, AggSide, DeriveHeader
  PROVE  AggSide'
  <1>1. stage = "header" /\ UNCHANGED <<splitVars, hostVars>> /\ AggUntouched
    BY DEF DeriveHeader, AggSide
  <1>2. HostDone /\ CutsInv /\ RootsInv
    BY <1>1, DoneFacts DEF HostSide, Staged
  <1>3. HostHeader = CurrentHeader
    BY <1>2, HostHeaderIs DEF HostDone
  <1>4. /\ stage' = "aggregate" /\ agg_len' = Len(subblock_inputs)
        /\ agg_input' = [header |-> CurrentHeader, txs |-> Body, rest |-> Rest,
                         ancestors |-> AncestorHeaders]
        /\ UNCHANGED <<agg_pc, cumulative, agg_requests, transaction_body, block_hashes, linked,
                       reconstructed, seen, header>>
    BY <1>3 DEF DeriveHeader
  <1>5. PICK c : Cuts(c)
    BY <1>2 DEF CutsInv
  <1>6. PICK st : RootsChain(st)
    BY <1>2 DEF RootsInv
  <1>7. Aggregated(c, st, 0)
    BY <1>1, <1>2, <1>5, <1>6, AggregationStarts
  <1>8. UNCHANGED <<block, subblock_index, complete_num_txs, subblock_inputs, applied, state_diffs,
                    subblock_roots, big_state>>
    BY <1>1 DEF splitVars, hostVars
  <1>9. Body' = Body /\ CurrentHeader' = CurrentHeader
    BY <1>8 DEF Body, CurrentHeader, BlockReceipts, total_gas
  <1>10. Cuts(c)' /\ RootsChain(st)'
    BY <1>5, <1>6, <1>8, <1>9 DEF Cuts, CutAt, CutInput, RootsChain
  <1>11. Aggregated(c, st, 0)'
    BY <1>4, <1>7, <1>8, <1>9 DEF Aggregated, RequestsSoFar, CutReceipts
  <1>12. agg_pc' = "loop"
    BY <1>1, <1>4 DEF AggUntouched
  <1>13. agg_len' = subblock_index'
    BY <1>2, <1>4, <1>8 DEF HostDone
  <1> QED
    BY <1>4, <1>9, <1>10, <1>11, <1>12, <1>13 DEF AggSide

-----------------------------------------------------------------------------
(* The cut of the next public value, n + 1 of them read. *)
NextCut(c, n, a, b) ==
  /\ a = c[n] /\ b = c[n + 1] /\ CutAt(n + 1, a, b)
  /\ a \in 0..block.txs /\ b \in 0..block.txs /\ a <= b
  /\ a = 0 <=> n = 0
  /\ b = block.txs <=> n + 1 = subblock_index

\* The last subblock, and no other, ends the block.
LEMMA NextCutFacts ==
  ASSUME HostDone, NEW c, Cuts(c), NEW n \in Nat, n < subblock_index,
         NEW a, a = c[n], NEW b, b = c[n + 1]
  PROVE  NextCut(c, n, a, b)
  <1>1. subblock_index \in Nat /\ block.txs \in Nat /\ complete_num_txs = block.txs
    BY DEF HostDone
  <1>2. n + 1 \in 1..subblock_index /\ (n + 1) - 1 = n
    BY <1>1
  <1>3. CutAt(n + 1, a, b)
    BY <1>2 DEF Cuts
  <1>4. /\ a \in 0..block.txs /\ b \in 0..block.txs /\ a <= b /\ (a = 0 <=> n + 1 = 1)
    BY <1>3 DEF CutAt
  <1>5. a = 0 <=> n = 0
    BY <1>4
  <1>6. n + 1 = subblock_index => b = block.txs
    BY <1>1 DEF Cuts
  <1>7. n + 1 # subblock_index => b # block.txs
    <2> SUFFICES ASSUME n + 1 # subblock_index
                 PROVE  b # block.txs
      OBVIOUS
    <2>1. PICK k \in 1..subblock_index : k = n + 2
      BY <1>1
    <2>2. k - 1 = n + 1 /\ k # 1
      BY <2>1
    <2>3. CutAt(k, c[k - 1], c[k])
      BY DEF Cuts
    <2>4. b # 0 /\ (b # 0 => b < block.txs)
      BY <2>2, <2>3 DEF CutAt
    <2> QED
      BY <2>4, <1>1, <1>4
  <1> QED
    BY <1>3, <1>4, <1>5, <1>6, <1>7 DEF NextCut

OutputOf(st, n, a, b, out) ==
  /\ out.input_state_root = st[n]
  /\ out.output_state_root = st[n + 1]
  /\ out.logs_bloom = (a + 1)..b
  /\ out.receipts = CutReceipts(a, b)
  /\ out.requests = CutRequests(a, b)

\* The roots of a subblock, and the output with them.
LEMMA NextOutput ==
  ASSUME HostDone, NEW c, NEW st, RootsChain(st), NEW n \in Nat, n < subblock_index,
         NEW a, NEW b, NextCut(c, n, a, b), NEW out, out = HostOutput(n + 1)
  PROVE  OutputOf(st, n, a, b, out)
  <1>1. subblock_index \in Nat /\ Len(subblock_roots) = subblock_index /\ HostInv /\ IsBlock(block)
    BY DEF HostDone
  <1>2. PICK k \in 1..subblock_index : k = n + 1
    BY <1>1
  <1>3. CutAt(k, a, b) /\ a \in 0..block.txs /\ b \in 0..block.txs /\ a <= b
    BY <1>2 DEF NextCut
  <1>4. out = CutOutput(k, a, b)
    BY <1>1, <1>2, <1>3, HostOutputIs
  <1>5. PICK x, y : x = st[n] /\ y = st[n + 1]
    OBVIOUS
  <1>6. subblock_roots[k] = <<x, y>>
    <2>1. k - 1 = n
      BY <1>2
    <2> QED
      BY <2>1, <1>1, <1>2, <1>5 DEF RootsChain
  <1>7. subblock_roots[k][1] = x /\ subblock_roots[k][2] = y
    BY <1>6
  <1>8. Bloom(SubSeq(Body, a + 1, b)) = (a + 1)..b
    BY <1>1, <1>3, CutBloom
  <1> QED
    BY <1>4, <1>5, <1>7, <1>8 DEF CutOutput, OutputOf

\* The checks on the next public value pass.
LEMMA NextChecks ==
  ASSUME HostDone, NEW c, NEW st, RootsChain(st), NEW n \in Nat, n < subblock_index,
         NEW a, NEW b, NextCut(c, n, a, b), Aggregated(c, st, n),
         agg_input.header = CurrentHeader, agg_input.rest = Rest, agg_len = subblock_index
  PROVE  SubblockChecks(HostPublicValue(n + 1))
  <1>1. /\ subblock_index \in Nat /\ IsBlock(block) /\ block.txs \in Nat
        /\ a = c[n] /\ CutAt(n + 1, a, b) /\ a \in 0..block.txs
        /\ (a = 0 <=> n = 0) /\ (b = block.txs <=> n + 1 = subblock_index)
    BY DEF HostDone, NextCut
  <1>2. PICK pv : pv = HostPublicValue(n + 1)
    OBVIOUS
  <1>3. PICK input : input = HostInput(n + 1)
    OBVIOUS
  <1>4. pv.input = input /\ pv.output = HostOutput(n + 1)
    BY <1>2, <1>3 DEF HostPublicValue
  <1>5. /\ input.is_first_subblock = (a = 0)
        /\ input.is_last_subblock = (b = block.txs)
        /\ input.starting_gas_used = block.gas[a]
        /\ input.header = CurrentHeader /\ input.rest = Rest
        /\ input.block_hashes = HostBlockHashes
    <2>1. subblock_inputs[n + 1] = CutInput(a, b)
      BY <1>1 DEF CutAt
    <2> QED
      BY <2>1, <1>3 DEF HostInput, CutInput
  <1>6. seen # << >> => block_hashes = <<HostBlockHashes>>
    <2>1. Len(seen) = n /\ seen = [k \in 1..n |-> seen[k]]
          /\ block_hashes = IF n = 0 THEN << >> ELSE <<HostBlockHashes>>
      BY DEF Aggregated
    <2>2. n = 0 => seen = << >>
      BY <2>1
    <2> QED
      BY <2>1, <2>2
  <1>7. block.gas[a] = LastGas
    <2>1. cumulative.receipts = CutReceipts(0, a)
      BY <1>1 DEF Aggregated
    <2> QED
      BY <2>1, <1>1, LastReceipt DEF LastGas
  <1>8. FlagChecks(input, n + 1)
    <2>1. /\ n + 1 = 1 => a = 0
          /\ n + 1 = agg_len => b = block.txs
          /\ (n + 1 > 1 /\ n + 1 < agg_len) => a # 0 /\ b # block.txs
      BY <1>1
    <2> QED
      BY <2>1, <1>5, Zenon DEF FlagChecks
  <1>9. pv.output.input_state_root = cumulative.output_state_root
    <2>1. cumulative.output_state_root = st[n]
      BY DEF Aggregated
    <2>2. PICK out : out = HostOutput(n + 1)
      OBVIOUS
    <2>3. OutputOf(st, n, a, b, out)
      BY <2>2, NextOutput
    <2> QED
      BY <2>1, <2>2, <2>3, <1>4 DEF OutputOf
  <1>10. Len(seen) = n
    BY DEF Aggregated
  <1> QED
    BY <1>2, <1>4, <1>5, <1>6, <1>7, <1>8, <1>9, <1>10 DEF SubblockChecks

(* The requests of the next subblock follow those before it. *)
LEMMA NextRequests ==
  ASSUME HostDone, NEW c, NEW n \in Nat, n < subblock_index, NEW a, NEW b, NextCut(c, n, a, b),
         NEW list, RequestsSoFar(n, c, list)
  PROVE  RequestsSoFar(n + 1, c, list \o CutRequests(a, b))
  <1>1. /\ subblock_index \in Nat /\ IsBlock(block) /\ a = c[n] /\ b = c[n + 1]
        /\ a \in 0..block.txs /\ b \in 0..block.txs /\ a <= b
        /\ (b = block.txs <=> n + 1 = subblock_index)
    BY DEF HostDone, NextCut
  <1>2. PICK X, L : X = RequestPieces /\ L = RequestLists(X)
    OBVIOUS
  <1>3. PICK g, P, d : /\ Found(Body, g) /\ P \in Seq(L) /\ DepositParts(g[a], d, P)
                       /\ list = P \o (IF n = subblock_index
                                         THEN Report(WITHDRAWAL_REQUEST_TYPE, Queue) ELSE << >>)
    BY <1>1, <1>2 DEF RequestsSoFar
  <1>4. list = P
    <2>1. list = P \o << >>
      BY <1>1, <1>3
    <2> QED
      BY <2>1, <1>3, ConcatEmptySeq
  <1>5. PICK E : E = DepositsOf(SubSeq(Body, a + 1, b))
    OBVIOUS
  <1>6. PICK D : D = g[a]
    OBVIOUS
  <1>7. D \in Seq(X) /\ E \in Seq(X) /\ g[b] = D \o E
    <2>1. D \in Seq(Int) /\ E \in Seq(Int) /\ g[b] = D \o E
      BY <1>1, <1>3, <1>5, <1>6, CutDeposits
    <2>2. Int \subseteq X
      BY <1>2 DEF RequestPieces
    <2> QED
      BY <2>1, <2>2, SeqMonotonic
  <1>8. PICK r0 : r0 = Report(DEPOSIT_REQUEST_TYPE, E)
    OBVIOUS
  <1>9. DepositParts(D, d, P)
    BY <1>3, <1>6
  <1>10. P \o r0 \in Seq(L) /\ \E c2 : DepositParts(D \o E, c2, P \o r0)
    <2>1. P \in Seq(RequestLists(X))
      BY <1>2, <1>3
    <2>2. /\ P \o Report(DEPOSIT_REQUEST_TYPE, E) \in Seq(RequestLists(X))
          /\ \E c2 : DepositParts(D \o E, c2, P \o Report(DEPOSIT_REQUEST_TYPE, E))
      BY <2>1, <1>7, <1>9, MoreParts
    <2> QED
      BY <2>2, <1>2, <1>8
  <1>11. PICK d2 : DepositParts(D \o E, d2, P \o r0)
    BY <1>10
  <1>12. PICK T : T = (IF n + 1 = subblock_index THEN Report(WITHDRAWAL_REQUEST_TYPE, Queue)
                                                 ELSE << >>)
    OBVIOUS
  <1>13. CutRequests(a, b) = r0 \o T
    BY <1>1, <1>5, <1>8, <1>12 DEF CutRequests
  <1>14. r0 \in Seq(L) /\ T \in Seq(L)
    <2>1. r0 \in Seq(RequestLists(X))
      <3>1. DEPOSIT_REQUEST_TYPE \in Int
        BY DEF DEPOSIT_REQUEST_TYPE
      <3>2. PICK t \in Int : t = DEPOSIT_REQUEST_TYPE
        BY <3>1
      <3>3. Report(t, E) \in Seq(RequestLists(X))
        BY <1>7, ReportType
      <3> QED
        BY <3>2, <3>3, <1>8
    <2>2. Report(WITHDRAWAL_REQUEST_TYPE, Queue) \in Seq(RequestLists(X))
      <3>1. WITHDRAWAL_REQUEST_TYPE \in Int
        BY DEF WITHDRAWAL_REQUEST_TYPE
      <3>2. PICK t \in Int : t = WITHDRAWAL_REQUEST_TYPE
        BY <3>1
      <3>3. Queue \in Seq(X)
        BY <1>2, QueueAssumption, SeqMonotonic DEF RequestPieces
      <3>4. Report(t, Queue) \in Seq(RequestLists(X))
        BY <3>3, ReportType
      <3> QED
        BY <3>2, <3>4
    <2> QED
      BY <2>1, <2>2, <1>2, <1>12
  <1>15. list \o CutRequests(a, b) = (P \o r0) \o T
    <2>1. (P \o r0) \o T = P \o (r0 \o T)
      BY <1>3, <1>14, ConcatAssociative
    <2> QED
      BY <2>1, <1>4, <1>13
  <1>16. DepositParts(g[c[n + 1]], d2, P \o r0)
    BY <1>1, <1>7, <1>11
  <1> QED
    BY <1>2, <1>3, <1>10, <1>12, <1>15, <1>16 DEF RequestsSoFar

(* The step leaves the host and the block alone. *)
HostAlone ==
  /\ UNCHANGED <<block, subblock_index, complete_num_txs, subblock_inputs, applied, state_diffs,
                 subblock_roots, big_state, stage, agg_input, agg_len>>
  /\ Body' = Body /\ CurrentHeader' = CurrentHeader /\ HostBlockHashes' = HostBlockHashes

\* The steps of the aggregation do.
LEMMA AggregationAlone ==
  ASSUME ValidateAggregation
  PROVE  HostAlone
  <1>1. UNCHANGED <<stage, splitVars, hostVars>> /\ UNCHANGED <<agg_input, agg_len>>
    BY DEF ValidateAggregation, AggregateSubblock, MergeAll, LinkAncestor, FinishAggregation
  <1>2. UNCHANGED <<block, subblock_index, complete_num_txs, subblock_inputs, applied, state_diffs,
                    subblock_roots, big_state>>
    BY <1>1 DEF splitVars, hostVars
  <1>3. Body' = Body /\ CurrentHeader' = CurrentHeader /\ HostBlockHashes' = HostBlockHashes
    BY <1>2 DEF Body, CurrentHeader, BlockReceipts, total_gas, HostBlockHashes
  <1> QED
    BY <1>1, <1>2, <1>3 DEF HostAlone

\* So it is enough to follow the aggregation itself.
LEMMA SideFromAggregated ==
  ASSUME AggSide, stage = "aggregate", HostAlone, agg_pc' \in {"loop", "link", "accepted"},
         NEW c, Cuts(c), NEW st, RootsChain(st), NEW n, Aggregated(c, st, n)'
  PROVE  AggSide'
  <1>1. Cuts(c)'
    BY DEF Cuts, CutAt, CutInput, HostAlone
  <1>2. RootsChain(st)'
    BY DEF RootsChain, HostAlone
  <1>3. \E x, y, z : Cuts(x)' /\ RootsChain(y)' /\ Aggregated(x, y, z)'
    BY <1>1, <1>2
  <1>4. /\ stage' = "aggregate" /\ agg_len' = subblock_index'
        /\ agg_input' = [header |-> CurrentHeader', txs |-> Body', rest |-> Rest,
                         ancestors |-> AncestorHeaders]
    BY DEF HostAlone, AggSide
  <1> QED
    BY <1>3, <1>4 DEF AggSide

\* A public value is accepted and the aggregation is one cut further.
LEMMA AggregateSide ==
  ASSUME HostDone, AggSide, stage = "aggregate", HostAlone, Len(seen) < agg_len,
         AggregateSubblock(HostPublicValue(Len(seen) + 1))
  PROVE  AggSide'
  <1>1. PICK c, st, n : Cuts(c) /\ RootsChain(st) /\ Aggregated(c, st, n)
    BY DEF AggSide
  <1>2. /\ agg_input.header = CurrentHeader /\ agg_input.rest = Rest /\ agg_len = subblock_index
        /\ agg_pc = "loop" /\ subblock_index \in Nat /\ IsBlock(block) /\ block.txs \in Nat
    BY DEF AggSide, AggregateSubblock, HostDone
  <1>3. n \in Nat /\ n < subblock_index /\ Len(seen) = n /\ seen = [k \in 1..n |-> seen[k]]
    BY <1>1, <1>2 DEF Aggregated
  <1>4. PICK a, b : a = c[n] /\ b = c[n + 1]
    OBVIOUS
  <1>5. NextCut(c, n, a, b)
    BY <1>1, <1>3, <1>4, NextCutFacts
  <1>6. /\ a \in 0..block.txs /\ b \in 0..block.txs /\ a <= b
        /\ subblock_inputs[n + 1] = CutInput(a, b)
    BY <1>5 DEF NextCut, CutAt
  <1>7. SubblockChecks(HostPublicValue(n + 1))
    BY <1>1, <1>2, <1>3, <1>5, NextChecks
  <1>8. PICK pv : pv = HostPublicValue(n + 1)
    OBVIOUS
  <1>9. /\ block_hashes' = <<pv.input.block_hashes>>
        /\ cumulative' = Extend(cumulative, pv.output)
        /\ agg_requests' = agg_requests \o pv.output.requests
        /\ transaction_body' = transaction_body \o pv.input.txs
        /\ seen' = Append(seen, pv) /\ agg_pc' = "loop"
        /\ UNCHANGED <<linked, reconstructed, header>>
    BY <1>2, <1>3, <1>7, <1>8 DEF AggregateSubblock
  <1>10. PICK out : out = HostOutput(n + 1)
    OBVIOUS
  <1>11. OutputOf(st, n, a, b, out)
    BY <1>1, <1>3, <1>5, <1>10, NextOutput
  <1>12. /\ pv.output = out
         /\ pv.input.block_hashes = HostBlockHashes
         /\ pv.input.txs = SubSeq(Body, a + 1, b)
    BY <1>6, <1>8, <1>10 DEF HostPublicValue, HostInput, CutInput
  <1>13. /\ cumulative = [output_state_root |-> st[n], logs_bloom |-> 1..a,
                          receipts |-> CutReceipts(0, a)]
         /\ transaction_body = SubSeq(Body, 1, a)
         /\ RequestsSoFar(n, c, agg_requests) /\ linked = 0 /\ reconstructed = HashesDown(0)
    BY <1>1, <1>2, <1>4 DEF Aggregated
  <1>14. cumulative' = [output_state_root |-> st[n + 1], logs_bloom |-> 1..b,
                        receipts |-> CutReceipts(0, b)]
    <2>1. (1..a) \union ((a + 1)..b) = 1..b
      BY <1>2, <1>6
    <2>2. CutReceipts(0, a) \o CutReceipts(a, b) = CutReceipts(0, b)
      BY <1>2, <1>6, JoinReceipts
    <2>3. cumulative' = Extend(cumulative, out)
      BY <1>9, <1>12
    <2>4. /\ cumulative.logs_bloom = 1..a /\ cumulative.receipts = CutReceipts(0, a)
          /\ out.output_state_root = st[n + 1] /\ out.logs_bloom = (a + 1)..b
          /\ out.receipts = CutReceipts(a, b)
      BY <1>11, <1>13 DEF OutputOf
    <2> QED
      BY <2>1, <2>2, <2>3, <2>4, Zenon DEF Extend
  <1>15. transaction_body' = SubSeq(Body, 1, b)
    <2>1. SubSeq(Body, 1, a) \o SubSeq(Body, a + 1, b) = SubSeq(Body, 1, b)
      BY <1>2, <1>6, JoinTxs
    <2> QED
      BY <2>1, <1>9, <1>12, <1>13
  <1>16. RequestsSoFar(n + 1, c, agg_requests')
    <2>1. agg_requests' = agg_requests \o CutRequests(a, b)
      BY <1>9, <1>11, <1>12 DEF OutputOf
    <2>2. RequestsSoFar(n + 1, c, agg_requests \o CutRequests(a, b))
      BY <1>3, <1>5, <1>13, NextRequests
    <2> QED
      BY <2>1, <2>2
  <1>17. RequestsSoFar(n + 1, c, agg_requests)'
    <2>1. Body' = Body /\ subblock_index' = subblock_index
      BY DEF HostAlone
    <2> QED
      BY <2>1, <1>16 DEF RequestsSoFar
  <1>18. /\ Len(seen') = n + 1 /\ seen' = [k \in 1..(n + 1) |-> seen'[k]]
    BY <1>3, <1>9, AppendAt
  <1>19. n + 1 \in 0..subblock_index /\ n + 1 # 0
    BY <1>2, <1>3
  <1>20. Aggregated(c, st, n + 1)'
    <2>1. /\ block_hashes' = <<HostBlockHashes'>> /\ subblock_index' = subblock_index
          /\ Body' = Body /\ CutReceipts(0, c[n + 1])' = CutReceipts(0, b)
          /\ HashesDown(0)' = HashesDown(0)
      BY <1>4, <1>9, <1>12 DEF HostAlone, CutReceipts, HashesDown
    <2> QED
      BY <2>1, <1>4, <1>9, <1>13, <1>14, <1>15, <1>17, <1>18, <1>19 DEF Aggregated
  <1> QED
    BY <1>1, <1>9, <1>20, SideFromAggregated

-----------------------------------------------------------------------------
(***************************************************************************)
(* The loop is over: merge_requests, the ancestors and the last checks.    *)
(***************************************************************************)
\* No list of the subblocks is of a type merge_requests does not know.
LEMMA NoMergePanic ==
  ASSUME NEW X, NEW D, NEW d, NEW P \in Seq(RequestLists(X)), DepositParts(D, d, P),
         NEW r \in Seq(RequestLists(X)), r = Report(WITHDRAWAL_REQUEST_TYPE, Queue)
  PROVE  ~MergePanics(P \o r)
  <1>1. PICK list : list = P \o r
    OBVIOUS
  <1>2. PICK m, k \in Nat : m = Len(P) /\ k = Len(r)
    BY LenProperties
  <1>3. /\ list \in Seq(RequestLists(X)) /\ Len(list) = m + k /\ DOMAIN list = 1..(m + k)
        /\ \A j \in 1..m : list[j] = P[j]
        /\ \A j \in (m + 1)..(m + k) : list[j] = r[j - m]
    <2>1. list \in Seq(RequestLists(X))
      BY <1>1, ConcatProperties
    <2>2. Len(list) = m + k
      BY <1>1, <1>2, ConcatAt
    <2> QED
      BY <2>1, <2>2, <1>1, <1>2, ConcatAt, LenProperties
  <1>4. ASSUME NEW j \in DOMAIN list
        PROVE  list[j].type \in KnownTypes
    <2>1. CASE j \in 1..m
      <3>1. P[j] = [type |-> DEPOSIT_REQUEST_TYPE, data |-> P[j].data]
        BY <2>1, <1>2 DEF DepositParts
      <3>2. P[j].type = DEPOSIT_REQUEST_TYPE
        BY <3>1
      <3> QED
        BY <3>2, <2>1, <1>3 DEF KnownTypes
    <2>2. CASE j \notin 1..m
      <3>1. j \in (m + 1)..(m + k) /\ k > 0
        BY <2>2, <1>2, <1>3
      <3>2. r # << >>
        BY <3>1, <1>2
      <3>3. r = <<[type |-> WITHDRAWAL_REQUEST_TYPE, data |-> Queue]>>
        BY <3>2 DEF Report
      <3>4. k = 1 /\ r[1].type = WITHDRAWAL_REQUEST_TYPE
        BY <3>3, <1>2
      <3>5. j - m = 1
        BY <3>1, <3>4, <1>2
      <3> QED
        BY <3>1, <3>4, <3>5, <1>3 DEF KnownTypes
    <2> QED
      BY <2>1, <2>2
  <1> QED
    BY <1>1, <1>4 DEF MergePanics

\* The merged requests are those of the block, each of them once.
LEMMA MergedRequests ==
  ASSUME HostDone, Distinct(Queue), NEW c, Cuts(c), NEW list,
         RequestsSoFar(subblock_index, c, list)
  PROVE  ~MergePanics(list) /\ MergeRequests(list) = RequestsOf(Body, TRUE)
  <1>1. IsBlock(block) /\ c[subblock_index] = block.txs /\ block.txs \in Nat
    BY DEF Cuts, HostDone
  <1>2. Body \in Seq(Step) /\ Len(Body) = block.txs
    BY <1>1, BodySteps
  <1>3. PICK X : X = RequestPieces
    OBVIOUS
  <1>4. PICK r : r = Report(WITHDRAWAL_REQUEST_TYPE, Queue)
    OBVIOUS
  <1>5. PICK g, P, d : /\ Found(Body, g) /\ P \in Seq(RequestLists(X))
                       /\ DepositParts(g[block.txs], d, P) /\ list = P \o r
    BY <1>1, <1>3, <1>4 DEF RequestsSoFar
  <1>6. PICK D : D = DepositsOf(Body)
    OBVIOUS
  <1>7. D = g[block.txs]
    BY <1>2, <1>5, <1>6 DEF Found
  <1>8. DepositParts(D, d, P)
    BY <1>5, <1>7
  <1>9. D \in Seq(X) /\ Queue \in Seq(X)
    <2>1. D \in Seq(Int)
      BY <1>2, <1>5, <1>6, FoundType
    <2>2. Int \subseteq X /\ {Queue[j] : j \in DOMAIN Queue} \subseteq X
      BY <1>3 DEF RequestPieces
    <2>3. D \in Seq(X)
      BY <2>1, <2>2, SeqMonotonic
    <2>4. Queue \in Seq(X)
      BY <2>2, QueueAssumption, SeqMonotonic
    <2> QED
      BY <2>3, <2>4
  <1>10. Distinct(D)
    BY <1>1, <1>5, <1>6, DepositsDistinct
  <1>11. r \in Seq(RequestLists(X))
    <2>1. PICK t \in Int : t = WITHDRAWAL_REQUEST_TYPE
      BY DEF WITHDRAWAL_REQUEST_TYPE
    <2>2. Report(t, Queue) \in Seq(RequestLists(X))
      BY <1>9, ReportType
    <2> QED
      BY <2>1, <2>2, <1>4
  <1>12. ~MergePanics(list)
    <2>1. ~MergePanics(P \o r)
      BY <1>4, <1>5, <1>8, <1>11, NoMergePanic
    <2> QED
      BY <2>1, <1>5
  <1>13. PICK C : C = << >> /\ C \in Seq(X)
    <2>1. << >> \in Seq(X)
      OBVIOUS
    <2> QED
      BY <2>1
  <1>14. Distinct(C) /\ Report(CONSOLIDATION_REQUEST_TYPE, C) = << >>
    BY <1>13 DEF Distinct, Report
  <1>15. MergeRequests((P \o Report(WITHDRAWAL_REQUEST_TYPE, Queue))
                          \o Report(CONSOLIDATION_REQUEST_TYPE, C))
           = (Report(DEPOSIT_REQUEST_TYPE, D) \o Report(WITHDRAWAL_REQUEST_TYPE, Queue))
                \o Report(CONSOLIDATION_REQUEST_TYPE, C)
    <2>1. P \in Seq(RequestLists(X)) /\ DepositParts(D, d, P)
      BY <1>5, <1>8
    <2>2. C \in Seq(X) /\ Distinct(C)
      BY <1>13, <1>14
    <2> QED
      BY <2>1, <2>2, <1>9, <1>10, MergeOfSubblocks, SMTT(60)
  <1>16. PICK s : s = Report(DEPOSIT_REQUEST_TYPE, D)
    OBVIOUS
  <1>17. MergeRequests((P \o r) \o << >>) = (s \o r) \o << >>
    BY <1>4, <1>14, <1>15, <1>16
  <1>18. (P \o r) \o << >> = P \o r
    <2>1. P \o r \in Seq(RequestLists(X))
      BY <1>5, <1>11, ConcatProperties
    <2> QED
      BY <2>1, ConcatEmptySeq
  <1>19. (s \o r) \o << >> = s \o r
    <2>1. PICK t \in Int : t = DEPOSIT_REQUEST_TYPE
      BY DEF DEPOSIT_REQUEST_TYPE
    <2>2. Report(t, D) \in Seq(RequestLists(X))
      BY <1>9, ReportType
    <2>3. s \in Seq(RequestLists(X))
      BY <2>1, <2>2, <1>16
    <2>4. s \o r \in Seq(RequestLists(X))
      BY <2>3, <1>11, ConcatProperties
    <2> QED
      BY <2>4, ConcatEmptySeq
  <1>20. RequestsOf(Body, TRUE) = s \o r
    BY <1>4, <1>6, <1>16 DEF RequestsOf
  <1> QED
    BY <1>5, <1>12, <1>17, <1>18, <1>19, <1>20

\* The requests are merged and the walk over the ancestors starts.
LEMMA MergeAllSide ==
  ASSUME HostDone, AggSide, stage = "aggregate", HostAlone, Distinct(Queue), MergeAll
  PROVE  AggSide'
  <1>1. PICK c, st, n : Cuts(c) /\ RootsChain(st) /\ Aggregated(c, st, n)
    BY DEF AggSide
  <1>2. agg_pc = "loop" /\ n = subblock_index /\ subblock_index \in Nat
    BY <1>1 DEF AggSide, MergeAll, Aggregated, HostDone
  <1>3. RequestsSoFar(subblock_index, c, agg_requests) /\ linked = 0 /\ reconstructed = HashesDown(0)
    BY <1>1, <1>2 DEF Aggregated
  <1>4. ~MergePanics(agg_requests) /\ MergeRequests(agg_requests) = RequestsOf(Body, TRUE)
    BY <1>1, <1>3, MergedRequests
  <1>5. /\ agg_pc' = "link" /\ agg_requests' = RequestsOf(Body, TRUE)
        /\ UNCHANGED <<cumulative, transaction_body, block_hashes, linked, reconstructed, seen>>
    BY <1>4 DEF MergeAll
  <1>6. Aggregated(c, st, n)'
    <2>1. /\ HostBlockHashes' = HostBlockHashes /\ subblock_index' = subblock_index
          /\ Body' = Body /\ block' = block
      BY DEF HostAlone
    <2>2. CutReceipts(0, c[n])' = CutReceipts(0, c[n])
      BY <2>1 DEF CutReceipts
    <2>3. 0 \in 0..Len(AncestorHeaders)
      BY AncestorsAssumption
    <2>4. /\ n \in 0..subblock_index /\ Len(seen) = n /\ seen = [k \in 1..n |-> seen[k]]
          /\ cumulative = [output_state_root |-> st[n], logs_bloom |-> 1..c[n],
                           receipts |-> CutReceipts(0, c[n])]
          /\ transaction_body = SubSeq(Body, 1, c[n])
          /\ block_hashes = IF n = 0 THEN << >> ELSE <<HostBlockHashes>>
      BY <1>1 DEF Aggregated
    <2>5. RequestsOf(Body, TRUE)' = RequestsOf(Body, TRUE)
      BY <2>1 DEF RequestsOf, DepositsOf
    <2> QED
      BY <2>1, <2>2, <2>3, <2>4, <2>5, <1>2, <1>3, <1>5 DEF Aggregated
  <1> QED
    BY <1>1, <1>5, <1>6, SideFromAggregated

\* The hashes of one ancestor more.
LEMMA OneAncestorMore ==
  ASSUME NEW n \in Nat, n < Len(AncestorHeaders), NEW p, p = AncestorHeaders[n + 1]
  PROVE  [m \in {p.number} \union DOMAIN HashesDown(n) |->
            IF m = p.number THEN p.hash ELSE HashesDown(n)[m]]
           = HashesDown(n + 1)
  <1>1. PICK f : f = HashesDown(n)
    OBVIOUS
  <1>2. PICK y \in Nat : y = AncestorHeaders[1].number
    <2>1. Len(AncestorHeaders) \in Nat /\ 1 \in 1..Len(AncestorHeaders)
      BY AncestorsAssumption
    <2> QED
      BY <2>1, AncestorsAssumption
  <1>3. \A j \in 1..(n + 1) : AncestorHeaders[j].number = y + 1 - j
    <2>1. Len(AncestorHeaders) \in Nat /\ \A j \in 1..(n + 1) : j \in DOMAIN AncestorHeaders
      BY AncestorsAssumption
    <2> QED
      BY <2>1, <1>2, AncestorsAssumption
  <1>4. p.number = y + 1 - (n + 1)
    BY <1>3
  <1>5. f = [m \in {y + 1 - j : j \in 1..n} |-> AncestorHeaders[y + 1 - m].hash]
    <2>1. \A j \in 1..n : AncestorHeaders[j].number = y + 1 - j
      BY <1>3
    <2>2. {AncestorHeaders[j].number : j \in 1..n} = {y + 1 - j : j \in 1..n}
      BY <2>1
    <2> QED
      BY <2>2, <1>1, <1>2, Zenon DEF HashesDown
  <1>6. HashesDown(n + 1)
          = [m \in {y + 1 - j : j \in 1..(n + 1)} |-> AncestorHeaders[y + 1 - m].hash]
    <2>1. {AncestorHeaders[j].number : j \in 1..(n + 1)} = {y + 1 - j : j \in 1..(n + 1)}
      BY <1>3
    <2> QED
      BY <2>1, <1>2, Zenon DEF HashesDown
  <1>7. {p.number} \union {y + 1 - j : j \in 1..n} = {y + 1 - j : j \in 1..(n + 1)}
    <2>1. ASSUME NEW m \in {y + 1 - j : j \in 1..(n + 1)}
          PROVE  m \in {p.number} \union {y + 1 - j : j \in 1..n}
      <3>1. PICK j \in 1..(n + 1) : m = y + 1 - j
        OBVIOUS
      <3>2. j = n + 1 \/ j \in 1..n
        OBVIOUS
      <3> QED
        BY <3>1, <3>2, <1>4
    <2>2. n + 1 \in 1..(n + 1) /\ \A j \in 1..n : j \in 1..(n + 1)
      OBVIOUS
    <2> QED
      BY <2>1, <2>2, <1>4
  <1>8. y + 1 - p.number = n + 1
    BY <1>4
  <1>9. PICK N : N = {y + 1 - j : j \in 1..n}
    OBVIOUS
  <1>10. PICK M : M = {y + 1 - j : j \in 1..(n + 1)}
    OBVIOUS
  <1>11. /\ f = [m \in N |-> AncestorHeaders[y + 1 - m].hash]
         /\ HashesDown(n + 1) = [m \in M |-> AncestorHeaders[y + 1 - m].hash]
         /\ {p.number} \union N = M
    BY <1>5, <1>6, <1>7, <1>9, <1>10, Zenon
  <1>12. \A m \in M : (IF m = p.number THEN p.hash ELSE f[m]) = AncestorHeaders[y + 1 - m].hash
    <2>1. AncestorHeaders[y + 1 - p.number].hash = p.hash
      BY <1>8, Zenon
    <2>2. \A m \in N : f[m] = AncestorHeaders[y + 1 - m].hash
      BY <1>11, Zenon
    <2> QED
      BY <2>1, <2>2, <1>11, Zenon
  <1>13. DOMAIN f = N
    BY <1>11, Zenon
  <1>14. [m \in {p.number} \union DOMAIN f |-> IF m = p.number THEN p.hash ELSE f[m]]
           = [m \in M |-> AncestorHeaders[y + 1 - m].hash]
    BY <1>11, <1>12, <1>13, Zenon
  <1> QED
    BY <1>1, <1>11, <1>14, Zenon

\* An ancestor is the parent of the header before it, and its hash is noted.
LEMMA LinkSide ==
  ASSUME HostDone, AggSide, stage = "aggregate", HostAlone, LinkAncestor
  PROVE  AggSide'
  <1>1. PICK c, st, n : Cuts(c) /\ RootsChain(st) /\ Aggregated(c, st, n)
    BY DEF AggSide
  <1>2. PICK l : l = linked
    OBVIOUS
  <1>3. /\ agg_pc = "link" /\ agg_input.ancestors = AncestorHeaders
        /\ agg_input.header = CurrentHeader /\ l < Len(AncestorHeaders)
    BY <1>2 DEF AggSide, LinkAncestor
  <1>4. /\ n = subblock_index /\ agg_requests = RequestsOf(Body, TRUE)
        /\ l \in 0..Len(AncestorHeaders) /\ reconstructed = HashesDown(l)
    BY <1>1, <1>2, <1>3 DEF Aggregated
  <1>5. Len(AncestorHeaders) \in Nat /\ l \in Nat /\ l + 1 \in 0..Len(AncestorHeaders)
    BY <1>3, <1>4, AncestorsAssumption
  <1>6. PICK p : p = AncestorHeaders[l + 1]
    OBVIOUS
  <1>7. PICK child : child = IF l = 0 THEN CurrentHeader ELSE AncestorHeaders[l]
    OBVIOUS
  <1>8. p.number = child.number - 1 /\ p.hash = child.parent_hash
    <2>1. 1 \in DOMAIN AncestorHeaders /\ l + 1 \in DOMAIN AncestorHeaders
      BY <1>5, <1>3, AncestorsAssumption
    <2>2. PICK k \in Nat : k = AncestorHeaders[1].number
      BY <2>1, AncestorsAssumption
    <2>3. p.number = k + 1 - (l + 1)
      BY <2>1, <2>2, <1>6, AncestorsAssumption
    <2>4. CASE l = 0
      <3>1. child.number = k + 1 /\ child.parent_hash = AncestorHeaders[1].hash
        BY <2>2, <2>4, <1>7 DEF CurrentHeader
      <3>2. l + 1 = 1
        BY <2>4
      <3> QED
        BY <2>3, <2>4, <3>1, <3>2, <1>6
    <2>5. CASE l # 0
      <3>1. l \in DOMAIN AncestorHeaders /\ l + 1 > 1 /\ (l + 1) - 1 = l
        BY <2>5, <1>3, <1>5, AncestorsAssumption
      <3>2. child.number = k + 1 - l
        BY <3>1, <2>2, <2>5, <1>7, AncestorsAssumption
      <3>3. p.hash = child.parent_hash
        BY <3>1, <2>1, <2>5, <1>6, <1>7, AncestorsAssumption
      <3> QED
        BY <3>2, <3>3, <2>3, <1>5
    <2> QED
      BY <2>4, <2>5
  <1>9. /\ linked' = l + 1 /\ agg_pc' = "link"
        /\ reconstructed' = [m \in {p.number} \union DOMAIN HashesDown(l) |->
                               IF m = p.number THEN p.hash ELSE HashesDown(l)[m]]
        /\ UNCHANGED <<cumulative, agg_requests, transaction_body, block_hashes, seen>>
    BY <1>2, <1>3, <1>4, <1>6, <1>7, <1>8 DEF LinkAncestor
  <1>10. reconstructed' = HashesDown(l + 1)
    BY <1>3, <1>5, <1>6, <1>9, OneAncestorMore
  <1>11. Aggregated(c, st, n)'
    <2>1. /\ HostBlockHashes' = HostBlockHashes /\ subblock_index' = subblock_index
          /\ Body' = Body /\ block' = block
      BY DEF HostAlone
    <2>2. CutReceipts(0, c[n])' = CutReceipts(0, c[n]) /\ RequestsOf(Body, TRUE)' = RequestsOf(Body, TRUE)
      BY <2>1 DEF CutReceipts, RequestsOf, DepositsOf
    <2>3. /\ n \in 0..subblock_index /\ Len(seen) = n /\ seen = [k \in 1..n |-> seen[k]]
          /\ cumulative = [output_state_root |-> st[n], logs_bloom |-> 1..c[n],
                           receipts |-> CutReceipts(0, c[n])]
          /\ transaction_body = SubSeq(Body, 1, c[n])
          /\ block_hashes = IF n = 0 THEN << >> ELSE <<HostBlockHashes>>
      BY <1>1 DEF Aggregated
    <2>4. HashesDown(linked)' = HashesDown(l + 1)
      BY <1>9 DEF HashesDown
    <2> QED
      BY <2>1, <2>2, <2>3, <2>4, <1>4, <1>5, <1>9, <1>10 DEF Aggregated
  <1> QED
    BY <1>1, <1>9, <1>11, SideFromAggregated

\* The last checks pass and the header returned is the header of the block.
LEMMA FinishSide ==
  ASSUME HostDone, AggSide, stage = "aggregate", HostAlone, FinishAggregation
  PROVE  AggSide'
  <1>1. PICK c, st, n : Cuts(c) /\ RootsChain(st) /\ Aggregated(c, st, n)
    BY DEF AggSide
  <1>2. PICK h : h = CurrentHeader
    OBVIOUS
  <1>3. /\ agg_pc = "link" /\ agg_input.ancestors = AncestorHeaders
        /\ agg_input.header = h /\ agg_input.txs = Body /\ agg_input.rest = Rest
        /\ linked = Len(AncestorHeaders)
    BY <1>2 DEF AggSide, FinishAggregation
  <1>4. /\ n = subblock_index /\ agg_requests = RequestsOf(Body, TRUE)
        /\ linked \in 0..Len(AncestorHeaders) /\ reconstructed = HashesDown(linked)
    BY <1>1, <1>3 DEF Aggregated
  <1>5. /\ IsBlock(block) /\ c[n] = block.txs /\ block.txs \in Nat
        /\ st[n] = BlockSteps(Body) /\ n # 0
    BY <1>1, <1>4 DEF HostDone, Cuts, RootsChain
  <1>6. /\ SubSeq(Body, 1, block.txs) = Body /\ Bloom(Body) = 1..block.txs
        /\ CutReceipts(0, block.txs) = BlockReceipts
    BY <1>5, WholeBlock
  <1>7. /\ cumulative = [output_state_root |-> BlockSteps(Body), logs_bloom |-> Bloom(Body),
                         receipts |-> BlockReceipts]
        /\ transaction_body = Body
        /\ block_hashes = <<HostBlockHashes>>
    BY <1>1, <1>5, <1>6 DEF Aggregated
  <1>8. HashesDown(linked) = HostBlockHashes
    BY <1>3, AncestorsAssumption DEF HashesDown, HostBlockHashes
  <1>9. LastGas = block.gas[block.txs]
    <2>1. block.txs \in 0..block.txs
      BY <1>5
    <2>2. PICK a \in 0..block.txs : a = block.txs
      BY <2>1
    <2>3. cumulative.receipts = CutReceipts(0, a)
      BY <2>2, <1>6, <1>7
    <2> QED
      BY <2>2, <2>3, <1>5, LastReceipt DEF LastGas
  <1>10. /\ h.receipts_root = BlockReceipts /\ h.gas_used = block.gas[block.txs]
         /\ h.requests_hash = RequestsOf(Body, TRUE) /\ h.logs_bloom = Bloom(Body)
         /\ h.state_root = BlockSteps(Body)
    BY <1>2 DEF CurrentHeader, total_gas
  <1>11. Len(AncestorHeaders) > 0
    BY AncestorsAssumption
  <1>12. FinalChecks
    <2>1. /\ cumulative.receipts = BlockReceipts /\ cumulative.logs_bloom = Bloom(Body)
          /\ cumulative.output_state_root = BlockSteps(Body)
      BY <1>7
    <2>2. ValidateSubblockAggregation(h, cumulative.receipts, agg_requests)
      BY <2>1, <1>4, <1>9, <1>10 DEF ValidateSubblockAggregation
    <2> QED
      BY <2>1, <2>2, <1>3, <1>4, <1>7, <1>8, <1>10, <1>11 DEF FinalChecks
  <1>13. DerivedHeader = h
    <2>1. /\ h.parent_hash = AncestorHeaders[1].hash /\ h.transactions_root = Body
          /\ h.rest_root = Rest /\ h.logs_bloom = cumulative.logs_bloom
          /\ h = [number |-> h.number, parent_hash |-> h.parent_hash, state_root |-> h.state_root,
                  transactions_root |-> h.transactions_root, rest_root |-> h.rest_root,
                  receipts_root |-> h.receipts_root, gas_used |-> h.gas_used,
                  logs_bloom |-> h.logs_bloom, requests_hash |-> h.requests_hash]
      BY <1>2, <1>7 DEF CurrentHeader
    <2>2. DerivedHeader = [h EXCEPT !.parent_hash = h.parent_hash,
                                    !.transactions_root = h.transactions_root,
                                    !.rest_root = h.rest_root,
                                    !.logs_bloom = h.logs_bloom]
      BY <2>1, <1>3 DEF DerivedHeader
    <2>3. [h EXCEPT !.parent_hash = h.parent_hash,
                    !.transactions_root = h.transactions_root,
                    !.rest_root = h.rest_root,
                    !.logs_bloom = h.logs_bloom] = h
      BY <2>1
    <2> QED
      BY <2>2, <2>3
  <1>14. /\ agg_pc' = "accepted" /\ header' = <<h>>
         /\ UNCHANGED <<cumulative, agg_requests, transaction_body, block_hashes, linked,
                        reconstructed, seen>>
    BY <1>12, <1>13 DEF FinishAggregation
  <1>15. Aggregated(c, st, n)'
    <2>1. /\ HostBlockHashes' = HostBlockHashes /\ subblock_index' = subblock_index
          /\ Body' = Body /\ block' = block /\ CurrentHeader' = h
      BY <1>2 DEF HostAlone
    <2>2. CutReceipts(0, c[n])' = CutReceipts(0, c[n]) /\ RequestsOf(Body, TRUE)' = RequestsOf(Body, TRUE)
      BY <2>1 DEF CutReceipts, RequestsOf, DepositsOf
    <2>3. /\ n \in 0..subblock_index /\ Len(seen) = n /\ seen = [k \in 1..n |-> seen[k]]
          /\ cumulative = [output_state_root |-> st[n], logs_bloom |-> 1..c[n],
                           receipts |-> CutReceipts(0, c[n])]
          /\ transaction_body = SubSeq(Body, 1, c[n])
          /\ block_hashes = IF n = 0 THEN << >> ELSE <<HostBlockHashes>>
      BY <1>1 DEF Aggregated
    <2>4. HashesDown(linked)' = HashesDown(linked)
      BY <1>14 DEF HashesDown
    <2> QED
      BY <2>1, <2>2, <2>3, <2>4, <1>4, <1>14 DEF Aggregated
  <1> QED
    BY <1>1, <1>14, <1>15, SideFromAggregated

-----------------------------------------------------------------------------
\* Nothing of the aggregation has happened at the start.
LEMMA AggSideInit ==
  ASSUME PipeInit
  PROVE  AggSide
  BY DEF PipeInit, AggSide, AggUntouched

\* Every step of the pipeline keeps what the aggregation knows.
LEMMA AggSideStep ==
  ASSUME HostSide, AggSide, [PipeNext]_pipeVars, Distinct(Queue)
  PROVE  AggSide'
  <1>1. CASE ExecuteHost
    <2>1. stage = "host" /\ stage' \in {"host", "header"} /\ UNCHANGED aggVars
      BY <1>1 DEF ExecuteHost
    <2>2. AggUntouched /\ agg_pc = "loop"
      BY <2>1 DEF AggSide, AggUntouched
    <2>3. AggUntouched' /\ agg_pc' = "loop"
      BY <2>1, <2>2 DEF AggUntouched, aggVars
    <2> QED
      BY <2>1, <2>3 DEF AggSide
  <1>2. CASE DeriveHeader
    BY <1>2, DeriveHeaderSide
  <1>3. CASE ValidateAggregation
    <2>1. stage = "aggregate" /\ HostAlone
      BY <1>3, AggregationAlone DEF ValidateAggregation
    <2>2. HostDone
      BY <2>1, DoneFacts DEF HostSide, Staged
    <2>3. CASE Len(seen) < agg_len /\ AggregateSubblock(HostPublicValue(Len(seen) + 1))
      BY <2>1, <2>2, <2>3, AggregateSide
    <2>4. CASE MergeAll
      BY <2>1, <2>2, <2>4, MergeAllSide
    <2>5. CASE LinkAncestor
      BY <2>1, <2>2, <2>5, LinkSide
    <2>6. CASE FinishAggregation
      BY <2>1, <2>2, <2>6, FinishSide
    <2> QED
      BY <1>3, <2>3, <2>4, <2>5, <2>6 DEF ValidateAggregation
  <1>4. CASE UNCHANGED pipeVars
    <2>1. /\ UNCHANGED <<stage, splitVars, hostVars>> /\ UNCHANGED aggVars
      BY <1>4 DEF pipeVars
    <2>2. CASE stage = "aggregate"
      <3>1. UNCHANGED <<block, subblock_index, complete_num_txs, subblock_inputs, applied, state_diffs,
                        subblock_roots, big_state>>
        BY <2>1 DEF splitVars, hostVars
      <3>2. Body' = Body /\ CurrentHeader' = CurrentHeader /\ HostBlockHashes' = HostBlockHashes
        BY <3>1 DEF Body, CurrentHeader, BlockReceipts, total_gas, HostBlockHashes
      <3>3. HostAlone
        BY <2>1, <3>1, <3>2 DEF HostAlone, aggVars
      <3>4. PICK c, st, n : Cuts(c) /\ RootsChain(st) /\ Aggregated(c, st, n)
        BY <2>2 DEF AggSide
      <3>5. Aggregated(c, st, n)'
        <4>1. UNCHANGED <<agg_pc, cumulative, agg_requests, transaction_body, block_hashes, linked,
                          reconstructed, seen, header>>
          BY <2>1 DEF aggVars
        <4>2. /\ CutReceipts(0, c[n])' = CutReceipts(0, c[n])
              /\ RequestsOf(Body, TRUE)' = RequestsOf(Body, TRUE)
          BY <3>1, <3>2 DEF CutReceipts, RequestsOf, DepositsOf
        <4>3. RequestsSoFar(n, c, agg_requests) => RequestsSoFar(n, c, agg_requests)'
          BY <4>1, <3>1, <3>2 DEF RequestsSoFar
        <4>4. HashesDown(linked)' = HashesDown(linked) /\ HashesDown(0)' = HashesDown(0)
          BY <4>1 DEF HashesDown
        <4> QED
          BY <4>1, <4>2, <4>3, <4>4, <3>1, <3>2, <3>4 DEF Aggregated
      <3>6. agg_pc' \in {"loop", "link", "accepted"}
        BY <2>1 DEF AggSide, aggVars
      <3> QED
        BY <2>2, <3>3, <3>4, <3>5, <3>6, SideFromAggregated
    <2>3. CASE stage # "aggregate"
      <3>1. AggUntouched'
        BY <2>1, <2>3 DEF AggSide, AggUntouched, aggVars
      <3> QED
        BY <2>1, <2>3, <3>1 DEF AggSide, AggUntouched
    <2> QED
      BY <2>2, <2>3
  <1> QED
    BY <1>1, <1>2, <1>3, <1>4 DEF PipeNext

(***************************************************************************)
(* A valid block, however it is split, is never refused: the host derives  *)
(* the header of the block, every assertion of execute_aggregation holds   *)
(* for the public values it prepared, and the header that comes back is    *)
(* the block's.  The block's withdrawal requests must be distinct, because *)
(* merge_requests drops a request that repeats an earlier one.             *)
(***************************************************************************)
THEOREM PipeAccepts ==
  ASSUME Distinct(Queue)
  PROVE  PipeSpec => []ValidBlockAccepted
  <1>1. AggSide => ValidBlockAccepted
    <2> SUFFICES ASSUME AggSide
                 PROVE  ValidBlockAccepted
      OBVIOUS
    <2>1. stage # "mismatch" /\ agg_pc # "panic"
      BY DEF AggSide
    <2>2. agg_pc = "accepted" => header = <<CurrentHeader>>
      <3>1. agg_pc = "accepted" => stage = "aggregate"
        BY DEF AggSide, AggUntouched
      <3> QED
        BY <3>1 DEF AggSide, Aggregated
    <2> QED
      BY <2>1, <2>2 DEF ValidBlockAccepted
  <1>2. PipeInit => HostSide /\ AggSide
    BY HostSideInit, AggSideInit
  <1>3. HostSide /\ AggSide /\ [PipeNext]_pipeVars => (HostSide /\ AggSide)'
    BY HostSideStep, AggSideStep
  <1> QED
    BY <1>1, <1>2, <1>3, PTL DEF PipeSpec
=============================================================================

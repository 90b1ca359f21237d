----------------------------- MODULE MCPipeline -----------------------------
(***************************************************************************)
(* Every block of up to MaxTxs transactions with gas in TxGas, with        *)
(* deposits in the first, the second and the last of them, two withdrawal  *)
(* requests and two ancestors.                                             *)
(***************************************************************************)
EXTENDS Pipeline

CONSTANTS MaxTxs, TxGas

\* Cumulative gas of a sequence of receipts.
Accumulated(s) ==
  LET sum[i \in 0..Len(s)] == IF i = 0 THEN 0 ELSE sum[i - 1] + s[i] IN sum

Bodies == UNION {[1..n -> TxGas] : n \in 0..MaxTxs}
MCBlocks == {[txs |-> Len(s), gas |-> Accumulated(s)] : s \in Bodies}

MCAncestors == <<[number |-> 8, hash |-> "h8", parent_hash |-> "h7"],
                 [number |-> 7, hash |-> "h7", parent_hash |-> "h6"]>>

MCQueue == <<"w1", "w2">>
NoSteps == << >>
=============================================================================

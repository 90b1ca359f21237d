-------------------------- MODULE SubblockRequests --------------------------
(***************************************************************************)
(* The requests of a block executed as subblocks, from the subblocks that  *)
(* emit them to the list execute_aggregation compares with the header.     *)
(* A subblock emits the deposits found in its own receipts; the withdrawal *)
(* and consolidation queues are drained by the post-execution calls of the *)
(* last one.  A type with nothing to report is left out.                   *)
(***************************************************************************)
EXTENDS Requests

CONSTANTS
  Pieces,            \* what a withdrawal or consolidation request can be
  RepeatedPieces,    \* may a queue hold the same request twice?
  MaxSubblocks,      \* bound: subblocks of a block
  MaxPerSubblock     \* bound: requests of one type in one subblock

ASSUME RequestBoundsAssumption == MaxSubblocks \in Nat /\ MaxPerSubblock \in Nat

VARIABLES
  phase,             \* subblocks, merge, done
  count,             \* subblocks executed
  requests,          \* cumulative_state_diff.requests
  deposits,          \* history: the block's deposits, in order
  withdrawals,       \* history: its withdrawal requests
  consolidations     \* history: its consolidation requests

requestVars == <<phase, count, requests, deposits, withdrawals, consolidations>>

\* The requests of the whole block, as an execution in one piece reports them.
BlockRequests ==
  Report(DEPOSIT_REQUEST_TYPE, deposits)
    \o Report(WITHDRAWAL_REQUEST_TYPE, withdrawals)
    \o Report(CONSOLIDATION_REQUEST_TYPE, consolidations)

NoRepetition(s) == \A i, j \in DOMAIN s : s[i] = s[j] => i = j

Queues ==
  {s \in UNION {[1..n -> Pieces] : n \in 0..MaxPerSubblock} : RepeatedPieces \/ NoRepetition(s)}

RequestInit ==
  /\ phase = "subblocks"
  /\ count = 0
  /\ requests = << >>
  /\ deposits = << >>
  /\ withdrawals = << >>
  /\ consolidations = << >>

\* A deposit carries its index, so no two deposits are alike.
NewDeposits(n) == [i \in 1..n |-> Len(deposits) + i]

\* extend(): self.requests.extend(other.requests) for a subblock but the last.
ExtendRequests ==
  /\ phase = "subblocks"
  /\ count < MaxSubblocks - 1
  /\ \E n \in 0..MaxPerSubblock :
       /\ requests' = requests \o Report(DEPOSIT_REQUEST_TYPE, NewDeposits(n))
       /\ deposits' = deposits \o NewDeposits(n)
  /\ count' = count + 1
  /\ UNCHANGED <<phase, withdrawals, consolidations>>

ExtendLast ==
  /\ phase = "subblocks"
  /\ \E n \in 0..MaxPerSubblock, ws \in Queues, cs \in Queues :
       /\ requests' = requests \o Report(DEPOSIT_REQUEST_TYPE, NewDeposits(n))
                               \o Report(WITHDRAWAL_REQUEST_TYPE, ws)
                               \o Report(CONSOLIDATION_REQUEST_TYPE, cs)
       /\ deposits' = deposits \o NewDeposits(n)
       /\ withdrawals' = ws
       /\ consolidations' = cs
  /\ count' = count + 1
  /\ phase' = "merge"

Merge ==
  /\ phase = "merge"
  /\ ~MergePanics(requests)
  /\ requests' = MergeRequests(requests)
  /\ phase' = "done"
  /\ UNCHANGED <<count, deposits, withdrawals, consolidations>>

RequestNext == ExtendRequests \/ ExtendLast \/ Merge

RequestSpec == RequestInit /\ [][RequestNext]_requestVars

-----------------------------------------------------------------------------
(***************************************************************************)
(* merge_requests gives the requests of the block: one list per type, in   *)
(* the order of the types, every request of every subblock once and in     *)
(* order - what the header's requests_hash is computed from.               *)
(***************************************************************************)
MergedIsBlockRequests == phase = "done" => requests = BlockRequests
=============================================================================

------------------------------ MODULE Requests ------------------------------
(***************************************************************************)
(* SubblockOutput::merge_requests: the EIP-7685 requests of the subblocks  *)
(* become the requests of the block.                                       *)
(*                                                                         *)
(* A request list is [type |-> t, data |-> s]: its first byte and the      *)
(* sequence of pieces rest.chunks(request_data_len) cuts it into, one per  *)
(* deposit, withdrawal or consolidation.  A list whose length is not a     *)
(* multiple of the request size, or whose type is not known, is one piece. *)
(* A list without even a type byte has type NoType.                        *)
(***************************************************************************)
EXTENDS Integers, Sequences

NoType == -1
DEPOSIT_REQUEST_TYPE == 0
WITHDRAWAL_REQUEST_TYPE == 1
CONSOLIDATION_REQUEST_TYPE == 2

KnownTypes == {DEPOSIT_REQUEST_TYPE, WITHDRAWAL_REQUEST_TYPE, CONSOLIDATION_REQUEST_TYPE}

\* What an executor reports for one type.
Report(type, data) == IF data = << >> THEN << >> ELSE <<[type |-> type, data |-> data]>>

\* The pieces of one list that processed_requests has not met: insert() fails
\* for a piece of an earlier list and for a repetition within this one.
Unprocessed(processed, request) ==
  LET fresh[n \in 0..Len(request.data)] ==
        IF n = 0
          THEN << >>
          ELSE IF \/ <<request.type, request.data[n]>> \in processed
                  \/ \E j \in 1..(n - 1) : request.data[j] = request.data[n]
                 THEN fresh[n - 1]
                 ELSE Append(fresh[n - 1], request.data[n])
  IN  fresh[Len(request.data)]

\* Faulty: every list is pushed, a type seen before or not.
AddToType_Push(new_requests, type, data) ==
  Append(new_requests, [type |-> type, data |-> data])

\* found_req.extend(..) or new_requests.push(..).
AddToType(new_requests, type, data) ==
  LET found == {i \in DOMAIN new_requests : new_requests[i].type = type}
  IN  IF found # {}
        THEN LET i == CHOOSE j \in found : \A k \in found : j <= k
             IN  [new_requests EXCEPT ![i] = [type |-> type, data |-> @.data \o data]]
        ELSE Append(new_requests, [type |-> type, data |-> data])

\* One round of the loop over multi_requests.
MergeOne(acc, request) ==
  IF request.type = NoType
    THEN acc
    ELSE [processed    |-> acc.processed
                             \union {<<request.type, request.data[j]>> : j \in DOMAIN request.data},
          new_requests |-> AddToType(acc.new_requests, request.type,
                                     Unprocessed(acc.processed, request))]

\* The loop; a list of zero or one requests is left as it is.
MergeRequests(requests) ==
  LET merged[n \in 0..Len(requests)] ==
        IF n = 0
          THEN [processed |-> {}, new_requests |-> << >>]
          ELSE MergeOne(merged[n - 1], requests[n])
  IN  IF Len(requests) <= 1 THEN requests ELSE merged[Len(requests)].new_requests

\* rest_len % request_data_len divides by zero on a list of an unknown type
\* with nothing behind the type byte.
MergePanics(requests) ==
  /\ Len(requests) > 1
  /\ \E i \in DOMAIN requests :
       requests[i].type \notin KnownTypes \union {NoType} /\ requests[i].data = << >>
=============================================================================

------------------------------ MODULE MCTxStore ------------------------------
(* TLC instances of TxStore: requests and payloads are model values, and   *)
(* the requests are interchangeable.                                       *)
EXTENDS TxStore, TLC

CONSTANTS c1, t1

Symmetric == Permutations(Calls)

\* Every call may be any request.
AnyRequest == [c \in Calls |-> Requests]

\* Two calls: one invokes with t1, the other is any request for t1, or submits
\* another transaction.
SharedOrOwn ==
  [c \in Calls |->
     IF c = c1 THEN {r \in Requests : r.tx = t1 /\ r.kind = "invoke"}
     ELSE {r \in Requests : r.tx = t1 \/ r.kind = "submit"}]
=============================================================================

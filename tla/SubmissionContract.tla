------------------------- MODULE SubmissionContract -------------------------
(***************************************************************************)
(* What the orchestrator promises about handing transactions to ordering.  *)
(*                                                                         *)
(* A transaction ID is reserved by at most one request at a time.  The     *)
(* holder either gives the ID back without having handed anything to       *)
(* ordering, or hands its envelope over, once; from then on nobody else    *)
(* can reserve the ID until the ledger has decided the transaction and the *)
(* holder has learnt the decision.  TxStore implements this contract.      *)
(***************************************************************************)
CONSTANTS Calls,   \* requests
          Txs,     \* transaction IDs
          None     \* "no request"

VARIABLES holder,  \* holder[t]: the request that has t reserved, or None
          phase,   \* phase[c]: how far request c's own submission has come
          fate     \* fate[t]: the ledger's verdict on t, "" while there is none

vars == <<holder, phase, fate>>

Verdicts == {"COMMITTED", "ABORTED"}

Init ==
  /\ holder = [t \in Txs |-> None]
  /\ phase = [c \in Calls |-> "unused"]
  /\ fate = [t \in Txs |-> ""]

Reserve(c, t) ==
  /\ holder[t] = None
  /\ phase[c] = "unused"
  /\ holder' = [holder EXCEPT ![t] = c]
  /\ phase' = [phase EXCEPT ![c] = "working"]
  /\ UNCHANGED fate

HandOver(c, t) ==
  /\ holder[t] = c
  /\ phase[c] = "working"
  /\ phase' = [phase EXCEPT ![c] = "outstanding"]
  /\ UNCHANGED <<holder, fate>>

GiveBack(c, t) ==
  /\ holder[t] = c
  /\ phase[c] = "working"
  /\ holder' = [holder EXCEPT ![t] = None]
  /\ phase' = [phase EXCEPT ![c] = "released"]
  /\ UNCHANGED fate

Settle(c, t) ==
  /\ holder[t] = c
  /\ phase[c] = "outstanding"
  /\ fate[t] # ""
  /\ holder' = [holder EXCEPT ![t] = None]
  /\ phase' = [phase EXCEPT ![c] = "settled"]
  /\ UNCHANGED fate

Decide(t, v) ==
  /\ fate[t] = ""
  /\ fate' = [fate EXCEPT ![t] = v]
  /\ UNCHANGED <<holder, phase>>

Next ==
  \/ \E c \in Calls, t \in Txs :
       Reserve(c, t) \/ HandOver(c, t) \/ GiveBack(c, t) \/ Settle(c, t)
  \/ \E t \in Txs, v \in Verdicts : Decide(t, v)

Spec == Init /\ [][Next]_vars

=============================================================================

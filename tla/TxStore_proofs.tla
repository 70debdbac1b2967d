--------------------------- MODULE TxStore_proofs ---------------------------
(***************************************************************************)
(* Proofs about TxStore, for any number of requests, transactions and      *)
(* payloads: type correctness, one record per transaction, no second send  *)
(* while an outcome is unknown, and receipts settled by the ledger only;   *)
(* then the init callback, what clients are told, and Close.               *)
(*                                                                         *)
(* The first inductive invariant says where a handler can be for every     *)
(* state of its record; that an ID stays reserved follows from the record  *)
(* states alone.  The second half adds who holds the finality locks, which *)
(* callbacks ran, what was ordered and what was told.  The last part shows *)
(* that the store implements SubmissionContract.                           *)
(***************************************************************************)
EXTENDS TxStore, TLAPS

\* Before begin created or found a record.
Unreserved == {"idle", "existing", "validate", "begin"}

\* Labels of a call that holds a pointer to some record.
Pointing == {"refresh", "record", "confirm", "unlock", "replay", "outcome",
             "relock", "reread"}

\* Labels only the creator of a record reaches.
Owning == {"endorse", "markExecuted", "lock", "send", "mark", "complete"}

\* A handler has a request, and the pointer its label needs; a record exists
\* exactly if its creator points to it.
HandlerAt(c) ==
  /\ pc[c] # "idle" => req[c] \in Requests
  /\ pc[c] \in Unreserved => on[c] = None
  /\ pc[c] \in {"existing", "validate", "begin"} => req[c].kind # "status"
  /\ pc[c] \in Owning => on[c] = c /\ req[c].kind # "status"
  /\ pc[c] \in Pointing => on[c] \in Calls
  /\ pc[c] \in {"wait", "record", "confirm", "unlock"} /\ req[c].kind # "status"
       => req[c].kind = "invoke" /\ on[c] = c
  /\ pc[c] = "refresh" => req[c].kind = "status"
  /\ pc[c] = "wait" /\ req[c].kind = "status" => on[c] = None
  /\ state[c] = "NONE" <=> on[c] # c
  /\ on[c] \in Calls => state[on[c]] # "NONE" /\ Tx(on[c]) = Tx(c)

\* A status that is about to be applied or reported is known.
KnownAt(c) ==
  /\ pc[c] \in {"refresh", "record", "confirm"} => ledger[Tx(c)] # ""
  /\ pc[c] = "unlock" /\ req[c].kind = "status" => ledger[Tx(c)] # ""

\* How far a record can be while its creator is at a label.
RecordAt(c) ==
  /\ pc[c] \in {"endorse", "markExecuted"} => state[c] = "IN_PROGRESS"
  /\ pc[c] \in {"lock", "send", "mark"} => state[c] = "EXECUTED"
  /\ pc[c] = "mark" => ack[c] # "none" /\ (c \in handed <=> ack[c] \in {"ok", "uncertain"})
  /\ c \in handed => state[c] # "NONE" /\ state[c] # "FAILED"
  /\ c \in handed /\ pc[c] # "mark" => state[c] # "IN_PROGRESS" /\ state[c] # "EXECUTED"
  /\ c \in handed /\ state[c] = "COMPLETED" => status[c] # ""
  /\ state[c] = "SUBMITTED" => c \in handed
  /\ status[c] # "" => state[c] = "COMPLETED"

\* The same for the records the pass has claimed.
PassKnows ==
  /\ \A r \in claimed : state[r] # "NONE"
  /\ \A r \in answers : state[r] # "NONE" /\ ledger[Tx(r)] # ""
  /\ pass = "confirm" =>
       current \in Calls /\ state[current] # "NONE" /\ ledger[Tx(current)] # ""

CallInv == \A c \in Calls : HandlerAt(c) /\ KnownAt(c) /\ RecordAt(c)

IInv == TypeOK /\ CallInv /\ PassKnows /\ OneRecordPerTx

(* Steps that only move a handler on, or belong to the pass, leave the     *)
(* records, the pointers and the world alone.                              *)
QuietVars == <<store, state, status, req, on, handed, ledger>>

Moved(d) ==
  \/ pc'[d] = pc[d]
  \/ pc'[d] = "done" /\ pc[d] \notin {"idle", "mark"}
  \/ pc[d] = "unlock" /\ pc'[d] = "complete" /\ req[d].kind # "status"
  \/ pc[d] = "wait" /\ pc'[d] = "record" /\ req[d].kind # "status" /\ ledger[Tx(d)] # ""
  \/ pc[d] = "wait" /\ pc'[d] = "unlock" /\ req[d].kind # "status"
  \/ pc[d] = "validate" /\ pc'[d] = "begin"
  \/ pc[d] = "lock" /\ pc'[d] \in {"send", "complete"}
  \/ pc[d] = "refresh" /\ pc'[d] = "record"
  \/ pc[d] = "record" /\ pc'[d] \in {"confirm", "unlock"}
  \/ pc[d] = "confirm" /\ pc'[d] = "unlock"
  \/ pc[d] = "replay" /\ pc'[d] \in {"outcome", "relock"}
  \/ pc[d] = "relock" /\ pc'[d] = "reread"

\* A quiet step that follows the handlers' control flow keeps the invariant.
LEMMA QuietStep ==
  ASSUME IInv, UNCHANGED QuietVars, TypeOK', PassKnows',
         \A d \in Calls : Moved(d) /\ (pc'[d] = "mark" => ack'[d] = ack[d])
  PROVE  IInv'
<1>1. /\ store' = store /\ state' = state /\ status' = status /\ req' = req
      /\ on' = on /\ handed' = handed /\ ledger' = ledger
  BY DEF QuietVars
<1>2. ASSUME NEW d \in Calls PROVE HandlerAt(d)' /\ KnownAt(d)' /\ RecordAt(d)'
  <2>1. HandlerAt(d) /\ KnownAt(d) /\ RecordAt(d) /\ Moved(d)
        /\ (pc'[d] = "mark" => ack'[d] = ack[d])
    BY DEF IInv, CallInv
  <2>2. HandlerAt(d)'
    BY <1>1, <2>1 DEF HandlerAt, Moved, Unreserved, Owning, Pointing, Tx
  <2>3. KnownAt(d)'
    BY <1>1, <2>1 DEF HandlerAt, KnownAt, Moved, Tx
  <2>4. RecordAt(d)'
    BY <1>1, <2>1 DEF RecordAt, Moved
  <2> QED  BY <2>2, <2>3, <2>4
<1>3. OneRecordPerTx'
  BY <1>1 DEF IInv, OneRecordPerTx, Tx
<1> QED  BY <1>2, <1>3 DEF IInv, CallInv

\* What the pass knows is kept by steps that touch neither it nor the records.
LEMMA PassUnmoved ==
  ASSUME PassKnows, UNCHANGED QuietVars, UNCHANGED <<pass, claimed, answers, current>>
  PROVE  PassKnows'
BY DEF PassKnows, QuietVars, Tx

\* The labels, replies and acknowledgments the steps below write, as typed facts.
LEMMA Names ==
  /\ "begin" \in Labels /\ "existing" \in Labels /\ "validate" \in Labels
  /\ "endorse" \in Labels /\ "markExecuted" \in Labels /\ "lock" \in Labels
  /\ "send" \in Labels /\ "mark" \in Labels /\ "wait" \in Labels
  /\ "record" \in Labels /\ "confirm" \in Labels /\ "unlock" \in Labels
  /\ "complete" \in Labels /\ "replay" \in Labels /\ "outcome" \in Labels
  /\ "relock" \in Labels /\ "reread" \in Labels /\ "refresh" \in Labels
  /\ "done" \in Labels
  /\ "conflict" \in Replies /\ "rejected" \in Replies /\ "error" \in Replies
  /\ "pending" \in Replies /\ "response" \in Replies /\ "acknowledged" \in Replies
BY DEF Labels, Replies

\* What a client can be told is a reply.
LEMMA WaitResultType ==
  ASSUME TypeOK, NEW r \in Calls
  PROVE  WaitResult(r) \in Replies
BY DEF TypeOK, WaitResult, Replies, Verdicts, States, Active, Terminal

\* A final status is something a client may be told.
LEMMA KnownVerdict ==
  ASSUME TypeOK, NEW c \in Calls, req[c] \in Requests, ledger[Tx(c)] # ""
  PROVE  ledger[Tx(c)] \in Replies
BY DEF TypeOK, Tx, Requests, Replies, Verdicts

\* Submit's checks either pass the request on or refuse it; nothing is reserved.
LEMMA ValidateInv ==
  ASSUME IInv, NEW c \in Calls, Validate(c)
  PROVE  IInv'
<1>0. /\ pc \in [Calls -> Labels] /\ reply \in [Calls -> Replies]
      /\ lock \in [Calls -> Calls \cup {None, Pass}]
  BY DEF IInv, TypeOK
<1>1. UNCHANGED QuietVars /\ UNCHANGED <<pass, claimed, answers, current>>
  BY DEF Validate, QuietVars, recordVars, passVars, worldVars
<1>2. TypeOK'
  <2>1. reply' \in [Calls -> Replies]
    BY <1>0, Names DEF Validate, Return
  <2>2. pc' \in [Calls -> Labels]
    BY <1>0, Names DEF Validate, Return, Goto
  <2> QED  BY <2>1, <2>2 DEF IInv, TypeOK, Validate, recordVars, passVars, worldVars
<1>3. \A d \in Calls : Moved(d) /\ (pc'[d] = "mark" => ack'[d] = ack[d])
  BY DEF IInv, TypeOK, Validate, Return, Goto, Moved
<1> QED  BY <1>1, <1>2, <1>3, PassUnmoved, QuietStep DEF IInv

\* lockFinality is taken, or the request's deadline sends it to complete.
LEMMA LockFinalityInv ==
  ASSUME IInv, NEW c \in Calls, LockFinality(c)
  PROVE  IInv'
<1>0. /\ pc \in [Calls -> Labels] /\ reply \in [Calls -> Replies]
      /\ lock \in [Calls -> Calls \cup {None, Pass}]
  BY DEF IInv, TypeOK
<1>1. UNCHANGED QuietVars /\ UNCHANGED <<pass, claimed, answers, current>>
  BY DEF LockFinality, QuietVars, recordVars, passVars, worldVars
<1>2. TypeOK'
  <2>1. lock' \in [Calls -> Calls \cup {None, Pass}]
    BY <1>0 DEF LockFinality
  <2>2. fail' \in [Calls -> BOOLEAN]
    BY DEF IInv, TypeOK, LockFinality
  <2>3. pc' \in [Calls -> Labels]
    BY <1>0, Names DEF LockFinality, Goto
  <2> QED  BY <2>1, <2>2, <2>3 DEF IInv, TypeOK, LockFinality, recordVars, passVars, worldVars
<1>3. \A d \in Calls : Moved(d) /\ (pc'[d] = "mark" => ack'[d] = ack[d])
  BY DEF IInv, TypeOK, LockFinality, Goto, Moved
<1> QED  BY <1>1, <1>2, <1>3, PassUnmoved, QuietStep DEF IInv

\* unlockFinality: a status request returns, an owner goes on to complete.
LEMMA UnlockFinalityInv ==
  ASSUME IInv, NEW c \in Calls, UnlockFinality(c)
  PROVE  IInv'
<1>0. /\ pc \in [Calls -> Labels] /\ reply \in [Calls -> Replies]
      /\ lock \in [Calls -> Calls \cup {None, Pass}]
  BY DEF IInv, TypeOK
<1>1. UNCHANGED QuietVars /\ UNCHANGED <<pass, claimed, answers, current>>
  BY DEF UnlockFinality, QuietVars, recordVars, passVars, worldVars
<1>2. TypeOK'
  <2>1. lock' \in [Calls -> Calls \cup {None, Pass}]
    BY <1>0 DEF UnlockFinality
  <2>2. req[c] \in Requests /\ (req[c].kind = "status" => ledger[Tx(c)] # "")
    BY DEF IInv, CallInv, HandlerAt, KnownAt, UnlockFinality
  <2>3. WaitResult(c) \in Replies /\ (req[c].kind = "status" => ledger[Tx(c)] \in Replies)
    BY <2>2, WaitResultType, KnownVerdict DEF IInv
  <2>4. reply' \in [Calls -> Replies]
    BY <1>0, <2>3, Names DEF UnlockFinality, Return
  <2>5. pc' \in [Calls -> Labels]
    BY <1>0, Names DEF UnlockFinality, Return, Goto
  <2> QED  BY <2>1, <2>2, <2>3, <2>4, <2>5 DEF IInv, TypeOK, UnlockFinality, recordVars, passVars, worldVars
<1>3. \A d \in Calls : Moved(d) /\ (pc'[d] = "mark" => ack'[d] = ack[d])
  BY DEF IInv, TypeOK, UnlockFinality, Return, Goto, Moved
<1> QED  BY <1>1, <1>2, <1>3, PassUnmoved, QuietStep DEF IInv

\* refreshObservedFinality takes the lock of a pending receipt, or gives up.
LEMMA RefreshInv ==
  ASSUME IInv, NEW c \in Calls, Refresh(c)
  PROVE  IInv'
<1>0. /\ pc \in [Calls -> Labels] /\ reply \in [Calls -> Replies]
      /\ lock \in [Calls -> Calls \cup {None, Pass}]
  BY DEF IInv, TypeOK
<1>1. UNCHANGED QuietVars /\ UNCHANGED <<pass, claimed, answers, current>>
  BY DEF Refresh, QuietVars, recordVars, passVars, worldVars
<1>2. TypeOK'
  <2>1. lock' \in [Calls -> Calls \cup {None, Pass}]
    BY <1>0 DEF Refresh
  <2>2. req[c] \in Requests /\ ledger[Tx(c)] # ""
    BY DEF IInv, CallInv, HandlerAt, KnownAt, Pointing, Refresh
  <2>3. reply' \in [Calls -> Replies]
    BY <1>0, <2>2, KnownVerdict DEF IInv, Refresh, Return
  <2>4. pc' \in [Calls -> Labels]
    BY <1>0, Names DEF Refresh, Return, Goto
  <2> QED  BY <2>1, <2>2, <2>3, <2>4 DEF IInv, TypeOK, Refresh, recordVars, passVars, worldVars
<1>3. \A d \in Calls : Moved(d) /\ (pc'[d] = "mark" => ack'[d] = ack[d])
  BY DEF IInv, TypeOK, Refresh, Return, Goto, Moved
<1> QED  BY <1>1, <1>2, <1>3, PassUnmoved, QuietStep DEF IInv

\* recordFinality's first half moves the handler only.
LEMMA RecordFinalityInv ==
  ASSUME IInv, NEW c \in Calls, RecordFinality(c)
  PROVE  IInv'
<1>0. /\ pc \in [Calls -> Labels] /\ reply \in [Calls -> Replies]
      /\ lock \in [Calls -> Calls \cup {None, Pass}]
  BY DEF IInv, TypeOK
<1>1. UNCHANGED QuietVars /\ UNCHANGED <<pass, claimed, answers, current>>
  BY DEF RecordFinality, QuietVars, recordVars, passVars, worldVars
<1>2. TypeOK'
  <2>1. initRuns \in [Calls -> Nat]
    BY DEF IInv, TypeOK
  <2>2. initRuns' \in [Calls -> Nat]
    BY <2>1 DEF RecordFinality, AfterCommit
  <2>3. pc' \in [Calls -> Labels]
    BY <1>0, Names DEF RecordFinality, Goto
  <2> QED  BY <2>1, <2>2, <2>3 DEF IInv, TypeOK, RecordFinality, recordVars, passVars, worldVars
<1>3. \A d \in Calls : Moved(d) /\ (pc'[d] = "mark" => ack'[d] = ack[d])
  BY DEF IInv, TypeOK, RecordFinality, Goto, Moved
<1> QED  BY <1>1, <1>2, <1>3, PassUnmoved, QuietStep DEF IInv

\* A woken duplicate moves on; the record is its owner's.
LEMMA ReplayWaitInv ==
  ASSUME IInv, NEW c \in Calls, ReplayWait(c)
  PROVE  IInv'
<1>0. /\ pc \in [Calls -> Labels] /\ reply \in [Calls -> Replies]
      /\ lock \in [Calls -> Calls \cup {None, Pass}]
  BY DEF IInv, TypeOK
<1>1. UNCHANGED QuietVars /\ UNCHANGED <<pass, claimed, answers, current>>
  BY DEF ReplayWait, QuietVars, recordVars, passVars, worldVars
<1>2. TypeOK'
  <2>1. on[c] \in Calls
    BY DEF IInv, CallInv, HandlerAt, KnownAt, Pointing, ReplayWait
  <2>2. WaitResult(on[c]) \in Replies
    BY <2>1, WaitResultType DEF IInv
  <2>3. reply' \in [Calls -> Replies]
    BY <1>0, <2>2 DEF ReplayWait, Return
  <2>4. pc' \in [Calls -> Labels]
    BY <1>0, Names DEF ReplayWait, Return, Goto
  <2> QED  BY <2>1, <2>2, <2>3, <2>4 DEF IInv, TypeOK, ReplayWait, recordVars, passVars, worldVars
<1>3. \A d \in Calls : Moved(d) /\ (pc'[d] = "mark" => ack'[d] = ack[d])
  BY DEF IInv, TypeOK, ReplayWait, Return, Goto, Moved
<1> QED  BY <1>1, <1>2, <1>3, PassUnmoved, QuietStep DEF IInv

\* A duplicate whose deadline passes only reports what it sees.
LEMMA ReplayExpireInv ==
  ASSUME IInv, NEW c \in Calls, ReplayExpire(c)
  PROVE  IInv'
<1>0. /\ pc \in [Calls -> Labels] /\ reply \in [Calls -> Replies]
      /\ lock \in [Calls -> Calls \cup {None, Pass}]
  BY DEF IInv, TypeOK
<1>1. UNCHANGED QuietVars /\ UNCHANGED <<pass, claimed, answers, current>>
  BY DEF ReplayExpire, QuietVars, recordVars, passVars, worldVars
<1>2. TypeOK'
  <2>1. on[c] \in Calls
    BY DEF IInv, CallInv, HandlerAt, KnownAt, Pointing, ReplayExpire
  <2>2. WaitResult(on[c]) \in Replies
    BY <2>1, WaitResultType DEF IInv
  <2>3. reply' \in [Calls -> Replies]
    BY <1>0, <2>2 DEF ReplayExpire, Return
  <2>4. pc' \in [Calls -> Labels]
    BY <1>0, Names DEF ReplayExpire, Return, Goto
  <2> QED  BY <2>1, <2>2, <2>3, <2>4 DEF IInv, TypeOK, ReplayExpire, recordVars, passVars, worldVars
<1>3. \A d \in Calls : Moved(d) /\ (pc'[d] = "mark" => ack'[d] = ack[d])
  BY DEF IInv, TypeOK, ReplayExpire, Return, Goto, Moved
<1> QED  BY <1>1, <1>2, <1>3, PassUnmoved, QuietStep DEF IInv

\* submissionOutcome is read-only.
LEMMA ReplayOutcomeInv ==
  ASSUME IInv, NEW c \in Calls, ReplayOutcome(c)
  PROVE  IInv'
<1>0. /\ pc \in [Calls -> Labels] /\ reply \in [Calls -> Replies]
      /\ lock \in [Calls -> Calls \cup {None, Pass}]
  BY DEF IInv, TypeOK
<1>1. UNCHANGED QuietVars /\ UNCHANGED <<pass, claimed, answers, current>>
  BY DEF ReplayOutcome, QuietVars, recordVars, passVars, worldVars
<1>2. TypeOK'
  <2>1. SubmissionOutcome(on[c]) \in Replies
    BY Names DEF SubmissionOutcome
  <2>2. reply' \in [Calls -> Replies]
    BY <1>0, <2>1 DEF ReplayOutcome, Return
  <2>3. pc' \in [Calls -> Labels]
    BY <1>0, Names DEF ReplayOutcome, Return, Goto
  <2> QED  BY <2>1, <2>2, <2>3 DEF IInv, TypeOK, ReplayOutcome, recordVars, passVars, worldVars
<1>3. \A d \in Calls : Moved(d) /\ (pc'[d] = "mark" => ack'[d] = ack[d])
  BY DEF IInv, TypeOK, ReplayOutcome, Return, Goto, Moved
<1> QED  BY <1>1, <1>2, <1>3, PassUnmoved, QuietStep DEF IInv

\* A duplicate's lock on the receipt changes no record.
LEMMA ReplayLockInv ==
  ASSUME IInv, NEW c \in Calls, ReplayLock(c)
  PROVE  IInv'
<1>0. /\ pc \in [Calls -> Labels] /\ reply \in [Calls -> Replies]
      /\ lock \in [Calls -> Calls \cup {None, Pass}]
  BY DEF IInv, TypeOK
<1>1. UNCHANGED QuietVars /\ UNCHANGED <<pass, claimed, answers, current>>
  BY DEF ReplayLock, QuietVars, recordVars, passVars, worldVars
<1>2. TypeOK'
  <2>1. lock' \in [Calls -> Calls \cup {None, Pass}]
    BY <1>0 DEF ReplayLock
  <2>2. pc' \in [Calls -> Labels]
    BY <1>0, Names DEF ReplayLock, Goto
  <2> QED  BY <2>1, <2>2 DEF IInv, TypeOK, ReplayLock, recordVars, passVars, worldVars
<1>3. \A d \in Calls : Moved(d) /\ (pc'[d] = "mark" => ack'[d] = ack[d])
  BY DEF IInv, TypeOK, ReplayLock, Goto, Moved
<1> QED  BY <1>1, <1>2, <1>3, PassUnmoved, QuietStep DEF IInv

\* A duplicate reads the receipt and gives the lock back.
LEMMA ReplayReadInv ==
  ASSUME IInv, NEW c \in Calls, ReplayRead(c)
  PROVE  IInv'
<1>0. /\ pc \in [Calls -> Labels] /\ reply \in [Calls -> Replies]
      /\ lock \in [Calls -> Calls \cup {None, Pass}]
  BY DEF IInv, TypeOK
<1>1. UNCHANGED QuietVars /\ UNCHANGED <<pass, claimed, answers, current>>
  BY DEF ReplayRead, QuietVars, recordVars, passVars, worldVars
<1>2. TypeOK'
  <2>1. lock' \in [Calls -> Calls \cup {None, Pass}]
    BY <1>0 DEF ReplayRead
  <2>2. on[c] \in Calls
    BY DEF IInv, CallInv, HandlerAt, KnownAt, Pointing, ReplayRead
  <2>3. WaitResult(on[c]) \in Replies
    BY <2>2, WaitResultType DEF IInv
  <2>4. reply' \in [Calls -> Replies]
    BY <1>0, <2>3 DEF ReplayRead, Return
  <2>5. pc' \in [Calls -> Labels]
    BY <1>0, Names DEF ReplayRead, Return, Goto
  <2> QED  BY <2>1, <2>2, <2>3, <2>4, <2>5 DEF IInv, TypeOK, ReplayRead, recordVars, passVars, worldVars
<1>3. \A d \in Calls : Moved(d) /\ (pc'[d] = "mark" => ack'[d] = ack[d])
  BY DEF IInv, TypeOK, ReplayRead, Return, Goto, Moved
<1> QED  BY <1>1, <1>2, <1>3, PassUnmoved, QuietStep DEF IInv

(* Steps that change a record, a pointer or the world: everybody else is   *)
(* framed, and the call that steps is looked at by itself.                 *)
Framed(d) ==
  /\ pc'[d] = pc[d] /\ on'[d] = on[d] /\ req'[d] = req[d]
  /\ state'[d] = state[d] /\ status'[d] = status[d]
  /\ d \in handed' <=> d \in handed
  /\ pc[d] = "mark" => ack'[d] = ack[d]

\* Records stay, requests stay, verdicts stay.
Grows ==
  /\ \A r \in Calls : state[r] # "NONE" => state'[r] # "NONE" /\ req'[r] = req[r]
  /\ \A t \in Txs : ledger[t] # "" => ledger'[t] = ledger[t]

\* A handler that did not move keeps its part of the invariant if records,
\* requests and verdicts only grow around it.
LEMMA FramedCall ==
  ASSUME IInv, NEW d \in Calls, Framed(d), Grows
  PROVE  HandlerAt(d)' /\ KnownAt(d)' /\ RecordAt(d)'
<1>1. HandlerAt(d) /\ KnownAt(d) /\ RecordAt(d)
  BY DEF IInv, CallInv
<1>2. on[d] \in Calls => state'[on[d]] # "NONE" /\ req'[on[d]] = req[on[d]]
  BY <1>1 DEF HandlerAt, Grows
<1>3. HandlerAt(d)'
  BY <1>1, <1>2 DEF HandlerAt, Framed, Tx
<1>4. KnownAt(d)'
  <2>1. pc[d] # "idle" => Tx(d) \in Txs /\ Tx(d)' = Tx(d)
    BY <1>1 DEF HandlerAt, Framed, Tx, Requests
  <2> QED  BY <1>1, <2>1 DEF KnownAt, Framed, Grows
<1>5. RecordAt(d)'
  BY <1>1 DEF RecordAt, Framed
<1> QED  BY <1>3, <1>4, <1>5

\* A record was created by a request, which has a transaction ID.
LEMMA Served ==
  ASSUME IInv, NEW r \in Calls, state[r] # "NONE"
  PROVE  pc[r] # "idle" /\ req[r] \in Requests /\ Tx(r) \in Txs
<1>1. HandlerAt(r)
  BY DEF IInv, CallInv
<1>2. pc[r] # "idle"
  BY <1>1, CallsAssumption DEF HandlerAt, Unreserved
<1> QED  BY <1>1, <1>2 DEF HandlerAt, Tx, Requests

\* The pass's knowledge is kept when records and verdicts only grow.
LEMMA PassKeeps ==
  ASSUME IInv, Grows, UNCHANGED <<claimed, answers, current>>,
         pass' = pass \/ pass' # "confirm"
  PROVE  PassKnows'
<1>1. \A r \in Calls : state[r] # "NONE" => Tx(r) \in Txs /\ Tx(r)' = Tx(r) /\ state'[r] # "NONE"
  BY Served DEF Grows, Tx
<1>2. claimed \subseteq Calls /\ answers \subseteq Calls
  BY DEF IInv, TypeOK
<1> QED  BY <1>1, <1>2 DEF IInv, PassKnows, Grows

\* The store only has existing, unfinished records, under their own ID.
LEMMA Stored ==
  ASSUME IInv, NEW t \in Txs, store[t] # None
  PROVE  /\ store[t] \in Calls /\ state[store[t]] \in Active
         /\ state[store[t]] # "NONE" /\ Tx(store[t]) = t
<1>1. store[t] \in Calls
  BY DEF IInv, TypeOK
<1>2. state[store[t]] \in Active /\ Tx(store[t]) = t
  BY DEF IInv, OneRecordPerTx
<1> QED  BY <1>1, <1>2 DEF Active

\* A call that has not reserved anything has no record.
LEMMA Fresh ==
  ASSUME IInv, NEW c \in Calls, pc[c] \in Unreserved
  PROVE  /\ on[c] = None /\ state[c] = "NONE" /\ c \notin handed /\ status[c] = ""
         /\ pc[c] # "idle" => req[c] \in Requests /\ Tx(c) \in Txs /\ req[c].kind # "status"
<1>1. HandlerAt(c) /\ RecordAt(c)
  BY DEF IInv, CallInv
<1>2. on[c] = None /\ state[c] = "NONE"
  BY <1>1, CallsAssumption DEF HandlerAt
<1>3. c \notin handed /\ status[c] = ""
  BY <1>1, <1>2 DEF RecordAt
<1>4. pc[c] # "idle" => req[c] \in Requests /\ Tx(c) \in Txs /\ req[c].kind # "status"
  BY <1>1 DEF HandlerAt, Tx, Requests, Unreserved
<1> QED  BY <1>2, <1>3, <1>4

\* A request arrives, and may trigger a pass.
LEMMA ArriveInv ==
  ASSUME IInv, NEW c \in Calls, NEW q \in Requests, Arrive(c, q)
  PROVE  IInv'
<1>0. pc \in [Calls -> Labels] /\ req \in [Calls -> Requests \cup {None}]
  BY DEF IInv, TypeOK
<1>1. /\ store' = store /\ state' = state /\ status' = status /\ on' = on
      /\ handed' = handed /\ ledger' = ledger /\ ack' = ack
  BY DEF Arrive, recordVars, worldVars
<1>2. /\ pc[c] = "idle" /\ on[c] = None /\ state[c] = "NONE"
      /\ c \notin handed /\ status[c] = ""
  BY Fresh DEF Arrive, Unreserved
<1>3. /\ req'[c] = q /\ pc'[c] \in {"begin", "existing", "wait"}
      /\ pc'[c] = "wait" <=> q.kind = "status"
  BY <1>0 DEF Arrive, Goto, Requests, Kinds
<1>4. \A d \in Calls : d # c => Framed(d)
  BY <1>0, <1>1 DEF Arrive, Goto, Framed
<1>5. Grows
  BY <1>0, <1>1, <1>2 DEF Grows, Arrive
<1>6. HandlerAt(c)' /\ KnownAt(c)' /\ RecordAt(c)'
  BY <1>1, <1>2, <1>3, CallsAssumption DEF HandlerAt, KnownAt, RecordAt, Unreserved, Owning, Pointing
<1>7. CallInv'
  BY <1>4, <1>5, <1>6, FramedCall DEF CallInv
<1>8. PassKnows'
  <2>1. UNCHANGED <<claimed, answers, current>> /\ (pass' = pass \/ pass' # "confirm")
    BY DEF Arrive, TriggerReconciliation, passVars
  <2> QED  BY <1>5, <2>1, PassKeeps
<1>9. OneRecordPerTx'
  <2>1. \A t \in Txs : store[t] # None => store[t] # c /\ store[t] \in Calls
    BY <1>2, Stored
  <2>2. \A r \in Calls : r # c => Tx(r)' = Tx(r)
    BY <1>0 DEF Arrive, Tx
  <2> QED  BY <1>1, <1>2, <2>1, <2>2 DEF OneRecordPerTx, IInv, Active
<1>10. TypeOK'
  <2>1. pc' \in [Calls -> Labels] /\ req' \in [Calls -> Requests \cup {None}]
    BY <1>0, <1>3, Names DEF Arrive, Goto, Kinds, Requests
  <2>2. pass' \in PassLabels /\ eligible' \subseteq Calls
    BY DEF IInv, TypeOK, Arrive, TriggerReconciliation, passVars, PassLabels
  <2>3. UNCHANGED <<todo, claimed, answers, current>>
    BY DEF Arrive, TriggerReconciliation, passVars
  <2> QED  BY <2>1, <2>2, <2>3 DEF IInv, TypeOK, Arrive, recordVars, worldVars
<1> QED  BY <1>7, <1>8, <1>9, <1>10 DEF IInv

\* existing: a retry of Submit is found before anything is validated.
LEMMA ExistingInv ==
  ASSUME IInv, NEW c \in Calls, Existing(c)
  PROVE  IInv'
<1>0. /\ pc \in [Calls -> Labels] /\ on \in [Calls -> Calls \cup {None}]
      /\ reply \in [Calls -> Replies]
  BY DEF IInv, TypeOK
<1>1. /\ store' = store /\ state' = state /\ status' = status /\ req' = req
      /\ handed' = handed /\ ledger' = ledger /\ ack' = ack
  BY DEF Existing, recordVars, worldVars
<1>2. /\ pc[c] = "existing" /\ on[c] = None /\ state[c] = "NONE" /\ req[c] \in Requests
      /\ c \notin handed /\ status[c] = "" /\ Tx(c) \in Txs /\ req[c].kind # "status"
  BY Fresh DEF Existing, Unreserved
<1>3. \/ on'[c] = None /\ pc'[c] \in {"validate", "done"}
      \/ /\ on'[c] = store[Tx(c)] /\ store[Tx(c)] # None /\ pc'[c] = "replay"
  BY <1>0, <1>2 DEF Existing, Return, Goto
<1>4. on'[c] # None => on'[c] \in Calls /\ state[on'[c]] # "NONE" /\ Tx(on'[c]) = Tx(c)
  BY <1>2, <1>3, Stored
<1>5. \A d \in Calls : d # c => Framed(d)
  BY <1>0, <1>1 DEF Existing, Return, Goto, Framed
<1>6. Grows
  BY <1>1 DEF Grows
<1>7. HandlerAt(c)' /\ KnownAt(c)' /\ RecordAt(c)'
  BY <1>1, <1>2, <1>3, <1>4, CallsAssumption
  DEF HandlerAt, KnownAt, RecordAt, Unreserved, Owning, Pointing, Tx
<1>8. CallInv'
  BY <1>5, <1>6, <1>7, FramedCall DEF CallInv
<1>9. PassKnows'
  BY <1>6, PassKeeps DEF Existing, passVars
<1>10. OneRecordPerTx'
  BY <1>1 DEF OneRecordPerTx, IInv, Tx
<1>11. TypeOK'
  <2>1. pc' \in [Calls -> Labels] /\ reply' \in [Calls -> Replies]
    BY <1>0, Names DEF Existing, Return, Goto
  <2>2. on' \in [Calls -> Calls \cup {None}]
    BY <1>0, <1>2, Stored DEF Existing
  <2> QED  BY <2>1, <2>2 DEF IInv, TypeOK, Existing, recordVars, passVars, worldVars
<1> QED  BY <1>8, <1>9, <1>10, <1>11 DEF IInv

\* begin: the one step that creates a record and reserves its ID.
LEMMA BeginInv ==
  ASSUME IInv, NEW c \in Calls, Begin(c)
  PROVE  IInv'
<1>0. /\ pc \in [Calls -> Labels] /\ on \in [Calls -> Calls \cup {None}]
      /\ reply \in [Calls -> Replies] /\ state \in [Calls -> States]
      /\ store \in [Txs -> Calls \cup {None}]
  BY DEF IInv, TypeOK
<1>1. /\ status' = status /\ req' = req /\ handed' = handed /\ ledger' = ledger
      /\ ack' = ack
  BY DEF Begin, worldVars
<1>2. /\ pc[c] = "begin" /\ on[c] = None /\ state[c] = "NONE" /\ req[c] \in Requests
      /\ c \notin handed /\ status[c] = "" /\ Tx(c) \in Txs /\ req[c].kind # "status"
  BY Fresh DEF Begin, Unreserved
<1>3. \/ /\ store[Tx(c)] = None /\ on'[c] = c /\ state'[c] = "IN_PROGRESS"
         /\ pc'[c] \in {"endorse", "markExecuted"}
         /\ store' = [store EXCEPT ![Tx(c)] = c]
      \/ on'[c] = None /\ pc'[c] = "done" /\ state' = state /\ store' = store
      \/ /\ on'[c] = store[Tx(c)] /\ store[Tx(c)] # None /\ pc'[c] = "replay"
         /\ state' = state /\ store' = store
  BY <1>0, <1>2 DEF Begin, Return, Goto
<1>4. store[Tx(c)] # None =>
        store[Tx(c)] \in Calls /\ state[store[Tx(c)]] # "NONE" /\ Tx(store[Tx(c)]) = Tx(c)
  BY <1>2, Stored
<1>5. \A d \in Calls : d # c => Framed(d)
  BY <1>0, <1>1 DEF Begin, Return, Goto, Framed
<1>6. \A d \in Calls : d # c => state'[d] = state[d]
  BY <1>5 DEF Framed
<1>7. Grows
  BY <1>1, <1>2, <1>6 DEF Grows
<1>8. HandlerAt(c)' /\ KnownAt(c)' /\ RecordAt(c)'
  <2>1. on'[c] \in Calls => state'[on'[c]] # "NONE" /\ Tx(on'[c]) = Tx(c)
    BY <1>3, <1>4, <1>2, CallsAssumption
  <2>2. state'[c] = "NONE" <=> on'[c] # c
    BY <1>2, <1>3, <1>4, CallsAssumption
  <2>3. HandlerAt(c)'
    BY <1>1, <1>2, <1>3, <1>4, <2>1, <2>2, CallsAssumption
    DEF HandlerAt, Unreserved, Owning, Pointing, Tx
  <2> QED  BY <1>1, <1>2, <1>3, <2>3 DEF KnownAt, RecordAt
<1>9. CallInv'
  BY <1>5, <1>7, <1>8, FramedCall DEF CallInv
<1>10. PassKnows'
  BY <1>7, PassKeeps DEF Begin, passVars
<1>11. OneRecordPerTx'
  <2>1. CASE store' = store /\ state' = state
    BY <1>1, <2>1 DEF OneRecordPerTx, IInv, Tx
  <2>2. CASE /\ store[Tx(c)] = None /\ state'[c] = "IN_PROGRESS"
             /\ store' = [store EXCEPT ![Tx(c)] = c]
    <3>1. \A t \in Txs : store'[t] = IF t = Tx(c) THEN c ELSE store[t]
      BY <1>0, <2>2
    <3>2. \A r \in Calls : Tx(r)' = Tx(r)
      BY <1>1 DEF Tx
    <3>3. \A t \in Txs : store[t] # None => store[t] \in Calls /\ store[t] # c
             /\ state[store[t]] \in Active /\ Tx(store[t]) = t
      BY <1>2, Stored
    <3>4. \A r \in Calls : state[r] \in Active => store[Tx(r)] = r /\ r # c /\ Tx(r) \in Txs
      BY <1>2, Served DEF IInv, OneRecordPerTx, Active
    <3>5. \A t \in Txs : store'[t] # None =>
             state'[store'[t]] \in Active /\ Tx(store[t])' = t
      <4>1. SUFFICES ASSUME NEW t \in Txs, store'[t] # None
                     PROVE  state'[store'[t]] \in Active /\ Tx(store[t])' = t
        OBVIOUS
      <4>2. CASE t = Tx(c)
        BY <1>1, <2>2, <3>1, <4>2 DEF Active, Tx
      <4>3. CASE t # Tx(c)
        BY <1>1, <1>6, <3>1, <3>3, <4>1, <4>3 DEF Tx
      <4> QED  BY <4>2, <4>3
    <3>6. \A r \in Calls : state'[r] \in Active => store'[Tx(r)'] = r
      <4>1. SUFFICES ASSUME NEW r \in Calls, state'[r] \in Active
                     PROVE  store'[Tx(r)'] = r
        OBVIOUS
      <4>2. CASE r = c
        BY <1>2, <3>1, <3>2, <4>2
      <4>3. CASE r # c
        <5>1. Tx(r) \in Txs /\ store[Tx(r)] = r
          BY <1>6, <3>4, <4>1, <4>3
        <5> QED  BY <2>2, <3>1, <3>2, <5>1, CallsAssumption
      <4> QED  BY <4>2, <4>3
    <3> QED  BY <3>5, <3>6 DEF OneRecordPerTx, Tx
  <2> QED  BY <1>3, <2>1, <2>2
<1>12. TypeOK'
  <2>1. pc' \in [Calls -> Labels] /\ reply' \in [Calls -> Replies]
    BY <1>0, Names DEF Begin, Return, Goto
  <2>2. on' \in [Calls -> Calls \cup {None}]
    BY <1>0, <1>2, Stored DEF Begin
  <2>3. state' \in [Calls -> States] /\ store' \in [Txs -> Calls \cup {None}]
    BY <1>0, <1>2 DEF Begin, States, Active
  <2> QED  BY <2>1, <2>2, <2>3 DEF IInv, TypeOK, Begin, passVars, worldVars
<1> QED  BY <1>9, <1>10, <1>11, <1>12 DEF IInv

\* If no record starts or finishes, the store stays right.
LEMMA StillStored ==
  ASSUME IInv, store' = store, req' = req,
         \A r \in Calls : state'[r] \in Active <=> state[r] \in Active
  PROVE  OneRecordPerTx'
<1>1. \A t \in Txs : store[t] # None => store[t] \in Calls
  BY DEF IInv, TypeOK
<1> QED  BY <1>1 DEF IInv, OneRecordPerTx, Tx

\* remove frees exactly the record's own ID.
LEMMA RemovedStored ==
  ASSUME IInv, NEW r \in Calls, state[r] \in Active, Remove(r), req' = req,
         state'[r] \in Terminal, \A d \in Calls : d # r => state'[d] = state[d]
  PROVE  OneRecordPerTx' /\ store' \in [Txs -> Calls \cup {None}]
<1>0. store \in [Txs -> Calls \cup {None}]
  BY DEF IInv, TypeOK
<1>1. state[r] # "NONE" /\ Tx(r) \in Txs
  BY Served DEF Active
<1>2. store[Tx(r)] = r /\ \A d \in Calls : state[d] \in Active => store[Tx(d)] = d
  BY DEF IInv, OneRecordPerTx
<1>3. \A t \in Txs : store'[t] = IF t = Tx(r) THEN None ELSE store[t]
  BY <1>0, <1>1, <1>2 DEF Remove
<1>4. \A d \in Calls : Tx(d)' = Tx(d)
  BY DEF Tx
<1>5. ASSUME NEW t \in Txs, store'[t] # None
      PROVE  state'[store'[t]] \in Active /\ Tx(store[t])' = t
  <2>1. t # Tx(r) /\ store'[t] = store[t]
    BY <1>3, <1>5
  <2>2. store[t] \in Calls /\ state[store[t]] \in Active /\ Tx(store[t]) = t
    BY <1>5, <2>1, Stored
  <2> QED  BY <1>2, <2>1, <2>2 DEF Tx
<1>6. ASSUME NEW d \in Calls, state'[d] \in Active
      PROVE  store'[Tx(d)'] = d
  <2>1. d # r /\ state[d] \in Active
    BY <1>6 DEF Active, Terminal
  <2>2. Tx(d) \in Txs /\ store[Tx(d)] = d
    BY <1>2, <2>1, Served DEF Active
  <2> QED  BY <1>2, <1>3, <1>4, <2>1, <2>2
<1>7. OneRecordPerTx'
  BY <1>5, <1>6 DEF OneRecordPerTx, Tx
<1>8. store' \in [Txs -> Calls \cup {None}]
  BY <1>0 DEF Remove
<1> QED  BY <1>7, <1>8

\* endorseInvocation advances the record or fails.
LEMMA EndorseInv ==
  ASSUME IInv, NEW c \in Calls, Endorse(c)
  PROVE  IInv'
<1>0. /\ pc \in [Calls -> Labels] /\ state \in [Calls -> States]
      /\ fail \in [Calls -> BOOLEAN]
  BY DEF IInv, TypeOK
<1>1. /\ store' = store /\ status' = status /\ req' = req /\ on' = on
      /\ handed' = handed /\ ledger' = ledger /\ ack' = ack
  BY DEF Endorse, worldVars
<1>2. pc[c] = "endorse" /\ HandlerAt(c) /\ KnownAt(c) /\ RecordAt(c)
  BY DEF Endorse, IInv, CallInv
<1>3. state[c] = "IN_PROGRESS" /\ on[c] = c
  BY <1>2 DEF HandlerAt, RecordAt, Owning
<1>4. \/ state'[c] = "EXECUTED" /\ pc'[c] \in {"lock", "complete"}
      \/ state'[c] = "IN_PROGRESS" /\ pc'[c] = "complete"
  BY <1>0, <1>3 DEF Endorse, Goto
<1>5. \A d \in Calls : d # c => Framed(d)
  BY <1>0, <1>1 DEF Endorse, Goto, Framed
<1>6. \A d \in Calls : d # c => state'[d] = state[d]
  BY <1>5 DEF Framed
<1>7. Grows
  BY <1>1, <1>4, <1>6 DEF Grows
<1>8. HandlerAt(c)' /\ KnownAt(c)' /\ RecordAt(c)'
  BY <1>1, <1>2, <1>3, <1>4 DEF HandlerAt, KnownAt, RecordAt, Unreserved, Owning, Pointing, Tx
<1>9. CallInv'
  BY <1>5, <1>7, <1>8, FramedCall DEF CallInv
<1>10. PassKnows'
  BY <1>7, PassKeeps DEF Endorse, passVars
<1>11. OneRecordPerTx'
  BY <1>1, <1>3, <1>4, <1>6, StillStored DEF Active
<1>12. TypeOK'
  <2>1. state' \in [Calls -> States] /\ fail' \in [Calls -> BOOLEAN]
    BY <1>0 DEF Endorse, States, Active
  <2>2. pc' \in [Calls -> Labels]
    BY <1>0, Names DEF Endorse, Goto
  <2> QED  BY <2>1, <2>2 DEF IInv, TypeOK, Endorse, passVars, worldVars
<1> QED  BY <1>9, <1>10, <1>11, <1>12 DEF IInv

\* markExecuted advances the record of Submit.
LEMMA MarkExecutedInv ==
  ASSUME IInv, NEW c \in Calls, MarkExecuted(c)
  PROVE  IInv'
<1>0. pc \in [Calls -> Labels] /\ state \in [Calls -> States]
  BY DEF IInv, TypeOK
<1>1. /\ store' = store /\ status' = status /\ req' = req /\ on' = on
      /\ handed' = handed /\ ledger' = ledger /\ ack' = ack
  BY DEF MarkExecuted, worldVars
<1>2. pc[c] = "markExecuted" /\ HandlerAt(c) /\ KnownAt(c) /\ RecordAt(c)
  BY DEF MarkExecuted, IInv, CallInv
<1>3. state[c] = "IN_PROGRESS" /\ on[c] = c
  BY <1>2 DEF HandlerAt, RecordAt, Owning
<1>4. state'[c] = "EXECUTED" /\ pc'[c] = "send"
  BY <1>0 DEF MarkExecuted, Goto
<1>5. \A d \in Calls : d # c => Framed(d)
  BY <1>0, <1>1 DEF MarkExecuted, Goto, Framed
<1>6. \A d \in Calls : d # c => state'[d] = state[d]
  BY <1>5 DEF Framed
<1>7. Grows
  BY <1>1, <1>4, <1>6 DEF Grows
<1>8. HandlerAt(c)' /\ KnownAt(c)' /\ RecordAt(c)'
  BY <1>1, <1>2, <1>3, <1>4 DEF HandlerAt, KnownAt, RecordAt, Unreserved, Owning, Pointing, Tx
<1>9. CallInv'
  BY <1>5, <1>7, <1>8, FramedCall DEF CallInv
<1>10. PassKnows'
  BY <1>7, PassKeeps DEF MarkExecuted, passVars
<1>11. OneRecordPerTx'
  BY <1>1, <1>3, <1>4, <1>6, StillStored DEF Active
<1>12. TypeOK'
  <2>1. state' \in [Calls -> States] /\ pc' \in [Calls -> Labels]
    BY <1>0, Names DEF MarkExecuted, Goto, States, Active
  <2> QED  BY <2>1 DEF IInv, TypeOK, MarkExecuted, passVars, worldVars
<1> QED  BY <1>9, <1>10, <1>11, <1>12 DEF IInv

\* submitter.Submit: from here the envelope may be with ordering.
LEMMA SendInv ==
  ASSUME IInv, NEW c \in Calls, Send(c)
  PROVE  IInv'
<1>0. /\ pc \in [Calls -> Labels] /\ ack \in [Calls -> Acks]
      /\ handed \subseteq Calls /\ delivered \subseteq Txs
  BY DEF IInv, TypeOK
<1>1. /\ store' = store /\ state' = state /\ status' = status /\ req' = req
      /\ on' = on /\ ledger' = ledger
  BY DEF Send, recordVars
<1>2. pc[c] = "send" /\ HandlerAt(c) /\ KnownAt(c) /\ RecordAt(c)
  BY DEF Send, IInv, CallInv
<1>3. state[c] = "EXECUTED" /\ on[c] = c /\ c \notin handed
  BY <1>2 DEF HandlerAt, RecordAt, Owning
<1>4. /\ pc'[c] = "mark"
      /\ ack'[c] # "none"
      /\ c \in handed' <=> ack'[c] \in {"ok", "uncertain"}
  BY <1>0, <1>3 DEF Send, Goto
<1>5. \A d \in Calls : d # c => Framed(d)
  BY <1>0, <1>1 DEF Send, Goto, Framed
<1>6. Grows
  BY <1>1 DEF Grows
<1>7. HandlerAt(c)' /\ KnownAt(c)' /\ RecordAt(c)'
  BY <1>1, <1>2, <1>3, <1>4 DEF HandlerAt, KnownAt, RecordAt, Unreserved, Owning, Pointing, Tx
<1>8. CallInv'
  BY <1>5, <1>6, <1>7, FramedCall DEF CallInv
<1>9. PassKnows'
  BY <1>6, PassKeeps DEF Send, passVars
<1>10. OneRecordPerTx'
  BY <1>1, StillStored
<1>11. TypeOK'
  <2>1. pc' \in [Calls -> Labels] /\ ack' \in [Calls -> Acks]
    BY <1>0, Names DEF Send, Goto, Acks
  <2>2. handed' \subseteq Calls
    BY <1>0 DEF Send
  <2>3. Tx(c) \in Txs
    BY <1>3, Served
  <2>4. delivered' \subseteq Txs
    BY <1>0, <2>3 DEF Send
  <2> QED  BY <2>1, <2>2, <2>4 DEF IInv, TypeOK, Send, recordVars, passVars
<1> QED  BY <1>8, <1>9, <1>10, <1>11 DEF IInv

\* markSubmission: an accepted or uncertain send becomes a receipt.
LEMMA MarkSubmissionInv ==
  ASSUME IInv, NEW c \in Calls, MarkSubmission(c)
  PROVE  IInv'
<1>0. /\ pc \in [Calls -> Labels] /\ state \in [Calls -> States]
      /\ fail \in [Calls -> BOOLEAN] /\ submitted \in [Calls -> BOOLEAN]
      /\ recErr \in [Calls -> BOOLEAN] /\ ack[c] \in Acks
  BY DEF IInv, TypeOK
<1>1. /\ store' = store /\ status' = status /\ req' = req /\ on' = on
      /\ handed' = handed /\ ledger' = ledger /\ ack' = ack
  BY DEF MarkSubmission, worldVars
<1>2. pc[c] = "mark" /\ HandlerAt(c) /\ KnownAt(c) /\ RecordAt(c)
  BY DEF MarkSubmission, IInv, CallInv
<1>3. /\ state[c] = "EXECUTED" /\ on[c] = c /\ req[c] \in Requests
      /\ ack[c] # "none" /\ req[c].kind # "status"
      /\ c \in handed <=> ack[c] \in {"ok", "uncertain"}
  BY <1>2 DEF HandlerAt, RecordAt, Owning
<1>4. /\ state'[c] = "SUBMITTED" <=> ack[c] # "failed"
      /\ ack[c] = "failed" => state'[c] = "EXECUTED"
  BY <1>0, <1>3 DEF MarkSubmission, CertainFailure, Awake, Terminal
<1>4a. \/ pc'[c] = "complete"
       \/ pc'[c] = "wait" /\ req[c].kind = "invoke"
       \/ pc'[c] = "unlock" /\ req[c].kind # "submit"
  BY <1>0 DEF MarkSubmission, Goto
<1>4b. req[c].kind \in Kinds
  BY <1>3 DEF Requests
<1>5. \A d \in Calls : d # c => Framed(d)
  BY <1>0, <1>1 DEF MarkSubmission, Goto, Framed
<1>6. \A d \in Calls : d # c => state'[d] = state[d]
  BY <1>5 DEF Framed
<1>7. Grows
  BY <1>1, <1>3, <1>4, <1>6 DEF Grows
<1>8. HandlerAt(c)' /\ KnownAt(c)' /\ RecordAt(c)'
  BY <1>0, <1>1, <1>2, <1>3, <1>4, <1>4a, <1>4b DEF Acks, Kinds, HandlerAt, KnownAt, RecordAt, Unreserved, Owning, Pointing, Tx
<1>9. CallInv'
  BY <1>5, <1>7, <1>8, FramedCall DEF CallInv
<1>10. PassKnows'
  BY <1>7, PassKeeps DEF MarkSubmission, passVars
<1>11. OneRecordPerTx'
  BY <1>1, <1>3, <1>4, <1>6, StillStored DEF Active
<1>12. TypeOK'
  <2>1. state' \in [Calls -> States] /\ fail' \in [Calls -> BOOLEAN]
    BY <1>0 DEF MarkSubmission, States, Active
  <2>2. submitted' \in [Calls -> BOOLEAN] /\ recErr' \in [Calls -> BOOLEAN]
    BY <1>0 DEF MarkSubmission
  <2>3. pc' \in [Calls -> Labels]
    BY <1>0, Names DEF MarkSubmission, Goto
  <2> QED  BY <2>1, <2>2, <2>3 DEF IInv, TypeOK, MarkSubmission, passVars, worldVars
<1> QED  BY <1>9, <1>10, <1>11, <1>12 DEF IInv

\* The owner's finality wait and CommitStatus: only known statuses go on.
LEMMA WaitFinalityInv ==
  ASSUME IInv, NEW c \in Calls, WaitFinality(c)
  PROVE  IInv'
<1>0. /\ pc \in [Calls -> Labels] /\ on \in [Calls -> Calls \cup {None}]
      /\ reply \in [Calls -> Replies]
  BY DEF IInv, TypeOK
<1>1. /\ store' = store /\ state' = state /\ status' = status /\ req' = req
      /\ handed' = handed /\ ledger' = ledger /\ ack' = ack
      /\ UNCHANGED <<pass, claimed, answers, current>>
  BY DEF WaitFinality, recordVars, passVars, worldVars
<1>2. /\ pc[c] = "wait" /\ HandlerAt(c) /\ KnownAt(c) /\ RecordAt(c)
  BY DEF WaitFinality, IInv, CallInv
<1>3. /\ req[c] \in Requests /\ Tx(c) \in Txs
      /\ IF req[c].kind = "status" THEN on[c] = None ELSE req[c].kind = "invoke" /\ on[c] = c
  BY <1>2 DEF HandlerAt, Tx, Requests
<1>4. \/ on' = on /\ pc'[c] \in {"unlock", "record"} /\ req[c].kind = "invoke"
         /\ (pc'[c] = "record" => ledger[Tx(c)] # "")
      \/ on' = on /\ pc'[c] = "done"
      \/ /\ req[c].kind = "status" /\ on'[c] = store[Tx(c)] /\ store[Tx(c)] # None
         /\ pc'[c] = "refresh" /\ ledger[Tx(c)] # ""
  BY <1>0, <1>3 DEF WaitFinality, Notified, Return, Goto
<1>5. store[Tx(c)] # None => store[Tx(c)] \in Calls /\ state[store[Tx(c)]] # "NONE"
                              /\ Tx(store[Tx(c)]) = Tx(c)
  BY <1>3, Stored
<1>6. \A d \in Calls : d # c => Framed(d)
  BY <1>0, <1>1 DEF WaitFinality, Return, Goto, Framed
<1>7. Grows
  BY <1>1 DEF Grows
<1>8. HandlerAt(c)' /\ KnownAt(c)' /\ RecordAt(c)'
  <2>1. CASE on' = on
    BY <1>1, <1>2, <1>3, <1>4, <2>1, CallsAssumption
    DEF HandlerAt, KnownAt, RecordAt, Unreserved, Owning, Pointing, Tx
  <2>2. CASE /\ req[c].kind = "status" /\ on'[c] = store[Tx(c)] /\ store[Tx(c)] # None
             /\ pc'[c] = "refresh" /\ ledger[Tx(c)] # ""
    <3>1. state[c] = "NONE" /\ c \notin handed /\ status[c] = ""
      BY <1>2, <1>3, <2>2, CallsAssumption DEF HandlerAt, RecordAt
    <3>2. on'[c] \in Calls /\ state[on'[c]] # "NONE" /\ Tx(on'[c]) = Tx(c) /\ on'[c] # c
      BY <1>5, <2>2, <3>1
    <3>3. HandlerAt(c)'
      BY <1>1, <1>3, <2>2, <3>1, <3>2 DEF HandlerAt, Unreserved, Owning, Pointing, Tx
    <3> QED  BY <1>1, <2>2, <3>1, <3>3 DEF KnownAt, RecordAt, Tx
  <2> QED  BY <1>4, <2>1, <2>2
<1>9. CallInv'
  BY <1>6, <1>7, <1>8, FramedCall DEF CallInv
<1>10. PassKnows'
  BY <1>1, <1>7, PassKeeps
<1>11. OneRecordPerTx'
  BY <1>1, StillStored
<1>12. TypeOK'
  <2>1. pc' \in [Calls -> Labels]
    BY <1>0, Names DEF WaitFinality, Return, Goto
  <2>2. on' \in [Calls -> Calls \cup {None}]
    BY <1>0, <1>5 DEF WaitFinality
  <2>3. ledger[Tx(c)] # "" => ledger[Tx(c)] \in Replies
    BY <1>3, KnownVerdict DEF IInv
  <2>4. reply' \in [Calls -> Replies]
    BY <1>0, <2>3, Names DEF WaitFinality, Return
  <2> QED  BY <2>1, <2>2, <2>4 DEF IInv, TypeOK, WaitFinality, recordVars, passVars, worldVars
<1> QED  BY <1>9, <1>10, <1>11, <1>12 DEF IInv

\* complete finishes a record only if nothing was handed to ordering.
LEMMA CompleteInv ==
  ASSUME IInv, NEW c \in Calls, Complete(c)
  PROVE  IInv'
<1>0. /\ pc \in [Calls -> Labels] /\ state \in [Calls -> States]
      /\ reply \in [Calls -> Replies] /\ recErr \in [Calls -> BOOLEAN]
      /\ fail[c] \in BOOLEAN
  BY DEF IInv, TypeOK
<1>1. /\ status' = status /\ req' = req /\ on' = on
      /\ handed' = handed /\ ledger' = ledger /\ ack' = ack
      /\ UNCHANGED <<pass, claimed, answers, current>>
  BY DEF Complete, passVars, worldVars
<1>2. pc[c] = "complete" /\ HandlerAt(c) /\ KnownAt(c) /\ RecordAt(c)
  BY DEF Complete, IInv, CallInv
<1>3. on[c] = c /\ state[c] # "NONE"
  BY <1>2 DEF HandlerAt, Owning
<1>4. \/ state' = state /\ store' = store
      \/ /\ state[c] \in {"IN_PROGRESS", "EXECUTED"}
         /\ state'[c] \in {"FAILED", "COMPLETED"}
         /\ Remove(c)
  BY <1>0, <1>3 DEF Complete, Awake, Terminal, States, Active
<1>5. pc'[c] = "done"
  BY <1>0 DEF Complete, Return, Goto
<1>6. \A d \in Calls : d # c => Framed(d)
  BY <1>0, <1>1 DEF Complete, Return, Goto, Framed
<1>7. \A d \in Calls : d # c => state'[d] = state[d]
  BY <1>6 DEF Framed
<1>8. state'[c] # "NONE"
  BY <1>3, <1>4
<1>9. Grows
  BY <1>1, <1>7, <1>8 DEF Grows
<1>10. HandlerAt(c)' /\ KnownAt(c)' /\ RecordAt(c)'
  BY <1>1, <1>2, <1>3, <1>4, <1>5, <1>8
  DEF HandlerAt, KnownAt, RecordAt, Unreserved, Owning, Pointing, Tx
<1>11. CallInv'
  BY <1>6, <1>9, <1>10, FramedCall DEF CallInv
<1>12. PassKnows'
  BY <1>1, <1>9, PassKeeps
<1>13. OneRecordPerTx' /\ store' \in [Txs -> Calls \cup {None}]
  <2>1. CASE state' = state /\ store' = store
    BY <1>1, <2>1, StillStored DEF IInv, TypeOK
  <2>2. CASE /\ state[c] \in {"IN_PROGRESS", "EXECUTED"}
             /\ state'[c] \in {"FAILED", "COMPLETED"} /\ Remove(c)
    BY <1>1, <1>7, <2>2, RemovedStored DEF Active, Terminal
  <2> QED  BY <1>4, <2>1, <2>2
<1>14. TypeOK'
  <2>1. state' \in [Calls -> States] /\ recErr' \in [Calls -> BOOLEAN]
    BY <1>0 DEF Complete, States, Terminal
  <2>2. pc' \in [Calls -> Labels] /\ reply' \in [Calls -> Replies]
    BY <1>0, Names DEF Complete, Return, Goto
  <2> QED  BY <1>13, <2>1, <2>2 DEF IInv, TypeOK, Complete, passVars, worldVars
<1> QED  BY <1>11, <1>12, <1>13, <1>14 DEF IInv

(* confirmFinality, whoever calls it.                                      *)
LEMMA Settles ==
  ASSUME IInv, NEW r \in Calls, state[r] # "NONE", ledger[Tx(r)] # "",
         ConfirmFinality(r), UNCHANGED <<req, on, handed, ledger, ack>>,
         \A d \in Calls : Moved(d)
  PROVE  /\ CallInv' /\ OneRecordPerTx' /\ Grows
         /\ store' \in [Txs -> Calls \cup {None}] /\ state' \in [Calls -> States]
         /\ status' \in [Calls -> Verdicts \cup {""}] /\ event' \in [Calls -> BOOLEAN]
         /\ recErr' \in [Calls -> BOOLEAN] /\ submitted' = submitted
<1>0. /\ store \in [Txs -> Calls \cup {None}] /\ state \in [Calls -> States]
      /\ status \in [Calls -> Verdicts \cup {""}] /\ event \in [Calls -> BOOLEAN]
      /\ recErr \in [Calls -> BOOLEAN] /\ ledger \in [Txs -> Verdicts \cup {""}]
  BY DEF IInv, TypeOK
<1>1. Tx(r) \in Txs /\ ledger[Tx(r)] \in Verdicts
  BY <1>0, Served
<1>2. CASE Pending(r)
  <2>1. /\ state' = [state EXCEPT ![r] = "COMPLETED"]
        /\ status' = [status EXCEPT ![r] = ledger[Tx(r)]]
        /\ Remove(r) /\ submitted' = submitted
        /\ event' = [event EXCEPT ![r] = ledger[Tx(r)] = "COMMITTED"]
        /\ \E err \in BOOLEAN : recErr' = [recErr EXCEPT ![r] = err]
    BY <1>2 DEF ConfirmFinality
  <2>2. /\ state[r] = "SUBMITTED" /\ state'[r] = "COMPLETED"
        /\ \A d \in Calls : d # r => state'[d] = state[d] /\ status'[d] = status[d]
        /\ status'[r] # ""
    BY <1>0, <1>2, <2>1 DEF Pending
  <2>3. OneRecordPerTx' /\ store' \in [Txs -> Calls \cup {None}]
    BY <2>1, <2>2, RemovedStored DEF Active, Terminal
  <2>4. Grows
    BY <2>2 DEF Grows
  <2>5. ASSUME NEW d \in Calls PROVE HandlerAt(d)' /\ KnownAt(d)' /\ RecordAt(d)'
    <3>1. HandlerAt(d) /\ KnownAt(d) /\ RecordAt(d) /\ Moved(d)
      BY DEF IInv, CallInv
    <3>2. on[d] \in Calls => state'[on[d]] # "NONE"
      BY <2>2, <3>1 DEF HandlerAt
    <3>3. state'[d] = "NONE" <=> state[d] = "NONE"
      BY <2>2
    <3>4. HandlerAt(d)'
      BY <3>1, <3>2, <3>3 DEF HandlerAt, Moved, Unreserved, Owning, Pointing, Tx
    <3>5. KnownAt(d)'
      BY <3>1 DEF HandlerAt, KnownAt, Moved, Tx
    <3>6. RecordAt(d)'
      <4>1. CASE d = r
        BY <2>2, <3>1, <4>1 DEF RecordAt, Moved
      <4>2. CASE d # r
        BY <2>2, <3>1, <4>2 DEF RecordAt, Moved
      <4> QED  BY <4>1, <4>2
    <3> QED  BY <3>4, <3>5, <3>6
  <2>6. state' \in [Calls -> States]
    BY <1>0, <2>1 DEF States, Terminal
  <2>7. /\ status' \in [Calls -> Verdicts \cup {""}] /\ event' \in [Calls -> BOOLEAN]
        /\ recErr' \in [Calls -> BOOLEAN]
    BY <1>0, <1>1, <2>1
  <2> QED  BY <2>1, <2>3, <2>4, <2>5, <2>6, <2>7 DEF CallInv
<1>3. CASE ~Pending(r)
  <2>1. UNCHANGED recordVars
    BY <1>3 DEF ConfirmFinality
  <2>2. /\ store' = store /\ state' = state /\ submitted' = submitted
        /\ status' = status /\ event' = event /\ recErr' = recErr
    BY <2>1 DEF recordVars
  <2>3. OneRecordPerTx' /\ Grows
    BY <2>2, StillStored DEF Grows
  <2>4. ASSUME NEW d \in Calls PROVE HandlerAt(d)' /\ KnownAt(d)' /\ RecordAt(d)'
    <3>1. HandlerAt(d) /\ KnownAt(d) /\ RecordAt(d) /\ Moved(d)
      BY DEF IInv, CallInv
    <3>2. HandlerAt(d)'
      BY <2>2, <3>1 DEF HandlerAt, Moved, Unreserved, Owning, Pointing, Tx
    <3>3. KnownAt(d)'
      BY <3>1 DEF HandlerAt, KnownAt, Moved, Tx
    <3>4. RecordAt(d)'
      BY <2>2, <3>1 DEF RecordAt, Moved
    <3> QED  BY <3>2, <3>3, <3>4
  <2> QED  BY <1>0, <2>2, <2>3, <2>4 DEF CallInv
<1> QED  BY <1>2, <1>3

\* A handler applies the observed status.
LEMMA ConfirmInv ==
  ASSUME IInv, NEW c \in Calls, Confirm(c)
  PROVE  IInv'
<1>0. pc \in [Calls -> Labels]
  BY DEF IInv, TypeOK
<1>1. /\ UNCHANGED <<req, on, handed, ledger, ack>>
      /\ UNCHANGED <<pass, claimed, answers, current>>
  BY DEF Confirm, passVars, worldVars
<1>2. /\ on[c] \in Calls /\ state[on[c]] # "NONE" /\ ledger[Tx(on[c])] # ""
  BY DEF Confirm, IInv, CallInv, HandlerAt, KnownAt, Pointing
<1>3. \A d \in Calls : Moved(d)
  BY <1>0 DEF Confirm, Goto, Moved
<1>4. /\ CallInv' /\ OneRecordPerTx' /\ Grows
      /\ store' \in [Txs -> Calls \cup {None}] /\ state' \in [Calls -> States]
      /\ status' \in [Calls -> Verdicts \cup {""}] /\ event' \in [Calls -> BOOLEAN]
      /\ recErr' \in [Calls -> BOOLEAN] /\ submitted' = submitted
  BY <1>1, <1>2, <1>3, Settles DEF Confirm
<1>5. PassKnows'
  BY <1>1, <1>4, PassKeeps
<1>6. TypeOK'
  <2>1. pc' \in [Calls -> Labels]
    BY <1>0, Names DEF Confirm, Goto
  <2> QED  BY <1>4, <2>1 DEF IInv, TypeOK, Confirm, passVars, worldVars
<1> QED  BY <1>4, <1>5, <1>6 DEF IInv

\* The pass applies the observed status.
LEMMA PassConfirmInv ==
  ASSUME IInv, PassConfirm
  PROVE  IInv'
<1>1. /\ UNCHANGED <<req, on, handed, ledger, ack>> /\ pc' = pc
      /\ claimed' = claimed /\ answers' = answers
  BY DEF PassConfirm, callVars, worldVars
<1>2. /\ pass = "confirm" /\ current \in Calls /\ state[current] # "NONE"
      /\ ledger[Tx(current)] # ""
  BY DEF PassConfirm, IInv, PassKnows
<1>3. \A d \in Calls : Moved(d)
  BY <1>1 DEF Moved
<1>4. /\ CallInv' /\ OneRecordPerTx' /\ Grows
      /\ store' \in [Txs -> Calls \cup {None}] /\ state' \in [Calls -> States]
      /\ status' \in [Calls -> Verdicts \cup {""}] /\ event' \in [Calls -> BOOLEAN]
      /\ recErr' \in [Calls -> BOOLEAN] /\ submitted' = submitted
  BY <1>1, <1>2, <1>3, Settles DEF PassConfirm
<1>5. PassKnows'
  <2>1. \A r \in Calls : state[r] # "NONE" => Tx(r) \in Txs /\ Tx(r)' = Tx(r) /\ state'[r] # "NONE"
    BY <1>4, Served DEF Grows, Tx
  <2>2. claimed \subseteq Calls /\ answers \subseteq Calls /\ pass' = "apply"
    BY DEF IInv, TypeOK, PassConfirm
  <2> QED  BY <1>1, <2>1, <2>2 DEF IInv, PassKnows
<1>6. TypeOK'
  <2>1. pass' \in PassLabels /\ current' \in Calls \cup {None}
    BY DEF PassConfirm, PassLabels
  <2> QED  BY <1>4, <2>1 DEF IInv, TypeOK, PassConfirm, callVars, worldVars
<1> QED  BY <1>4, <1>5, <1>6 DEF IInv

\* The ledger decides a transaction: nothing of the orchestrator moves.
LEMMA FinalizeInv ==
  ASSUME IInv, NEW t \in Txs, Finalize(t)
  PROVE  IInv'
<1>0. ledger \in [Txs -> Verdicts \cup {""}]
  BY DEF IInv, TypeOK
<1>1. /\ store' = store /\ state' = state /\ status' = status /\ req' = req
      /\ on' = on /\ handed' = handed /\ pc' = pc /\ ack' = ack
      /\ UNCHANGED <<pass, claimed, answers, current>>
  BY DEF Finalize, recordVars, callVars, passVars
<1>2. \A u \in Txs : ledger[u] # "" => ledger'[u] = ledger[u]
  BY <1>0 DEF Finalize
<1>3. Grows
  BY <1>1, <1>2 DEF Grows
<1>4. \A d \in Calls : Framed(d)
  BY <1>1 DEF Framed
<1>5. CallInv'
  BY <1>3, <1>4, FramedCall DEF CallInv
<1>6. PassKnows'
  BY <1>1, <1>3, PassKeeps
<1>7. OneRecordPerTx'
  BY <1>1, StillStored
<1>8. TypeOK'
  <2>1. ledger' \in [Txs -> Verdicts \cup {""}]
    BY <1>0 DEF Finalize
  <2> QED  BY <2>1 DEF IInv, TypeOK, Finalize, recordVars, callVars, passVars
<1> QED  BY <1>5, <1>6, <1>7, <1>8 DEF IInv

\* A step of the pass that leaves the records and the handlers alone only has
\* to keep its own sets right.
LEMMA PassMoves ==
  ASSUME IInv, UNCHANGED recordVars, UNCHANGED callVars, UNCHANGED worldVars,
         TypeOK', PassKnows'
  PROVE  IInv'
<1>1. UNCHANGED QuietVars /\ pc' = pc /\ ack' = ack
  BY DEF QuietVars, recordVars, callVars, worldVars
<1>2. \A d \in Calls : Moved(d) /\ (pc'[d] = "mark" => ack'[d] = ack[d])
  BY <1>1 DEF Moved
<1> QED  BY <1>1, <1>2, QuietStep

\* A finished pass holds nothing.
LEMMA PassEnds ==
  ASSUME PassEnd
  PROVE  /\ PassKnows'
         /\ pass' \in PassLabels /\ eligible' \subseteq Calls /\ todo' \subseteq Calls
         /\ claimed' \subseteq Calls /\ answers' \subseteq Calls
         /\ current' \in Calls \cup {None}
<1>1. pass' = "idle" /\ claimed' = {} /\ answers' = {}
  BY DEF PassEnd
<1>2. PassKnows'
  BY <1>1 DEF PassKnows
<1> QED  BY <1>2 DEF PassEnd, PassLabels

\* unlockFinality for every claimed record.
LEMMA UnclaimType ==
  ASSUME IInv, Unclaim
  PROVE  lock' \in [Calls -> Calls \cup {None, Pass}]
<1>1. lock \in [Calls -> Calls \cup {None, Pass}]
  BY DEF IInv, TypeOK
<1> QED  BY <1>1 DEF Unclaim

\* pendingRecordsBefore only chooses records.
LEMMA PassCollectInv ==
  ASSUME IInv, PassCollect
  PROVE  IInv'
<1>1. UNCHANGED <<recordVars, lock, callVars, service, worldVars, initRuns>>
  BY DEF PassCollect
<1>2. /\ eligible \subseteq Calls /\ claimed \subseteq Calls /\ answers \subseteq Calls
      /\ current \in Calls \cup {None}
  BY DEF IInv, TypeOK
<1>3. \/ PassEnd
      \/ /\ pass' = "claim" /\ todo' \subseteq eligible
         /\ UNCHANGED <<eligible, claimed, answers, current>>
  BY DEF PassCollect, Batches
<1>4. CASE PassEnd
  <2>1. TypeOK'
    BY <1>1, <1>4, PassEnds DEF IInv, TypeOK, recordVars, callVars, worldVars
  <2> QED  BY <1>1, <1>4, <2>1, PassEnds, PassMoves
<1>5. CASE /\ pass' = "claim" /\ todo' \subseteq eligible
           /\ UNCHANGED <<eligible, claimed, answers, current>>
  <2>1. TypeOK'
    BY <1>1, <1>2, <1>5 DEF IInv, TypeOK, PassLabels, recordVars, callVars, worldVars
  <2>2. PassKnows'
    BY <1>1, <1>5 DEF IInv, PassKnows, recordVars, callVars, worldVars, Tx
  <2> QED  BY <1>1, <2>1, <2>2, PassMoves
<1> QED  BY <1>3, <1>4, <1>5

\* tryLockFinality claims pending records only.
LEMMA PassClaimInv ==
  ASSUME IInv, NEW r \in Calls, PassClaim(r)
  PROVE  IInv'
<1>1. UNCHANGED <<recordVars, callVars, pass, eligible, answers, current,
                  service, worldVars, initRuns>>
  BY DEF PassClaim
<1>2. /\ todo \subseteq Calls /\ claimed \subseteq Calls
      /\ lock \in [Calls -> Calls \cup {None, Pass}]
  BY DEF IInv, TypeOK
<1>3. /\ todo' \subseteq Calls /\ claimed' \subseteq Calls
      /\ lock' \in [Calls -> Calls \cup {None, Pass}]
  BY <1>2 DEF PassClaim
<1>4. \A q \in claimed' : q \in claimed \/ state[q] = "SUBMITTED"
  BY DEF PassClaim, Claimable, Pending
<1>5. TypeOK'
  BY <1>1, <1>3 DEF IInv, TypeOK, recordVars, callVars, worldVars
<1>6. PassKnows'
  BY <1>1, <1>4 DEF IInv, PassKnows, recordVars, callVars, worldVars, Tx
<1> QED  BY <1>1, <1>5, <1>6, PassMoves

\* The answers kept are claimed records with a final status.
LEMMA PassQueryInv ==
  ASSUME IInv, PassQuery
  PROVE  IInv'
<1>1. UNCHANGED <<recordVars, lock, callVars, eligible, todo, claimed, current,
                  service, worldVars, initRuns>>
  BY DEF PassQuery
<1>2. claimed \subseteq Calls /\ pass' = "apply"
      /\ answers' = {r \in claimed : ledger[Tx(r)] # ""}
  BY DEF PassQuery, FinalAnswers, IInv, TypeOK
<1>3. TypeOK'
  BY <1>1, <1>2 DEF IInv, TypeOK, PassLabels, recordVars, callVars, worldVars
<1>4. PassKnows'
  BY <1>1, <1>2 DEF IInv, PassKnows, recordVars, callVars, worldVars, Tx
<1> QED  BY <1>1, <1>3, <1>4, PassMoves

\* A failed query, or the end of a batch, releases every claim.
LEMMA PassGiveUpInv ==
  ASSUME IInv, PassGiveUp \/ PassRelease
  PROVE  IInv'
<1>1. /\ UNCHANGED <<recordVars, callVars, service, worldVars, initRuns>>
      /\ PassEnd /\ Unclaim
  BY DEF PassGiveUp, PassRelease
<1>2. TypeOK'
  BY <1>1, PassEnds, UnclaimType DEF IInv, TypeOK, recordVars, callVars, worldVars
<1> QED  BY <1>1, <1>2, PassEnds, PassMoves

\* The pass picks an answered record to finalize.
LEMMA PassRecordInv ==
  ASSUME IInv, NEW r \in Calls, PassRecord(r)
  PROVE  IInv'
<1>1. /\ UNCHANGED <<recordVars, lock, callVars, eligible, todo, claimed,
                     service, worldVars>>
      /\ r \in answers /\ answers' = answers \ {r} /\ pass = "apply"
      /\ \/ pass' = "confirm" /\ current' = r
         \/ UNCHANGED <<pass, current>>
      /\ AfterCommit(r) \/ UNCHANGED initRuns
  BY DEF PassRecord
<1>2. /\ answers \subseteq Calls /\ initRuns \in [Calls -> Nat]
      /\ pass \in PassLabels /\ current \in Calls \cup {None}
  BY DEF IInv, TypeOK
<1>3. initRuns' \in [Calls -> Nat]
  BY <1>1, <1>2 DEF AfterCommit
<1>4. pass' \in PassLabels /\ current' \in Calls \cup {None} /\ answers' \subseteq Calls
  BY <1>1, <1>2 DEF PassLabels
<1>5. TypeOK'
  BY <1>1, <1>3, <1>4 DEF IInv, TypeOK, recordVars, callVars, worldVars
<1>6. PassKnows'
  BY <1>1, <1>2 DEF IInv, PassKnows, recordVars, callVars, worldVars, Tx
<1> QED  BY <1>1, <1>5, <1>6, PassMoves

\* Another request may start a pass.
LEMMA OtherTrafficInv ==
  ASSUME IInv, OtherTraffic
  PROVE  IInv'
<1>1. /\ UNCHANGED <<recordVars, lock, callVars, service, worldVars, initRuns>>
      /\ pass' = "collect" /\ eligible' \subseteq Calls
      /\ UNCHANGED <<todo, claimed, answers, current>>
  BY DEF OtherTraffic, TriggerReconciliation
<1>2. TypeOK'
  BY <1>1 DEF IInv, TypeOK, PassLabels, recordVars, callVars, worldVars
<1>3. PassKnows'
  BY <1>1 DEF IInv, PassKnows, recordVars, callVars, worldVars, Tx
<1> QED  BY <1>1, <1>2, <1>3, PassMoves

\* Close moves the service only.
LEMMA StopReconciliationInv ==
  ASSUME IInv, StopReconciliation
  PROVE  IInv'
<1>1. UNCHANGED <<recordVars, lock, callVars, passVars, worldVars, initRuns>>
  BY DEF StopReconciliation
<1>2. service' \in {"running", "closing", "closed"}
  BY DEF StopReconciliation
<1>3. TypeOK'
  BY <1>1, <1>2 DEF IInv, TypeOK, recordVars, callVars, passVars, worldVars
<1>4. PassKnows'
  BY <1>1 DEF IInv, PassKnows, recordVars, callVars, passVars, worldVars, Tx
<1> QED  BY <1>1, <1>3, <1>4, PassMoves

\* The empty store satisfies the invariant.
LEMMA InitInv == Init => IInv
<1> SUFFICES ASSUME Init PROVE IInv
  OBVIOUS
<1>1. TypeOK
  BY DEF Init, TypeOK, States, Labels, PassLabels, Acks, Replies
<1>2. CallInv
  BY CallsAssumption
  DEF Init, CallInv, HandlerAt, KnownAt, RecordAt, Unreserved, Owning, Pointing
<1>3. PassKnows
  BY DEF Init, PassKnows
<1>4. OneRecordPerTx
  BY DEF Init, OneRecordPerTx, Active
<1> QED  BY <1>1, <1>2, <1>3, <1>4 DEF IInv

\* So does a step in which nothing happens.
LEMMA StutterInv ==
  ASSUME IInv, UNCHANGED vars
  PROVE  IInv'
<1>1. UNCHANGED <<recordVars, lock, callVars, passVars, service, worldVars, initRuns>>
  BY DEF vars
<1>2. TypeOK'
  BY <1>1 DEF IInv, TypeOK, recordVars, callVars, passVars, worldVars
<1>3. PassKnows'
  BY <1>1 DEF IInv, PassKnows, recordVars, callVars, passVars, worldVars, Tx
<1> QED  BY <1>1, <1>2, <1>3, PassMoves

\* The inductive step: every action keeps the invariant.
LEMMA NextInv == IInv /\ [Next]_vars => IInv'
<1> SUFFICES ASSUME IInv, [Next]_vars PROVE IInv'
  OBVIOUS
<1>1. ASSUME NEW c \in Calls, NEW r \in Requests, Arrive(c, r) PROVE IInv'
  BY <1>1, ArriveInv
<1>2. ASSUME NEW c \in Calls, OwnerStep(c) PROVE IInv'
  BY <1>2, ExistingInv, ValidateInv, BeginInv, EndorseInv, MarkExecutedInv,
     LockFinalityInv, SendInv, MarkSubmissionInv, WaitFinalityInv, RefreshInv,
     RecordFinalityInv, ConfirmInv, UnlockFinalityInv, CompleteInv DEF OwnerStep
<1>3. ASSUME NEW c \in Calls, ReplayStep(c) \/ ReplayExpire(c) PROVE IInv'
  BY <1>3, ReplayWaitInv, ReplayOutcomeInv, ReplayLockInv, ReplayReadInv,
     ReplayExpireInv DEF ReplayStep
<1>4. ASSUME PassStep PROVE IInv'
  BY <1>4, PassCollectInv, PassQueryInv, PassGiveUpInv, PassConfirmInv,
     PassClaimInv, PassRecordInv DEF PassStep
<1>5. CASE OtherTraffic \/ StopReconciliation
  BY <1>5, OtherTrafficInv, StopReconciliationInv
<1>6. ASSUME NEW t \in Txs, Finalize(t) PROVE IInv'
  BY <1>6, FinalizeInv
<1>7. CASE UNCHANGED vars
  BY <1>7, StutterInv
<1> QED  BY <1>1, <1>2, <1>3, <1>4, <1>5, <1>6, <1>7 DEF Next

-----------------------------------------------------------------------------
\* Every reachable state satisfies the inductive invariant: handlers, records
\* and the pass stay in step whatever the interleaving.
THEOREM Invariance == Spec => []IInv
BY InitInv, NextInv, PTL DEF Spec

\* Type correctness for any sets of requests, transactions and payloads.
THEOREM TypeCorrect == Spec => []TypeOK
<1>1. IInv => TypeOK
  BY DEF IInv
<1> QED  BY <1>1, Invariance, PTL

\* idempotencyStore.records holds exactly the unfinished records under their
\* own keys: begin and remove never leave two, or evict a successor.
THEOREM RecordsUnique == Spec => []OneRecordPerTx
<1>1. IInv => OneRecordPerTx
  BY DEF IInv
<1> QED  BY <1>1, Invariance, PTL

\* An envelope that may have reached ordering keeps its transaction ID
\* reserved until a final status was observed, so no retry sends it again.
THEOREM NoResend == Spec => []NoResendWhileUnknown
<1>1. IInv => NoResendWhileUnknown
  <2> SUFFICES ASSUME IInv, NEW r \in handed, status[r] = "" PROVE store[Tx(r)] = r
    BY DEF NoResendWhileUnknown
  <2>1. r \in Calls /\ state[r] \in States
    BY DEF IInv, TypeOK
  <2>2. state[r] \notin {"NONE", "FAILED", "COMPLETED"}
    BY <2>1 DEF IInv, CallInv, RecordAt
  <2>3. state[r] \in Active
    BY <2>1, <2>2 DEF States, Active, Terminal
  <2> QED  BY <2>1, <2>3 DEF IInv, OneRecordPerTx
<1> QED  BY <1>1, Invariance, PTL

\* One step that takes a record out of SUBMITTED is a confirmFinality with the
\* status the ledger gave its transaction.
LEMMA StepSettles ==
  ASSUME IInv, [Next]_vars, NEW r \in Calls, Pending(r), ~Pending(r)'
  PROVE  state'[r] = "COMPLETED" /\ status'[r] = ledger[Tx(r)] /\ status'[r] # ""
<1>0. /\ state \in [Calls -> States] /\ status \in [Calls -> Verdicts \cup {""}]
      /\ state[r] = "SUBMITTED" /\ state'[r] # "SUBMITTED"
  BY DEF IInv, TypeOK, Pending
<1>1. RecordAt(r) /\ HandlerAt(r)
  BY DEF IInv, CallInv
<1>2. ASSUME NEW q \in Calls, ConfirmFinality(q), ledger[Tx(q)] # ""
      PROVE  state'[r] = "COMPLETED" /\ status'[r] = ledger[Tx(r)] /\ status'[r] # ""
  <2>1. Pending(q) /\ q = r
    BY <1>0, <1>2 DEF ConfirmFinality, recordVars
  <2> QED  BY <1>0, <1>2, <2>1 DEF ConfirmFinality
<1>3. ASSUME NEW c \in Calls, Confirm(c)
      PROVE  state'[r] = "COMPLETED" /\ status'[r] = ledger[Tx(r)] /\ status'[r] # ""
  <2>1. on[c] \in Calls /\ ledger[Tx(on[c])] # ""
    BY <1>3 DEF Confirm, IInv, CallInv, HandlerAt, KnownAt, Pointing
  <2> QED  BY <1>2, <1>3, <2>1 DEF Confirm
<1>4. ASSUME PassConfirm
      PROVE  state'[r] = "COMPLETED" /\ status'[r] = ledger[Tx(r)] /\ status'[r] # ""
  <2>1. current \in Calls /\ ledger[Tx(current)] # ""
    BY <1>4 DEF PassConfirm, IInv, PassKnows
  <2> QED  BY <1>2, <1>4, <2>1 DEF PassConfirm
<1>5. ASSUME NEW c \in Calls,
             Begin(c) \/ Endorse(c) \/ MarkExecuted(c) \/ MarkSubmission(c) \/ Complete(c)
      PROVE  FALSE
  <2>1. HandlerAt(c) /\ RecordAt(c)
    BY DEF IInv, CallInv
  <2>2. CASE Begin(c)
    <3>1. state[c] = "NONE"
      BY <2>2, Fresh DEF Begin, Unreserved
    <3> QED  BY <1>0, <2>2, <3>1 DEF Begin
  <2>3. CASE Endorse(c) \/ MarkExecuted(c)
    BY <1>0, <2>1, <2>3 DEF Endorse, MarkExecuted, RecordAt
  <2>4. CASE MarkSubmission(c)
    BY <1>0, <2>4 DEF MarkSubmission
  <2>5. CASE Complete(c)
    BY <1>0, <2>5 DEF Complete, Awake
  <2> QED  BY <1>5, <2>2, <2>3, <2>4, <2>5
<1>6. ASSUME state' = state PROVE FALSE
  BY <1>0, <1>6
<1>7. ASSUME NEW c \in Calls, OwnerStep(c)
      PROVE  \/ Confirm(c) \/ state' = state
             \/ Begin(c) \/ Endorse(c) \/ MarkExecuted(c) \/ MarkSubmission(c) \/ Complete(c)
  BY <1>7 DEF OwnerStep, Existing, Validate, LockFinality, Send, WaitFinality,
              Refresh, RecordFinality, UnlockFinality, recordVars
<1>8. ASSUME NEW c \in Calls, ReplayStep(c) \/ ReplayExpire(c) PROVE state' = state
  BY <1>8 DEF ReplayStep, ReplayWait, ReplayExpire, ReplayOutcome, ReplayLock,
              ReplayRead, recordVars
<1>9. ASSUME PassStep PROVE PassConfirm \/ state' = state
  BY <1>9 DEF PassStep, PassCollect, PassQuery, PassGiveUp, PassRelease,
              PassClaim, PassRecord, recordVars
<1>10. ASSUME NEW c \in Calls, NEW q \in Requests, Arrive(c, q) PROVE state' = state
  BY <1>10 DEF Arrive, recordVars
<1>11. ASSUME NEW t \in Txs, Finalize(t) PROVE state' = state
  BY <1>11 DEF Finalize, recordVars
<1>12. OtherTraffic \/ StopReconciliation \/ UNCHANGED vars => state' = state
  BY DEF OtherTraffic, StopReconciliation, vars, recordVars
<1> QED
  BY <1>3, <1>4, <1>5, <1>6, <1>7, <1>8, <1>9, <1>10, <1>11, <1>12 DEF Next

\* A receipt leaves SUBMITTED only for COMPLETED, with the ledger's verdict:
\* deadlines, lost acknowledgments and deferred cleanups never move it.
THEOREM ReceiptsSettledByLedger == Spec => SettledByLedgerOnly
<1>1. IInv /\ [Next]_vars =>
        [\A r \in Calls : Pending(r) /\ ~Pending(r)' =>
           /\ state'[r] = "COMPLETED"
           /\ status'[r] = ledger[Tx(r)]
           /\ status'[r] # ""]_vars
  BY StepSettles
<1> QED  BY <1>1, Invariance, PTL DEF Spec, SettledByLedgerOnly
(***************************************************************************)
(* The finality lock.  The three theorems at the end need more than the    *)
(* record states: who may call afterCommit for a record and apply its      *)
(* status is whoever holds its lock.                                       *)
(***************************************************************************)

\* The call owns the finality lock of the record it points to.
Holding(c) ==
  \/ pc[c] \in {"record", "confirm", "unlock", "reread"}
  \/ pc[c] \in {"send", "mark", "wait"} /\ req[c].kind = "invoke"

\* The labels that only one kind of request reaches.
KindAt(c) ==
  /\ pc[c] \in {"endorse", "lock"} => req[c].kind = "invoke"
  /\ pc[c] = "markExecuted" => req[c].kind = "submit"

\* The pass holds the locks it claimed and nothing between two passes.
PassLocks ==
  /\ \A r \in claimed : lock[r] = Pass
  /\ answers \subseteq claimed
  /\ pass = "confirm" => current \in claimed
  /\ pass \in {"idle", "collect"} => claimed = {}
  /\ service = "closed" => pass = "idle"

Locks ==
  /\ \A c \in Calls : KindAt(c) /\ (Holding(c) => lock[on[c]] = c)
  /\ PassLocks

\* A holder points to a record.
LEMMA HolderPoints ==
  ASSUME IInv, NEW c \in Calls, Holding(c)
  PROVE  on[c] \in Calls /\ (on[c] = c \/ pc[c] \in Pointing)
BY DEF IInv, CallInv, HandlerAt, Holding, Owning, Pointing

\* A step in which nobody takes or gives back a lock.
Unlocked(d) ==
  /\ KindAt(d)'
  /\ Holding(d)' => Holding(d) /\ on'[d] = on[d]

LEMMA LocksKept ==
  ASSUME Locks, lock' = lock, UNCHANGED <<claimed, answers, current, service>>,
         pass' = pass \/ (pass = "idle" /\ pass' = "collect" /\ service # "closed"),
         \A d \in Calls : Unlocked(d)
  PROVE  Locks'
<1>1. PassLocks'
  BY DEF Locks, PassLocks
<1>2. \A d \in Calls : KindAt(d)' /\ (Holding(d)' => lock'[on'[d]] = d)
  BY DEF Locks, Unlocked
<1>. QED  BY <1>1, <1>2 DEF Locks

\* A handler that stays where it is.
LEMMA StaysUnlocked ==
  ASSUME Locks, NEW d \in Calls, pc'[d] = pc[d], req'[d] = req[d], on'[d] = on[d]
  PROVE  Unlocked(d)
BY DEF Locks, Unlocked, KindAt, Holding

\* The handlers' steps that leave every lock alone.
LEMMA OwnerKeepsLocks ==
  ASSUME IInv, Locks, NEW c \in Calls,
         \/ Existing(c) \/ Validate(c) \/ Begin(c) \/ Endorse(c) \/ MarkExecuted(c)
         \/ Send(c) \/ MarkSubmission(c) \/ WaitFinality(c) \/ RecordFinality(c)
         \/ Confirm(c) \/ Complete(c)
  PROVE  Locks'
<1>0. pc \in [Calls -> Labels] /\ on \in [Calls -> Calls \cup {None}]
  BY DEF IInv, TypeOK
<1>1. HandlerAt(c) /\ KindAt(c)
  BY DEF IInv, CallInv, Locks
<1>2. /\ lock' = lock /\ req' = req
      /\ UNCHANGED passVars /\ service' = service
  BY DEF Existing, Validate, Begin, Endorse, MarkExecuted, Send, MarkSubmission,
         WaitFinality, RecordFinality, Confirm, Complete
<1>3. \A d \in Calls : d # c => pc'[d] = pc[d] /\ on'[d] = on[d]
  BY <1>0 DEF Existing, Validate, Begin, Endorse, MarkExecuted, Send, MarkSubmission,
         WaitFinality, RecordFinality, Confirm, Complete, Goto, Return
<1>4. Unlocked(c)
  <2>1. CASE Existing(c) \/ Validate(c) \/ Begin(c)
    BY <1>0, <1>1, <1>2, <2>1 DEF Existing, Validate, Begin, Goto, Return, Unlocked,
       KindAt, Holding, HandlerAt, Requests, Kinds
  <2>2. CASE Endorse(c) \/ MarkExecuted(c)
    BY <1>0, <1>1, <1>2, <2>2 DEF Endorse, MarkExecuted, Goto, Unlocked, KindAt, Holding
  <2>3. CASE Send(c) \/ MarkSubmission(c)
    BY <1>0, <1>1, <1>2, <2>3 DEF Send, MarkSubmission, Goto, Unlocked, KindAt, Holding,
       HandlerAt, Owning, Requests, Kinds
  <2>4. CASE WaitFinality(c)
    BY <1>0, <1>1, <1>2, <2>4 DEF WaitFinality, Goto, Return, Unlocked, KindAt, Holding
  <2>5. CASE RecordFinality(c) \/ Confirm(c) \/ Complete(c)
    BY <1>0, <1>1, <1>2, <2>5 DEF RecordFinality, Confirm, Complete, Goto, Return,
       Unlocked, KindAt, Holding
  <2>. QED  BY <2>1, <2>2, <2>3, <2>4, <2>5
<1>5. \A d \in Calls : Unlocked(d)
  BY <1>2, <1>3, <1>4, StaysUnlocked
<1>6. pass' = pass /\ UNCHANGED <<claimed, answers, current, service>>
  BY <1>2 DEF passVars
<1>. QED  BY <1>2, <1>5, <1>6, LocksKept

\* A duplicate that waits, reports or expires holds nothing before and after.
LEMMA ReplayKeepsLocks ==
  ASSUME IInv, Locks, NEW c \in Calls,
         ReplayWait(c) \/ ReplayExpire(c) \/ ReplayOutcome(c)
  PROVE  Locks'
<1>0. pc \in [Calls -> Labels]
  BY DEF IInv, TypeOK
<1>2. /\ lock' = lock /\ req' = req /\ on' = on
      /\ UNCHANGED passVars /\ service' = service
  BY DEF ReplayWait, ReplayExpire, ReplayOutcome
<1>3. \A d \in Calls : d # c => pc'[d] = pc[d]
  BY <1>0 DEF ReplayWait, ReplayExpire, ReplayOutcome, Goto, Return
<1>4. pc'[c] \in {"outcome", "relock", "done"}
  BY <1>0 DEF ReplayWait, ReplayExpire, ReplayOutcome, Goto, Return
<1>5. \A d \in Calls : Unlocked(d)
  <2>1. Unlocked(c)
    BY <1>4 DEF Unlocked, KindAt, Holding
  <2>. QED  BY <1>2, <1>3, <2>1, StaysUnlocked
<1>6. pass' = pass /\ UNCHANGED <<claimed, answers, current, service>>
  BY <1>2 DEF passVars
<1>. QED  BY <1>2, <1>5, <1>6, LocksKept

\* Requests arrive with no lock, verdicts come without one, and Close waits
\* for the pass.
LEMMA WorldKeepsLocks ==
  ASSUME IInv, Locks,
         \/ \E c \in Calls : \E r \in Requests : Arrive(c, r)
         \/ OtherTraffic \/ StopReconciliation \/ UNCHANGED vars
         \/ \E t \in Txs : Finalize(t)
  PROVE  Locks'
<1>1. ASSUME NEW c \in Calls, NEW r \in Requests, Arrive(c, r) PROVE Locks'
  <2>0. pc \in [Calls -> Labels] /\ req \in [Calls -> Requests \cup {None}]
    BY DEF IInv, TypeOK
  <2>1. /\ lock' = lock /\ on' = on /\ UNCHANGED <<claimed, answers, current, service>>
        /\ pass' = pass \/ (pass = "idle" /\ pass' = "collect" /\ service # "closed")
    BY <1>1 DEF Arrive, TriggerReconciliation, passVars
  <2>2. \A d \in Calls : d # c => pc'[d] = pc[d] /\ req'[d] = req[d]
    BY <1>1, <2>0 DEF Arrive, Goto
  <2>3. req'[c] = r /\ pc'[c] \in {"begin", "existing", "wait"}
        /\ (pc'[c] = "wait" => r.kind = "status")
    BY <1>1, <2>0 DEF Arrive, Goto, Requests, Kinds
  <2>4. \A d \in Calls : Unlocked(d)
    <3>1. Unlocked(c)
      BY <2>3 DEF Unlocked, KindAt, Holding
    <3>. QED  BY <2>1, <2>2, <3>1, StaysUnlocked
  <2>. QED  BY <2>1, <2>4, LocksKept
<1>2. CASE OtherTraffic \/ UNCHANGED vars \/ \E t \in Txs : Finalize(t)
  <2>1. /\ lock' = lock /\ UNCHANGED callVars
        /\ UNCHANGED <<claimed, answers, current, service>>
        /\ pass' = pass \/ (pass = "idle" /\ pass' = "collect" /\ service # "closed")
    BY <1>2 DEF OtherTraffic, TriggerReconciliation, passVars, vars, Finalize
  <2>2. \A d \in Calls : Unlocked(d)
    BY <2>1, StaysUnlocked DEF callVars
  <2>. QED  BY <2>1, <2>2, LocksKept
<1>3. CASE StopReconciliation
  <2>1. /\ lock' = lock /\ UNCHANGED callVars
        /\ UNCHANGED <<pass, claimed, answers, current>>
        /\ service' = "closed" => pass = "idle"
    BY <1>3 DEF StopReconciliation, passVars
  <2>2. PassLocks'
    BY <2>1 DEF Locks, PassLocks
  <2>3. \A d \in Calls : Unlocked(d)
    BY <2>1, StaysUnlocked DEF callVars
  <2>. QED  BY <2>1, <2>2, <2>3 DEF Locks, Unlocked
<1>. QED  BY <1>1, <1>2, <1>3

\* A handler takes the free lock of the record it points to, or none.
LEMMA TakesLock ==
  ASSUME IInv, Locks, NEW c \in Calls, LockFinality(c) \/ Refresh(c) \/ ReplayLock(c)
  PROVE  Locks'
<1>0. /\ pc \in [Calls -> Labels] /\ on \in [Calls -> Calls \cup {None}]
      /\ lock \in [Calls -> Calls \cup {None, Pass}]
  BY DEF IInv, TypeOK
<1>1. HandlerAt(c) /\ KindAt(c)
  BY DEF IInv, CallInv, Locks
<1>2. /\ req' = req /\ on' = on /\ UNCHANGED passVars /\ service' = service
  BY DEF LockFinality, Refresh, ReplayLock
<1>3. \A d \in Calls : d # c => pc'[d] = pc[d]
  BY <1>0 DEF LockFinality, Refresh, ReplayLock, Goto, Return
<1>4. on[c] \in Calls
  BY <1>1 DEF LockFinality, Refresh, ReplayLock, HandlerAt, Owning, Pointing
<1>5. \/ lock' = lock /\ pc'[c] \in {"complete", "done"}
      \/ /\ lock[on[c]] = None /\ lock' = [lock EXCEPT ![on[c]] = c]
         /\ pc'[c] \in {"send", "record", "reread"}
  BY <1>0, <1>1 DEF LockFinality, Refresh, ReplayLock, Goto, Return, HandlerAt, Owning
<1>6. \A d \in Calls : d # c => KindAt(d)' /\ (Holding(d)' => Holding(d))
  BY <1>2, <1>3 DEF Locks, KindAt, Holding
<1>7. KindAt(c)'
  BY <1>5 DEF KindAt
<1>8. \A r \in Calls : lock[r] # None => lock'[r] = lock[r]
  BY <1>0, <1>5
<1>9. Holding(c)' => lock'[on[c]] = c
  BY <1>0, <1>4, <1>5 DEF Holding
<1>10. \A d \in Calls : d # c /\ Holding(d)' => lock'[on[d]] = d
  <2>1. \A d \in Calls : Holding(d) => on[d] \in Calls /\ lock[on[d]] = d /\ d # None
    BY HolderPoints, CallsAssumption DEF Locks
  <2>. QED  BY <1>6, <1>8, <2>1
<1>11. PassLocks'
  <2>1. \A r \in claimed : lock'[r] = Pass
    BY <1>8, CallsAssumption DEF Locks, PassLocks, IInv, TypeOK
  <2>. QED  BY <1>2, <2>1 DEF Locks, PassLocks, passVars
<1>. QED  BY <1>2, <1>6, <1>7, <1>9, <1>10, <1>11 DEF Locks

\* A holder gives back its own lock.
LEMMA GivesBackLock ==
  ASSUME IInv, Locks, NEW c \in Calls, UnlockFinality(c) \/ ReplayRead(c)
  PROVE  Locks'
<1>0. pc \in [Calls -> Labels] /\ lock \in [Calls -> Calls \cup {None, Pass}]
  BY DEF IInv, TypeOK
<1>1. /\ req' = req /\ on' = on /\ UNCHANGED passVars /\ service' = service
      /\ lock' = [lock EXCEPT ![on[c]] = None]
  BY DEF UnlockFinality, ReplayRead
<1>2. \A d \in Calls : d # c => pc'[d] = pc[d]
  BY <1>0 DEF UnlockFinality, ReplayRead, Goto, Return
<1>3. pc'[c] \in {"complete", "done"} /\ Holding(c)
  BY <1>0 DEF UnlockFinality, ReplayRead, Goto, Return, Holding
<1>4. on[c] \in Calls /\ lock[on[c]] = c
  BY <1>3, HolderPoints DEF Locks
<1>5. \A r \in Calls : lock[r] # c => lock'[r] = lock[r]
  BY <1>0, <1>1, <1>4
<1>6. \A d \in Calls : d # c => KindAt(d)' /\ (Holding(d)' => Holding(d))
  BY <1>1, <1>2 DEF Locks, KindAt, Holding
<1>7. \A d \in Calls : d # c /\ Holding(d)' => lock'[on[d]] = d
  <2>1. \A d \in Calls : Holding(d) => on[d] \in Calls /\ lock[on[d]] = d
    BY HolderPoints DEF Locks
  <2>. QED  BY <1>5, <1>6, <2>1
<1>8. KindAt(c)' /\ ~Holding(c)'
  BY <1>3 DEF KindAt, Holding
<1>9. PassLocks'
  <2>1. \A r \in claimed : lock'[r] = Pass
    BY <1>5, CallsAssumption DEF Locks, PassLocks, IInv, TypeOK
  <2>. QED  BY <1>1, <2>1 DEF Locks, PassLocks, passVars
<1>. QED  BY <1>1, <1>6, <1>7, <1>8, <1>9 DEF Locks

\* The pass takes free locks only, keeps them until its end, and then gives
\* back exactly those.
LEMMA PassStepLocks ==
  ASSUME IInv, Locks, PassStep
  PROVE  Locks'
<1>0. /\ lock \in [Calls -> Calls \cup {None, Pass}] /\ claimed \subseteq Calls
      /\ PassLocks
  BY DEF IInv, TypeOK, Locks
<1>1. UNCHANGED callVars /\ service' = service
  BY DEF PassStep, PassCollect, PassQuery, PassGiveUp, PassConfirm, PassRelease,
         PassClaim, PassRecord
<1>2. \A d \in Calls : KindAt(d)' /\ (Holding(d)' => Holding(d)) /\ on'[d] = on[d]
  BY <1>1 DEF Locks, callVars, KindAt, Holding
<1>3. \A d \in Calls : Holding(d) => on[d] \in Calls /\ lock[on[d]] = d /\ d # None /\ d # Pass
  BY HolderPoints, CallsAssumption DEF Locks
<1>4. SUFFICES /\ \A r \in Calls : lock[r] # None /\ lock[r] # Pass => lock'[r] = lock[r]
               /\ PassLocks'
  BY <1>2, <1>3 DEF Locks
<1>5. CASE PassCollect
  <2>1. lock' = lock /\ pass = "collect"
    BY <1>5 DEF PassCollect
  <2>2. \/ pass' = "idle" /\ claimed' = {} /\ answers' = {}
        \/ pass' = "claim" /\ UNCHANGED <<claimed, answers, current>>
    BY <1>5 DEF PassCollect, PassEnd
  <2>3. service # "closed"
    BY <1>0, <2>1 DEF PassLocks
  <2>. QED  BY <1>0, <1>1, <2>1, <2>2, <2>3 DEF PassLocks
<1>6. CASE PassQuery
  <2>1. /\ lock' = lock /\ pass' = "apply" /\ pass = "claim"
        /\ answers' \subseteq claimed /\ claimed' = claimed
    BY <1>6 DEF PassQuery, FinalAnswers
  <2>. QED  BY <1>0, <1>1, <2>1 DEF PassLocks
<1>7. CASE PassGiveUp \/ PassRelease
  <2>1. PassEnd /\ Unclaim
    BY <1>7 DEF PassGiveUp, PassRelease
  <2>2. PassLocks'
    BY <2>1 DEF PassEnd, PassLocks
  <2>3. \A r \in Calls : lock[r] # Pass => lock'[r] = lock[r]
    BY <1>0, <2>1 DEF Unclaim, PassLocks
  <2>. QED  BY <2>2, <2>3
<1>8. CASE PassConfirm
  <2>1. /\ lock' = lock /\ pass' = "apply" /\ pass = "confirm"
        /\ answers' = answers /\ claimed' = claimed
    BY <1>8 DEF PassConfirm
  <2>. QED  BY <1>0, <1>1, <2>1 DEF PassLocks
<1>9. ASSUME NEW r \in Calls, PassClaim(r)
      PROVE  /\ \A q \in Calls : lock[q] # None /\ lock[q] # Pass => lock'[q] = lock[q]
             /\ PassLocks'
  <2>1. pass = "claim" /\ pass' = "claim" /\ answers' = answers /\ current' = current
    BY <1>9 DEF PassClaim
  <2>2. \/ claimed' = claimed /\ lock' = lock
        \/ lock[r] = None /\ claimed' = claimed \cup {r} /\ lock' = [lock EXCEPT ![r] = Pass]
    BY <1>9 DEF PassClaim, Claimable
  <2>3. \A q \in Calls : lock[q] # None => lock'[q] = lock[q]
    BY <1>0, <2>2
  <2>4. \A q \in claimed' : lock'[q] = Pass
    BY <1>0, <2>2 DEF PassLocks
  <2>. QED  BY <1>0, <1>1, <2>1, <2>2, <2>3, <2>4 DEF PassLocks
<1>10. ASSUME NEW r \in Calls, PassRecord(r)
       PROVE  lock' = lock /\ PassLocks'
  <2>1. /\ pass = "apply" /\ r \in answers /\ answers' = answers \ {r}
        /\ claimed' = claimed /\ lock' = lock
        /\ pass' = "apply" \/ (pass' = "confirm" /\ current' = r)
    BY <1>10 DEF PassRecord
  <2>. QED  BY <1>0, <1>1, <2>1 DEF PassLocks
<1>. QED  BY <1>5, <1>6, <1>7, <1>8, <1>9, <1>10 DEF PassStep

LEMMA LocksNext == IInv /\ Locks /\ [Next]_vars => Locks'
<1> SUFFICES ASSUME IInv, Locks, [Next]_vars PROVE Locks'
  OBVIOUS
<1>1. ASSUME NEW c \in Calls, OwnerStep(c) PROVE Locks'
  BY <1>1, OwnerKeepsLocks, TakesLock, GivesBackLock DEF OwnerStep
<1>2. ASSUME NEW c \in Calls, ReplayStep(c) \/ ReplayExpire(c) PROVE Locks'
  BY <1>2, ReplayKeepsLocks, TakesLock, GivesBackLock DEF ReplayStep
<1>. QED  BY <1>1, <1>2, PassStepLocks, WorldKeepsLocks DEF Next

LEMMA LocksInit == Init => Locks
BY DEF Init, Locks, PassLocks, KindAt, Holding

(* The callback of a committed Init transaction.                           *)

\* afterCommit has to run for the record.
Due(r) == ledger[Tx(r)] = "COMMITTED" /\ req[r].payload \in InitPayloads

\* Somebody is between afterCommit and confirmFinality.
Confirming(r) ==
  \/ \E c \in Calls : pc[c] = "confirm" /\ on[c] = r
  \/ pass = "confirm" /\ current = r

Settling(r) == status[r] # "" \/ Confirming(r)

\* The callback count follows the record: it is counted exactly when the
\* record is being settled or was settled as COMMITTED.
CallbackAt(r) ==
  /\ Confirming(r) => Pending(r)
  /\ status[r] # "" => status[r] = ledger[Tx(r)]
  /\ event[r] <=> status[r] = "COMMITTED"
  /\ initRuns[r] = IF Settling(r) /\ Due(r) THEN 1 ELSE 0

Callbacks == \A r \in Calls : CallbackAt(r)

\* Whoever settles a record knows its verdict, and holds its lock.
LEMMA SettlingKnown ==
  ASSUME IInv, Callbacks, NEW r \in Calls, Settling(r)
  PROVE  state[r] # "NONE" /\ Tx(r) \in Txs /\ ledger[Tx(r)] # ""
<1>1. CASE status[r] # ""
  <2>1. state[r] # "NONE"
    BY <1>1 DEF IInv, CallInv, RecordAt
  <2>. QED  BY <1>1, <2>1, Served DEF Callbacks, CallbackAt
<1>2. CASE Confirming(r)
  <2>1. CASE pass = "confirm" /\ current = r
    BY <2>1, Served DEF IInv, PassKnows
  <2>2. ASSUME NEW c \in Calls, pc[c] = "confirm", on[c] = r
        PROVE  state[r] # "NONE" /\ ledger[Tx(r)] # ""
    <3>1. HandlerAt(c) /\ KnownAt(c)
      BY DEF IInv, CallInv
    <3>2. state[r] # "NONE" /\ Tx(r) = Tx(c)
      BY <2>2, <3>1 DEF HandlerAt
    <3>3. ledger[Tx(c)] # ""
      BY <2>2, <3>1 DEF KnownAt
    <3>. QED  BY <3>2, <3>3
  <2>. QED  BY <1>2, <2>1, <2>2, Served DEF Confirming
<1>. QED  BY <1>1, <1>2 DEF Settling

\* The frame: nothing about the record and who settles it changes.
LEMMA CallbackKept ==
  ASSUME NEW r \in Calls, CallbackAt(r), status'[r] = status[r], event'[r] = event[r],
         initRuns'[r] = initRuns[r], Confirming(r)' <=> Confirming(r),
         Pending(r) => Pending(r)',
         Settling(r) => req'[r] = req[r] /\ ledger'[Tx(r)] = ledger[Tx(r)]
  PROVE  CallbackAt(r)'
<1>1. Settling(r)' <=> Settling(r)
  BY DEF Settling
<1>2. Settling(r) => (Due(r)' <=> Due(r))
  BY DEF Due, Tx
<1>3. status[r] # "" => ledger'[Tx(r)'] = ledger[Tx(r)]
  BY DEF Settling, Tx
<1>4. (Settling(r) /\ Due(r))' <=> (Settling(r) /\ Due(r))
  BY <1>1, <1>2
<1>5. initRuns'[r] = (IF Settling(r) /\ Due(r) THEN 1 ELSE 0)'
  BY <1>4 DEF CallbackAt
<1>. QED  BY <1>3, <1>5 DEF CallbackAt

\* Handlers that neither enter nor leave "confirm".
Unsettled ==
  /\ \A d \in Calls : /\ pc'[d] = "confirm" <=> pc[d] = "confirm"
                      /\ pc[d] = "confirm" => on'[d] = on[d]
  /\ pass' = "confirm" <=> pass = "confirm"
  /\ pass = "confirm" => current' = current

LEMMA ConfirmersKept ==
  ASSUME Unsettled, NEW r \in Calls
  PROVE  Confirming(r)' <=> Confirming(r)
BY DEF Unsettled, Confirming

LEMMA CallbacksKept ==
  ASSUME Callbacks, Unsettled, UNCHANGED <<status, event, initRuns, req, ledger>>,
         \A r \in Calls : Pending(r) => Pending(r)'
  PROVE  Callbacks'
<1> SUFFICES ASSUME NEW r \in Calls PROVE CallbackAt(r)'
  BY DEF Callbacks
<1>1. CallbackAt(r) /\ (Confirming(r)' <=> Confirming(r))
  BY ConfirmersKept DEF Callbacks
<1>. QED  BY <1>1, CallbackKept

\* The steps that settle nothing.
LEMMA OwnerKeepsCallbacks ==
  ASSUME IInv, Callbacks, NEW c \in Calls,
         \/ Existing(c) \/ Validate(c) \/ Begin(c) \/ Endorse(c) \/ MarkExecuted(c)
         \/ LockFinality(c) \/ Send(c) \/ MarkSubmission(c) \/ WaitFinality(c)
         \/ Refresh(c) \/ UnlockFinality(c) \/ Complete(c)
  PROVE  Callbacks'
<1>0. pc \in [Calls -> Labels] /\ on \in [Calls -> Calls \cup {None}]
      /\ state \in [Calls -> States]
  BY DEF IInv, TypeOK
<1>1. /\ UNCHANGED <<status, event, initRuns, req, ledger>> /\ UNCHANGED passVars
  BY DEF Existing, Validate, Begin, Endorse, MarkExecuted, LockFinality, Send,
         MarkSubmission, WaitFinality, Refresh, UnlockFinality, Complete,
         recordVars, worldVars
<1>2. \A d \in Calls : d # c => pc'[d] = pc[d] /\ on'[d] = on[d] /\ state'[d] = state[d]
  BY <1>0 DEF Existing, Validate, Begin, Endorse, MarkExecuted, LockFinality, Send,
         MarkSubmission, WaitFinality, Refresh, UnlockFinality, Complete, Goto, Return,
         recordVars
<1>3. pc[c] # "confirm" /\ pc'[c] # "confirm"
  <2>1. CASE Existing(c) \/ Validate(c) \/ Begin(c) \/ Endorse(c) \/ MarkExecuted(c)
    BY <1>0, <2>1 DEF Existing, Validate, Begin, Endorse, MarkExecuted, Goto, Return
  <2>2. CASE LockFinality(c) \/ Send(c) \/ MarkSubmission(c) \/ WaitFinality(c)
    BY <1>0, <2>2 DEF LockFinality, Send, MarkSubmission, WaitFinality, Goto, Return
  <2>3. CASE Refresh(c) \/ UnlockFinality(c) \/ Complete(c)
    BY <1>0, <2>3 DEF Refresh, UnlockFinality, Complete, Goto, Return
  <2>. QED  BY <2>1, <2>2, <2>3
<1>4. Unsettled
  BY <1>1, <1>2, <1>3 DEF Unsettled, passVars
<1>5. Pending(c) => Pending(c)'
  <2>1. RecordAt(c) /\ HandlerAt(c)
    BY DEF IInv, CallInv
  <2>2. CASE Begin(c)
    BY <2>2, Fresh DEF Begin, Unreserved, Pending
  <2>3. CASE Endorse(c) \/ MarkExecuted(c)
    BY <2>1, <2>3 DEF Endorse, MarkExecuted, RecordAt, Pending
  <2>4. CASE MarkSubmission(c) \/ Complete(c)
    BY <1>0, <2>4 DEF MarkSubmission, Complete, Awake, Pending
  <2>5. CASE \/ Existing(c) \/ Validate(c) \/ LockFinality(c) \/ Send(c)
             \/ WaitFinality(c) \/ Refresh(c) \/ UnlockFinality(c)
    BY <2>5 DEF Existing, Validate, LockFinality, Send, WaitFinality, Refresh,
                UnlockFinality, Pending, recordVars
  <2>. QED  BY <2>2, <2>3, <2>4, <2>5
<1>6. \A r \in Calls : Pending(r) => Pending(r)'
  BY <1>2, <1>5 DEF Pending
<1>. QED  BY <1>1, <1>4, <1>6, CallbacksKept

LEMMA ReplayKeepsCallbacks ==
  ASSUME IInv, Callbacks, NEW c \in Calls, ReplayStep(c) \/ ReplayExpire(c)
  PROVE  Callbacks'
<1>0. pc \in [Calls -> Labels]
  BY DEF IInv, TypeOK
<1>1. /\ UNCHANGED <<status, event, initRuns, req, ledger, on, state>> /\ UNCHANGED passVars
  BY DEF ReplayStep, ReplayWait, ReplayOutcome, ReplayLock, ReplayRead, ReplayExpire,
         recordVars, worldVars
<1>2. \A d \in Calls : pc'[d] = pc[d] \/ (pc[d] # "confirm" /\ pc'[d] # "confirm")
  BY <1>0 DEF ReplayStep, ReplayWait, ReplayOutcome, ReplayLock, ReplayRead, ReplayExpire,
         Goto, Return
<1>3. Unsettled
  BY <1>1, <1>2 DEF Unsettled, passVars
<1>. QED  BY <1>1, <1>3, CallbacksKept DEF Pending

\* The pass outside recordFinality, Close, and other traffic.
LEMMA PassKeepsCallbacks ==
  ASSUME Callbacks,
         \/ PassCollect \/ PassQuery \/ PassGiveUp \/ PassRelease
         \/ \E r \in Calls : PassClaim(r)
         \/ OtherTraffic \/ StopReconciliation \/ UNCHANGED vars
  PROVE  Callbacks'
<1>1. UNCHANGED <<status, event, initRuns, req, ledger, on, state, pc>>
  BY DEF PassCollect, PassQuery, PassGiveUp, PassRelease, PassClaim, OtherTraffic,
         StopReconciliation, vars, recordVars, callVars, worldVars
<1>2. \/ pass' = pass /\ current' = current
      \/ pass # "confirm" /\ pass' # "confirm"
  BY DEF PassCollect, PassQuery, PassGiveUp, PassRelease, PassClaim, OtherTraffic,
         StopReconciliation, TriggerReconciliation, PassEnd, vars, passVars
<1>3. Unsettled
  BY <1>1, <1>2 DEF Unsettled
<1>. QED  BY <1>1, <1>3, CallbacksKept DEF Pending

\* A new request has no record yet.
LEMMA ArriveKeepsCallbacks ==
  ASSUME IInv, Callbacks, NEW c \in Calls, NEW q \in Requests, Arrive(c, q)
  PROVE  Callbacks'
<1>0. pc \in [Calls -> Labels] /\ req \in [Calls -> Requests \cup {None}]
  BY DEF IInv, TypeOK
<1>1. UNCHANGED <<status, event, initRuns, ledger, on, state>>
  BY DEF Arrive, recordVars, worldVars
<1>2. Unsettled
  <2>1. \/ pass' = pass /\ current' = current
        \/ pass # "confirm" /\ pass' # "confirm"
    BY DEF Arrive, TriggerReconciliation, passVars
  <2>2. \A d \in Calls : pc'[d] = pc[d] \/ (pc[d] # "confirm" /\ pc'[d] # "confirm")
    BY <1>0 DEF Arrive, Goto, Requests, Kinds
  <2>. QED  BY <1>1, <2>1, <2>2 DEF Unsettled
<1>3. ASSUME NEW r \in Calls PROVE CallbackAt(r)'
  <2>1. CallbackAt(r) /\ (Confirming(r)' <=> Confirming(r))
    BY <1>2, ConfirmersKept DEF Callbacks
  <2>2. state[c] = "NONE"
    BY Fresh DEF Arrive, Unreserved
  <2>3. Settling(r) => r # c
    BY <2>2, SettlingKnown
  <2>4. Settling(r) => req'[r] = req[r]
    BY <1>0, <2>3 DEF Arrive
  <2>. QED  BY <1>1, <2>1, <2>4, CallbackKept DEF Pending
<1>. QED  BY <1>3 DEF Callbacks

\* A verdict that comes is of a transaction nobody is settling.
LEMMA FinalizeKeepsCallbacks ==
  ASSUME IInv, Callbacks, NEW t \in Txs, Finalize(t)
  PROVE  Callbacks'
<1>0. ledger \in [Txs -> Verdicts \cup {""}]
  BY DEF IInv, TypeOK
<1>1. UNCHANGED <<status, event, initRuns, req, on, state, pc>> /\ UNCHANGED passVars
  BY DEF Finalize, recordVars, callVars
<1>2. Unsettled
  BY <1>1 DEF Unsettled, passVars
<1>3. ASSUME NEW r \in Calls PROVE CallbackAt(r)'
  <2>1. CallbackAt(r) /\ (Confirming(r)' <=> Confirming(r))
    BY <1>2, ConfirmersKept DEF Callbacks
  <2>2. Settling(r) => Tx(r) \in Txs /\ Tx(r) # t
    BY SettlingKnown DEF Finalize
  <2>3. Settling(r) => ledger'[Tx(r)] = ledger[Tx(r)]
    BY <1>0, <2>2 DEF Finalize
  <2>. QED  BY <1>1, <2>1, <2>3, CallbackKept DEF Pending
<1>. QED  BY <1>3 DEF Callbacks

\* recordFinality by whoever holds the lock of a pending record nobody is
\* settling yet.
LEMMA RecordsCallback ==
  ASSUME IInv, Callbacks, NEW r \in Calls, Pending(r), ~Confirming(r), AfterCommit(r),
         UNCHANGED <<status, event, req, ledger, state>>,
         Confirming(r)', \A q \in Calls : q # r => (Confirming(q)' <=> Confirming(q))
  PROVE  Callbacks'
<1>0. initRuns \in [Calls -> Nat]
  BY DEF IInv, TypeOK
<1>1. status[r] = ""
  BY DEF IInv, CallInv, RecordAt, Pending
<1>2. initRuns[r] = 0 /\ ~event[r]
  BY <1>1 DEF Callbacks, CallbackAt, Settling
<1>3. initRuns'[r] = IF Due(r) THEN 1 ELSE 0
  BY <1>0, <1>2 DEF AfterCommit, Due
<1>4. Due(r)' <=> Due(r)
  BY DEF Due, Tx
<1>5. CallbackAt(r)'
  <2>1. Settling(r)'
    BY DEF Settling
  <2>2. (Settling(r) /\ Due(r))' <=> Due(r)
    BY <1>4, <2>1
  <2>3. initRuns'[r] = (IF Settling(r) /\ Due(r) THEN 1 ELSE 0)'
    BY <1>3, <2>2
  <2>4. Pending(r)' /\ status'[r] = "" /\ ~event'[r]
    BY <1>1, <1>2 DEF Pending
  <2>. QED  BY <2>3, <2>4 DEF CallbackAt
<1>6. ASSUME NEW q \in Calls, q # r PROVE CallbackAt(q)'
  <2>1. initRuns'[q] = initRuns[q]
    BY <1>0, <1>6 DEF AfterCommit
  <2>. QED  BY <1>6, <2>1, CallbackKept DEF Callbacks, Pending
<1>. QED  BY <1>5, <1>6 DEF Callbacks

\* confirmFinality by the one who called afterCommit.
LEMMA ConfirmsCallback ==
  ASSUME IInv, Callbacks, NEW r \in Calls, Confirming(r), ConfirmFinality(r),
         UNCHANGED <<initRuns, req, ledger>>,
         ~Confirming(r)', \A q \in Calls : q # r => (Confirming(q)' <=> Confirming(q))
  PROVE  Callbacks'
<1>0. /\ state \in [Calls -> States] /\ status \in [Calls -> Verdicts \cup {""}]
      /\ event \in [Calls -> BOOLEAN]
  BY DEF IInv, TypeOK
<1>1. Pending(r) /\ Settling(r) /\ ledger[Tx(r)] # ""
  BY SettlingKnown DEF Callbacks, CallbackAt, Settling
<1>2. /\ state' = [state EXCEPT ![r] = "COMPLETED"]
      /\ status' = [status EXCEPT ![r] = ledger[Tx(r)]]
      /\ event' = [event EXCEPT ![r] = ledger[Tx(r)] = "COMMITTED"]
  BY <1>1 DEF ConfirmFinality
<1>3. CallbackAt(r)'
  <2>1. status'[r] = ledger[Tx(r)] /\ (event'[r] <=> ledger[Tx(r)] = "COMMITTED")
    BY <1>0, <1>2
  <2>2. Settling(r)' /\ (Due(r)' <=> Due(r)) /\ Tx(r)' = Tx(r)
    BY <1>1, <2>1 DEF Settling, Due, Tx
  <2>3. (Settling(r) /\ Due(r))' <=> (Settling(r) /\ Due(r))
    BY <1>1, <2>2
  <2>4. initRuns'[r] = (IF Settling(r) /\ Due(r) THEN 1 ELSE 0)'
    BY <2>3 DEF Callbacks, CallbackAt
  <2>. QED  BY <2>1, <2>2, <2>4 DEF CallbackAt
<1>4. ASSUME NEW q \in Calls, q # r PROVE CallbackAt(q)'
  <2>1. status'[q] = status[q] /\ event'[q] = event[q] /\ (Pending(q) => Pending(q)')
    BY <1>0, <1>2, <1>4 DEF Pending
  <2>. QED  BY <1>4, <2>1, CallbackKept DEF Callbacks
<1>. QED  BY <1>3, <1>4 DEF Callbacks

\* The lock has one holder.
LEMMA OneSettler ==
  ASSUME IInv, Locks, NEW c \in Calls, Holding(c)
  PROVE  /\ on[c] \in Calls
         /\ \A d \in Calls : pc[d] = "confirm" /\ on[d] = on[c] => d = c
         /\ ~(pass = "confirm" /\ current = on[c])
<1>1. on[c] \in Calls /\ lock[on[c]] = c /\ c # Pass
  BY HolderPoints, CallsAssumption DEF Locks
<1>2. \A d \in Calls : pc[d] = "confirm" => lock[on[d]] = d
  BY DEF Locks, Holding
<1>3. pass = "confirm" => lock[current] = Pass
  BY DEF Locks, PassLocks
<1>. QED  BY <1>1, <1>2, <1>3

LEMMA HandlerSettles ==
  ASSUME IInv, Locks, Callbacks, NEW c \in Calls, RecordFinality(c) \/ Confirm(c)
  PROVE  Callbacks'
<1>0. pc \in [Calls -> Labels]
  BY DEF IInv, TypeOK
<1>1. /\ on' = on /\ req' = req /\ ledger' = ledger /\ UNCHANGED passVars
      /\ \A d \in Calls : d # c => pc'[d] = pc[d]
  BY <1>0 DEF RecordFinality, Confirm, Goto, worldVars
<1>2. /\ on[c] \in Calls
      /\ \A d \in Calls : pc[d] = "confirm" /\ on[d] = on[c] => d = c
      /\ ~(pass = "confirm" /\ current = on[c])
  BY OneSettler DEF RecordFinality, Confirm, Holding
<1>3. \A q \in Calls : q # on[c] => (Confirming(q)' <=> Confirming(q))
  BY <1>1 DEF Confirming, passVars
<1>4. CASE RecordFinality(c) /\ Pending(on[c])
  <2>1. /\ AfterCommit(on[c]) /\ pc[c] = "record" /\ pc'[c] = "confirm"
        /\ UNCHANGED <<status, event, state>>
    BY <1>0, <1>4 DEF RecordFinality, Goto, recordVars
  <2>2. ~Confirming(on[c])
    BY <1>2, <2>1 DEF Confirming
  <2>3. Confirming(on[c])'
    BY <1>1, <2>1 DEF Confirming
  <2>. QED  BY <1>1, <1>2, <1>3, <1>4, <2>1, <2>2, <2>3, RecordsCallback
<1>5. CASE RecordFinality(c) /\ ~Pending(on[c])
  <2>1. /\ pc[c] = "record" /\ pc'[c] = "unlock"
        /\ UNCHANGED <<status, event, state, initRuns>>
    BY <1>0, <1>5 DEF RecordFinality, Goto, recordVars
  <2>2. Unsettled
    BY <1>1, <2>1 DEF Unsettled, passVars
  <2>. QED  BY <1>1, <2>1, <2>2, CallbacksKept DEF Pending
<1>6. CASE Confirm(c)
  <2>1. /\ ConfirmFinality(on[c]) /\ pc[c] = "confirm" /\ pc'[c] = "unlock"
        /\ initRuns' = initRuns
    BY <1>0, <1>6 DEF Confirm, Goto
  <2>2. Confirming(on[c])
    BY <2>1 DEF Confirming
  <2>3. ~Confirming(on[c])'
    BY <1>1, <1>2, <2>1 DEF Confirming, passVars
  <2>. QED  BY <1>1, <1>2, <1>3, <2>1, <2>2, <2>3, ConfirmsCallback
<1>. QED  BY <1>4, <1>5, <1>6

LEMMA PassSettles ==
  ASSUME IInv, Locks, Callbacks, PassConfirm \/ \E r \in Calls : PassRecord(r)
  PROVE  Callbacks'
<1>1. UNCHANGED <<pc, on, req, ledger>>
  BY DEF PassConfirm, PassRecord, callVars, worldVars
<1>2. \A r \in claimed : \A d \in Calls : pc[d] = "confirm" => on[d] # r
  BY CallsAssumption DEF Locks, PassLocks, Holding
<1>3. ASSUME NEW r \in Calls, PassRecord(r) PROVE Callbacks'
  <2>1. r \in claimed /\ pass = "apply"
    BY <1>3 DEF PassRecord, Locks, PassLocks
  <2>2. UNCHANGED <<status, event, state>>
    BY <1>3 DEF PassRecord, recordVars
  <2>3. ~Confirming(r)
    BY <1>2, <2>1 DEF Confirming
  <2>4. CASE Pending(r)
    <3>1. AfterCommit(r) /\ pass' = "confirm" /\ current' = r
      BY <1>3, <2>4 DEF PassRecord
    <3>2. Confirming(r)' /\ \A q \in Calls : q # r => (Confirming(q)' <=> Confirming(q))
      BY <1>1, <2>1, <3>1 DEF Confirming
    <3>. QED  BY <1>1, <2>2, <2>3, <2>4, <3>1, <3>2, RecordsCallback
  <2>5. CASE ~Pending(r)
    <3>1. UNCHANGED <<initRuns, pass, current>>
      BY <1>3, <2>5 DEF PassRecord
    <3>2. Unsettled
      BY <1>1, <3>1 DEF Unsettled
    <3>. QED  BY <1>1, <2>2, <3>1, <3>2, CallbacksKept DEF Pending
  <2>. QED  BY <2>4, <2>5
<1>4. CASE PassConfirm
  <2>1. /\ pass = "confirm" /\ pass' = "apply" /\ ConfirmFinality(current)
        /\ current \in Calls /\ current \in claimed /\ initRuns' = initRuns
    BY <1>4 DEF PassConfirm, IInv, PassKnows, Locks, PassLocks
  <2>2. Confirming(current)
    BY <2>1 DEF Confirming
  <2>3. PICK r \in Calls : r = current
    BY <2>1
  <2>4. ~Confirming(r)' /\ \A q \in Calls : q # r => (Confirming(q)' <=> Confirming(q))
    BY <1>1, <1>2, <2>1, <2>3 DEF Confirming
  <2>. QED  BY <1>1, <2>1, <2>2, <2>3, <2>4, ConfirmsCallback
<1>. QED  BY <1>3, <1>4

LEMMA CallbacksNext == IInv /\ Locks /\ Callbacks /\ [Next]_vars => Callbacks'
<1> SUFFICES ASSUME IInv, Locks, Callbacks, [Next]_vars PROVE Callbacks'
  OBVIOUS
<1>1. ASSUME NEW c \in Calls, OwnerStep(c) PROVE Callbacks'
  BY <1>1, OwnerKeepsCallbacks, HandlerSettles DEF OwnerStep
<1>2. ASSUME NEW c \in Calls, NEW r \in Requests, Arrive(c, r) PROVE Callbacks'
  BY <1>2, ArriveKeepsCallbacks
<1>3. ASSUME PassStep PROVE Callbacks'
  BY <1>3, PassKeepsCallbacks, PassSettles DEF PassStep
<1>. QED  BY <1>1, <1>2, <1>3, ReplayKeepsCallbacks, PassKeepsCallbacks,
             FinalizeKeepsCallbacks DEF Next

LEMMA CallbacksInit == Init => Callbacks
BY DEF Init, Callbacks, CallbackAt, Confirming, Settling

(* What clients are told.                                                  *)

\* What is known of ordering: the ledger decides ordered transactions only, an
\* acknowledgment means ordered, and so does a receipt without error.
OrderedAt(r) ==
  /\ pc[r] = "mark" /\ ack[r] = "ok" => Tx(r) \in delivered
  /\ Pending(r) /\ ~recErr[r] => Tx(r) \in delivered
  /\ submitted[r] => Pending(r) \/ status[r] # ""

Ordered ==
  /\ \A t \in Txs : ledger[t] # "" => t \in delivered
  /\ \A r \in Calls : OrderedAt(r)

\* A client is told something at the end of its handler only, and what it was
\* told stays true.
ToldAt(c) ==
  /\ pc[c] \notin {"complete", "done"} => reply[c] = "none"
  /\ pc[c] = "complete" /\ reply[c] = "none" /\ ~fail[c] =>
       IF req[c].kind = "submit" THEN Tx(c) \in delivered ELSE c \notin handed
  /\ reply[c] \in Verdicts => reply[c] = ledger[Tx(c)]
  /\ reply[c] = "acknowledged" => Tx(c) \in delivered
  /\ reply[c] = "response" =>
       on[c] \in Calls /\ on[c] \notin handed /\ state[on[c]] \in Terminal

Told == \A c \in Calls : ToldAt(c)

\* The world only grows: verdicts stay, ordered transactions stay ordered, only
\* a call that sends hands its record over, and finished records stay finished.
WorldGrows ==
  /\ \A t \in Txs : ledger[t] # "" => ledger'[t] = ledger[t]
  /\ \A t \in Txs : ledger'[t] # "" => ledger[t] # "" \/ t \in delivered
  /\ delivered \subseteq delivered'
  /\ \A r \in handed' : r \in handed \/ pc[r] = "send"
  /\ \A r \in Calls : state[r] \in Terminal => state'[r] \in Terminal

LEMMA FinishedStays ==
  ASSUME IInv, [Next]_vars, NEW r \in Calls, state[r] \in Terminal
  PROVE  state'[r] \in Terminal
<1>0. state \in [Calls -> States] /\ state[r] \notin {"NONE", "IN_PROGRESS", "EXECUTED"}
      /\ ~Pending(r)
  BY DEF IInv, TypeOK, Terminal, Pending
<1>1. ASSUME NEW q \in Calls, ConfirmFinality(q) PROVE state'[r] \in Terminal
  BY <1>0, <1>1 DEF ConfirmFinality, recordVars
<1>2. ASSUME NEW c \in Calls, OwnerStep(c) PROVE state'[r] \in Terminal
  <2>1. HandlerAt(c) /\ RecordAt(c)
    BY DEF IInv, CallInv
  <2>2. CASE Begin(c)
    <3>1. state[c] = "NONE"
      BY <2>2, Fresh DEF Begin, Unreserved
    <3>. QED  BY <1>0, <2>2, <3>1 DEF Begin
  <2>3. CASE Endorse(c) \/ MarkExecuted(c)
    BY <1>0, <2>1, <2>3 DEF Endorse, MarkExecuted, RecordAt
  <2>4. CASE MarkSubmission(c)
    BY <1>0, <2>4 DEF MarkSubmission, Awake
  <2>5. CASE Complete(c)
    BY <1>0, <2>5 DEF Complete, Terminal
  <2>6. CASE Confirm(c)
    <3>1. on[c] \in Calls
      BY <2>1, <2>6 DEF Confirm, HandlerAt, Pointing
    <3>. QED  BY <1>1, <2>6, <3>1 DEF Confirm
  <2>7. CASE \/ Existing(c) \/ Validate(c) \/ LockFinality(c) \/ Send(c) \/ WaitFinality(c)
             \/ Refresh(c) \/ RecordFinality(c) \/ UnlockFinality(c)
    BY <2>7 DEF Existing, Validate, LockFinality, Send, WaitFinality, Refresh,
                RecordFinality, UnlockFinality, recordVars
  <2>. QED  BY <1>2, <2>2, <2>3, <2>4, <2>5, <2>6, <2>7 DEF OwnerStep
<1>3. ASSUME NEW c \in Calls, ReplayStep(c) \/ ReplayExpire(c) PROVE state' = state
  BY <1>3 DEF ReplayStep, ReplayWait, ReplayExpire, ReplayOutcome, ReplayLock,
              ReplayRead, recordVars
<1>4. ASSUME PassStep PROVE state'[r] \in Terminal
  <2>1. CASE PassConfirm
    <3>1. current \in Calls
      BY <2>1 DEF PassConfirm, IInv, PassKnows
    <3>. QED  BY <1>1, <2>1, <3>1 DEF PassConfirm
  <2>2. ~PassConfirm => state' = state
    BY <1>4 DEF PassStep, PassCollect, PassQuery, PassGiveUp, PassRelease,
                PassClaim, PassRecord, recordVars
  <2>. QED  BY <2>1, <2>2
<1>5. ASSUME NEW c \in Calls, NEW q \in Requests, Arrive(c, q) PROVE state' = state
  BY <1>5 DEF Arrive, recordVars
<1>6. ASSUME NEW t \in Txs, Finalize(t) PROVE state' = state
  BY <1>6 DEF Finalize, recordVars
<1>7. OtherTraffic \/ StopReconciliation \/ UNCHANGED vars => state' = state
  BY DEF OtherTraffic, StopReconciliation, vars, recordVars
<1>. QED  BY <1>2, <1>3, <1>4, <1>5, <1>6, <1>7 DEF Next

LEMMA WorldOnlyGrows ==
  ASSUME IInv, [Next]_vars
  PROVE  WorldGrows
<1>0. /\ ledger \in [Txs -> Verdicts \cup {""}]
  BY DEF IInv, TypeOK
<1>1. CASE UNCHANGED worldVars
  BY <1>1, FinishedStays DEF WorldGrows, worldVars
<1>2. ASSUME NEW c \in Calls, Send(c) PROVE WorldGrows
  <2>1. /\ ledger' = ledger /\ delivered \subseteq delivered' /\ pc[c] = "send"
        /\ handed' \subseteq handed \cup {c}
    BY <1>2 DEF Send
  <2>. QED  BY <2>1, FinishedStays DEF WorldGrows
<1>3. ASSUME NEW t \in Txs, Finalize(t) PROVE WorldGrows
  <2>1. /\ delivered' = delivered /\ handed' = handed /\ t \in delivered
        /\ \E v \in Verdicts : ledger' = [ledger EXCEPT ![t] = v]
        /\ ledger[t] = ""
    BY <1>3 DEF Finalize
  <2>. QED  BY <1>0, <2>1, FinishedStays DEF WorldGrows
<1>4. ASSUME NEW c \in Calls, OwnerStep(c) PROVE Send(c) \/ UNCHANGED worldVars
  BY <1>4 DEF OwnerStep, Existing, Validate, Begin, Endorse, MarkExecuted,
     LockFinality, MarkSubmission, WaitFinality, Refresh, RecordFinality, Confirm,
     UnlockFinality, Complete
<1>5. ASSUME NEW c \in Calls, ReplayStep(c) \/ ReplayExpire(c) PROVE UNCHANGED worldVars
  BY <1>5 DEF ReplayStep, ReplayWait, ReplayExpire, ReplayOutcome, ReplayLock, ReplayRead
<1>6. ASSUME PassStep PROVE UNCHANGED worldVars
  BY <1>6 DEF PassStep, PassCollect, PassQuery, PassGiveUp, PassRelease, PassClaim,
     PassRecord, PassConfirm
<1>7. ASSUME NEW c \in Calls, NEW q \in Requests, Arrive(c, q) PROVE UNCHANGED worldVars
  BY <1>7 DEF Arrive
<1>8. OtherTraffic \/ StopReconciliation \/ UNCHANGED vars => UNCHANGED worldVars
  BY DEF OtherTraffic, StopReconciliation, vars
<1>. QED  BY <1>1, <1>2, <1>3, <1>4, <1>5, <1>6, <1>7, <1>8 DEF Next

\* A call that does not move was told what stays true.
Unmoved(d) ==
  /\ pc'[d] = pc[d] /\ reply'[d] = reply[d] /\ on'[d] = on[d] /\ req'[d] = req[d]
  /\ fail'[d] = fail[d]

LEMMA ToldStays ==
  ASSUME IInv, Told, WorldGrows, NEW d \in Calls, Unmoved(d)
  PROVE  ToldAt(d)'
<1>1. ToldAt(d) /\ HandlerAt(d) /\ RecordAt(d)
  BY DEF Told, IInv, CallInv
<1>2. Tx(d)' = Tx(d) /\ (pc[d] # "idle" => Tx(d) \in Txs)
  BY <1>1 DEF Unmoved, Tx, HandlerAt, Requests
<1>3. reply[d] # "none" => pc[d] # "idle"
  BY <1>1 DEF ToldAt
<1>4. reply[d] \in Verdicts => reply[d] = ledger'[Tx(d)]
  <2>1. SUFFICES ASSUME reply[d] \in Verdicts PROVE reply[d] = ledger'[Tx(d)]
    OBVIOUS
  <2>2. reply[d] = ledger[Tx(d)] /\ reply[d] # "" /\ reply[d] # "none"
    BY <1>1, <2>1 DEF ToldAt, Verdicts
  <2>3. Tx(d) \in Txs
    BY <1>2, <1>3, <2>2
  <2>. QED  BY <2>2, <2>3 DEF WorldGrows
<1>5. reply[d] = "acknowledged" => Tx(d) \in delivered'
  BY <1>1 DEF ToldAt, WorldGrows
<1>6. \A r \in Calls : state[r] \in Terminal /\ r \notin handed =>
        r \notin handed' /\ state'[r] \in Terminal
  <2>1. \A r \in Calls : pc[r] = "send" => state[r] = "EXECUTED"
    BY DEF IInv, CallInv, RecordAt
  <2>. QED  BY <2>1 DEF WorldGrows, Terminal
<1>7. reply[d] = "response" =>
        on[d] \in Calls /\ on[d] \notin handed' /\ state'[on[d]] \in Terminal
  BY <1>1, <1>6 DEF ToldAt
<1>8. pc[d] = "complete" /\ reply[d] = "none" /\ ~fail[d] =>
        IF req[d].kind = "submit" THEN Tx(d) \in delivered' ELSE d \notin handed'
  BY <1>1 DEF ToldAt, WorldGrows
<1>. QED  BY <1>1, <1>2, <1>4, <1>5, <1>7, <1>8 DEF ToldAt, Unmoved

\* Nothing told yet, or an error or a pending receipt.
LEMMA NothingTold ==
  ASSUME NEW c \in Calls,
         \/ reply'[c] = "none" /\ pc'[c] # "complete" /\ pc'[c] # "done"
         \/ /\ reply'[c] \in {"conflict", "rejected", "error", "pending"}
            /\ pc'[c] \in {"complete", "done"}
  PROVE  ToldAt(c)'
BY DEF ToldAt, Verdicts

\* The ledger's verdict on the own transaction.
LEMMA VerdictTold ==
  ASSUME NEW c \in Calls, reply'[c] = ledger[Tx(c)], ledger[Tx(c)] \in Verdicts,
         pc'[c] = "done", req' = req, ledger' = ledger
  PROVE  ToldAt(c)'
<1>1. Tx(c)' = Tx(c)
  BY DEF Tx
<1>. QED  BY <1>1 DEF ToldAt, Verdicts

\* waitResult speaks of the record as it is.
LEMMA WaitResultTrue ==
  ASSUME IInv, Callbacks, NEW r \in Calls
  PROVE  /\ WaitResult(r) \in Verdicts => WaitResult(r) = ledger[Tx(r)]
         /\ WaitResult(r) = "response" => r \notin handed /\ state[r] \in Terminal
         /\ WaitResult(r) \in Verdicts \cup {"pending", "response", "error"}
<1>1. CallbackAt(r) /\ RecordAt(r) /\ status[r] \in Verdicts \cup {""}
  BY DEF Callbacks, IInv, CallInv, TypeOK
<1>. QED  BY <1>1 DEF WaitResult, CallbackAt, RecordAt, Terminal, Verdicts

\* A call is told the waitResult of the record it points to.
LEMMA WaitResultTold ==
  ASSUME IInv, Callbacks, NEW c \in Calls, on[c] \in Calls, reply'[c] = WaitResult(on[c]),
         pc'[c] \in {"complete", "done"}, req' = req, ledger' = ledger, on' = on,
         handed' = handed, state' = state
  PROVE  ToldAt(c)'
<1>1. HandlerAt(c)
  BY DEF IInv, CallInv
<1>2. Tx(c)' = Tx(c) /\ Tx(on[c]) = Tx(c)
  BY <1>1 DEF Tx, HandlerAt
<1>3. PICK w : w = WaitResult(on[c])
  OBVIOUS
<1>4. /\ w \in Verdicts => w = ledger[Tx(c)]
      /\ w = "response" => on[c] \notin handed /\ state[on[c]] \in Terminal
      /\ w \in Verdicts \cup {"pending", "response", "error"}
  BY <1>2, <1>3, WaitResultTrue
<1>5. reply'[c] = w /\ w # "none" /\ w # "acknowledged"
  BY <1>3, <1>4 DEF Verdicts
<1>. QED  BY <1>2, <1>4, <1>5 DEF ToldAt

\* The steps of a handler that is told nothing, or an error, by them.
LEMMA OwnerTold ==
  ASSUME IInv, Locks, Ordered, Callbacks, Told, NEW c \in Calls, OwnerStep(c)
  PROVE  ToldAt(c)'
<1>0. /\ pc \in [Calls -> Labels] /\ reply \in [Calls -> Replies]
      /\ fail \in [Calls -> BOOLEAN] /\ on \in [Calls -> Calls \cup {None}]
      /\ ledger \in [Txs -> Verdicts \cup {""}] /\ state \in [Calls -> States]
  BY DEF IInv, TypeOK
<1>1. HandlerAt(c) /\ KnownAt(c) /\ RecordAt(c) /\ KindAt(c) /\ ToldAt(c)
  BY DEF IInv, CallInv, Locks, Told
<1>2. req' = req
  BY DEF OwnerStep, Existing, Validate, Begin, Endorse, MarkExecuted, LockFinality,
         Send, MarkSubmission, WaitFinality, Refresh, RecordFinality, Confirm,
         UnlockFinality, Complete
<1>3. pc[c] # "complete" /\ pc[c] # "done" => reply[c] = "none"
  BY <1>1 DEF ToldAt
<1>4. CASE Existing(c) \/ Validate(c) \/ Begin(c)
  BY <1>0, <1>3, <1>4, NothingTold DEF Existing, Validate, Begin, Goto, Return
<1>5. CASE Endorse(c)
  <2>1. c \notin handed /\ req[c].kind = "invoke" /\ reply[c] = "none"
    BY <1>1, <1>3, <1>5 DEF Endorse, RecordAt, KindAt
  <2>2. handed' = handed /\ reply' = reply
    BY <1>5 DEF Endorse, worldVars
  <2>3. pc'[c] \in {"complete", "lock"}
    BY <1>0, <1>5 DEF Endorse, Goto
  <2>. QED  BY <1>2, <2>1, <2>2, <2>3 DEF ToldAt, Verdicts
<1>6. CASE MarkExecuted(c) \/ Send(c)
  BY <1>0, <1>3, <1>6, NothingTold DEF MarkExecuted, Send, Goto
<1>7. CASE LockFinality(c)
  <2>1. reply'[c] = "none" /\ (pc'[c] = "send" \/ (pc'[c] = "complete" /\ fail'[c]))
    BY <1>0, <1>3, <1>7 DEF LockFinality, Goto
  <2>. QED  BY <2>1 DEF ToldAt, Verdicts
<1>8. CASE MarkSubmission(c)
  <2>1. reply'[c] = "none" /\ fail'[c] = (ack[c] # "ok") /\ delivered' = delivered
    BY <1>0, <1>3, <1>8 DEF MarkSubmission, worldVars
  <2>2. \/ req[c].kind = "submit" /\ pc'[c] = "complete"
        \/ pc'[c] \in {"wait", "unlock"}
    BY <1>0, <1>8 DEF MarkSubmission, Goto
  <2>3. ack[c] = "ok" => Tx(c) \in delivered
    BY <1>8 DEF MarkSubmission, Ordered, OrderedAt
  <2>4. Tx(c)' = Tx(c)
    BY <1>2 DEF Tx
  <2>. QED  BY <1>2, <2>1, <2>2, <2>3, <2>4 DEF ToldAt, Verdicts
<1>9. CASE WaitFinality(c)
  <2>1. Tx(c) \in Txs
    BY <1>1, <1>9 DEF WaitFinality, HandlerAt, Tx, Requests
  <2>2. reply[c] = "none" /\ ledger' = ledger
    BY <1>3, <1>9 DEF WaitFinality, worldVars
  <2>3. \/ reply' = reply /\ pc'[c] \in {"record", "unlock", "refresh"}
        \/ reply'[c] = "error" /\ pc'[c] = "done"
        \/ reply'[c] = ledger[Tx(c)] /\ ledger[Tx(c)] # "" /\ pc'[c] = "done"
    BY <1>0, <1>9 DEF WaitFinality, Goto, Return
  <2>4. CASE reply'[c] = ledger[Tx(c)] /\ ledger[Tx(c)] # "" /\ pc'[c] = "done"
    BY <1>0, <1>2, <2>1, <2>2, <2>4, VerdictTold
  <2>. QED  BY <2>2, <2>3, <2>4, NothingTold
<1>10. CASE Refresh(c) \/ (UnlockFinality(c) /\ req[c].kind = "status")
  <2>1. ledger[Tx(c)] # "" /\ Tx(c) \in Txs
    BY <1>1, <1>10 DEF Refresh, UnlockFinality, KnownAt, HandlerAt, Tx, Requests
  <2>2. reply[c] = "none" /\ ledger' = ledger
    BY <1>3, <1>10 DEF Refresh, UnlockFinality, worldVars
  <2>3. \/ reply' = reply /\ pc'[c] = "record"
        \/ reply'[c] = ledger[Tx(c)] /\ pc'[c] = "done"
    BY <1>0, <1>10 DEF Refresh, UnlockFinality, Goto, Return
  <2>4. CASE reply'[c] = ledger[Tx(c)] /\ pc'[c] = "done"
    BY <1>0, <1>2, <2>1, <2>2, <2>4, VerdictTold
  <2>. QED  BY <2>2, <2>3, <2>4, NothingTold
<1>11. CASE RecordFinality(c) \/ Confirm(c)
  BY <1>0, <1>3, <1>11, NothingTold DEF RecordFinality, Confirm, Goto
<1>12. CASE UnlockFinality(c) /\ req[c].kind # "status"
  <2>1. on[c] = c /\ on' = on /\ state' = state /\ ledger' = ledger /\ handed' = handed
    BY <1>1, <1>12 DEF UnlockFinality, HandlerAt, recordVars, worldVars
  <2>2. pc'[c] = "complete" /\ (reply'[c] = "error" \/ reply'[c] = WaitResult(c))
    BY <1>0, <1>12 DEF UnlockFinality, Goto
  <2>. QED  BY <1>2, <2>1, <2>2, NothingTold, WaitResultTold
<1>13. CASE Complete(c)
  <2>1. /\ on[c] = c /\ on' = on /\ ledger' = ledger /\ handed' = handed
        /\ delivered' = delivered /\ req[c].kind # "status" /\ state[c] # "NONE"
        /\ pc'[c] = "done" /\ Tx(c)' = Tx(c)
    BY <1>0, <1>1, <1>2, <1>13, CallsAssumption
    DEF Complete, Return, Goto, HandlerAt, Owning, worldVars, Tx
  <2>2. state'[c] \in Terminal \/ (state'[c] = "SUBMITTED" /\ state[c] = "SUBMITTED")
    BY <1>0, <1>13 DEF Complete, Awake, Terminal
  <2>3. state[c] = "SUBMITTED" => c \in handed
    BY <1>1 DEF RecordAt
  <2>4. CASE reply[c] # "none"
    <3>1. reply'[c] = reply[c]
      BY <1>0, <1>13, <2>4 DEF Complete, Return
    <3>. QED  BY <1>1, <2>1, <2>2, <2>3, <2>4, <3>1 DEF ToldAt
  <2>5. CASE reply[c] = "none" /\ fail[c]
    BY <1>0, <1>13, <2>1, <2>5, NothingTold DEF Complete, Return
  <2>6. CASE reply[c] = "none" /\ ~fail[c]
    <3>1. pc[c] = "complete"
      BY <1>13 DEF Complete
    <3>2. IF req[c].kind = "submit" THEN Tx(c) \in delivered ELSE c \notin handed
      BY <1>1, <2>6, <3>1 DEF ToldAt
    <3>3. reply'[c] = IF req[c].kind = "submit" THEN "acknowledged" ELSE "response"
      BY <1>0, <1>13, <2>6 DEF Complete, Return
    <3>. QED  BY <2>1, <2>2, <2>3, <3>2, <3>3 DEF ToldAt, Verdicts
  <2>. QED  BY <1>0, <2>4, <2>5, <2>6
<1>. QED  BY <1>4, <1>5, <1>6, <1>7, <1>8, <1>9, <1>10, <1>11, <1>12, <1>13 DEF OwnerStep

\* submissionOutcome: the record was ordered.
LEMMA OutcomeTrue ==
  ASSUME IInv, Callbacks, Ordered, NEW r \in Calls, state[r] # "NONE",
         SubmissionOutcome(r) = "acknowledged"
  PROVE  Tx(r) \in delivered
<1>1. submitted[r] /\ ~(Pending(r) /\ recErr[r])
  BY DEF SubmissionOutcome
<1>2. OrderedAt(r) /\ CallbackAt(r) /\ Tx(r) \in Txs
  BY Served DEF Ordered, Callbacks
<1>3. CASE Pending(r)
  BY <1>1, <1>2, <1>3 DEF OrderedAt
<1>4. CASE ~Pending(r)
  <2>1. ledger[Tx(r)] # ""
    BY <1>1, <1>2, <1>4 DEF OrderedAt, CallbackAt
  <2>. QED  BY <1>2, <2>1 DEF Ordered
<1>. QED  BY <1>3, <1>4

LEMMA ReplayTold ==
  ASSUME IInv, Callbacks, Ordered, Told, NEW c \in Calls, ReplayStep(c) \/ ReplayExpire(c)
  PROVE  ToldAt(c)'
<1>0. pc \in [Calls -> Labels] /\ reply \in [Calls -> Replies]
  BY DEF IInv, TypeOK
<1>1. HandlerAt(c) /\ ToldAt(c)
  BY DEF IInv, CallInv, Told
<1>2. /\ req' = req /\ on' = on /\ state' = state /\ ledger' = ledger
      /\ handed' = handed /\ delivered' = delivered
  BY DEF ReplayStep, ReplayWait, ReplayOutcome, ReplayLock, ReplayRead, ReplayExpire,
         recordVars, worldVars
<1>3. pc[c] \in {"replay", "outcome", "relock", "reread"}
  BY DEF ReplayStep, ReplayWait, ReplayOutcome, ReplayLock, ReplayRead, ReplayExpire
<1>4. on[c] \in Calls /\ state[on[c]] # "NONE" /\ Tx(on[c]) = Tx(c) /\ reply[c] = "none"
  BY <1>1, <1>3 DEF HandlerAt, Pointing, ToldAt
<1>5. CASE ReplayOutcome(c)
  <2>1. PICK w : w = SubmissionOutcome(on[c])
    OBVIOUS
  <2>2. reply'[c] = w /\ pc'[c] = "done"
    BY <1>0, <1>5, <2>1 DEF ReplayOutcome, Return, Goto
  <2>3. w \in {"acknowledged", "error"}
    BY <2>1 DEF SubmissionOutcome
  <2>4. w = "acknowledged" => Tx(c) \in delivered
    BY <1>4, <2>1, OutcomeTrue
  <2>5. Tx(c)' = Tx(c)
    BY <1>2 DEF Tx
  <2>. QED  BY <1>2, <2>2, <2>3, <2>4, <2>5 DEF ToldAt, Verdicts
<1>6. CASE ReplayWait(c) \/ ReplayLock(c) \/ ReplayRead(c) \/ ReplayExpire(c)
  <2>1. \/ reply' = reply /\ pc'[c] \in {"outcome", "relock", "reread"}
        \/ reply'[c] = WaitResult(on[c]) /\ pc'[c] = "done"
    BY <1>0, <1>6 DEF ReplayWait, ReplayLock, ReplayRead, ReplayExpire, Goto, Return
  <2>2. CASE reply' = reply /\ pc'[c] \in {"outcome", "relock", "reread"}
    BY <1>4, <2>2, NothingTold
  <2>3. CASE reply'[c] = WaitResult(on[c]) /\ pc'[c] = "done"
    BY <1>2, <1>4, <2>3, WaitResultTold
  <2>. QED  BY <2>1, <2>2, <2>3
<1>. QED  BY <1>5, <1>6 DEF ReplayStep

LEMMA ToldNext ==
  ASSUME IInv, Locks, Callbacks, Ordered, Told, [Next]_vars
  PROVE  Told'
<1>0. /\ pc \in [Calls -> Labels] /\ reply \in [Calls -> Replies]
      /\ fail \in [Calls -> BOOLEAN] /\ on \in [Calls -> Calls \cup {None}]
      /\ req \in [Calls -> Requests \cup {None}]
  BY DEF IInv, TypeOK
<1>1. WorldGrows
  BY WorldOnlyGrows
<1>2. ASSUME NEW c \in Calls, OwnerStep(c) PROVE Told'
  <2>1. \A d \in Calls : d # c => Unmoved(d)
    <3>1. CASE Existing(c) \/ Validate(c) \/ Begin(c) \/ Endorse(c) \/ MarkExecuted(c)
      BY <1>0, <3>1 DEF Existing, Validate, Begin, Endorse, MarkExecuted, Goto, Return, Unmoved
    <3>2. CASE LockFinality(c) \/ Send(c) \/ MarkSubmission(c) \/ WaitFinality(c)
      BY <1>0, <3>2 DEF LockFinality, Send, MarkSubmission, WaitFinality, Goto, Return, Unmoved
    <3>3. CASE Refresh(c) \/ RecordFinality(c) \/ Confirm(c) \/ UnlockFinality(c) \/ Complete(c)
      BY <1>0, <3>3 DEF Refresh, RecordFinality, Confirm, UnlockFinality, Complete,
         Goto, Return, Unmoved
    <3>. QED  BY <1>2, <3>1, <3>2, <3>3 DEF OwnerStep
  <2>2. ToldAt(c)'
    BY <1>2, OwnerTold
  <2>. QED  BY <1>1, <2>1, <2>2, ToldStays DEF Told
<1>3. ASSUME NEW c \in Calls, ReplayStep(c) \/ ReplayExpire(c) PROVE Told'
  <2>1. \A d \in Calls : d # c => Unmoved(d)
    BY <1>0, <1>3 DEF ReplayStep, ReplayWait, ReplayOutcome, ReplayLock, ReplayRead,
       ReplayExpire, Goto, Return, Unmoved
  <2>2. ToldAt(c)'
    BY <1>3, ReplayTold
  <2>. QED  BY <1>1, <2>1, <2>2, ToldStays DEF Told
<1>4. ASSUME NEW c \in Calls, NEW q \in Requests, Arrive(c, q) PROVE Told'
  <2>1. \A d \in Calls : d # c => Unmoved(d)
    BY <1>0, <1>4 DEF Arrive, Goto, Unmoved
  <2>2. ToldAt(c)
    BY DEF Told
  <2>3. reply'[c] = "none" /\ pc'[c] \in {"begin", "existing", "wait"}
    BY <1>0, <1>4, <2>2 DEF Arrive, Goto, Requests, Kinds, ToldAt
  <2>4. ToldAt(c)'
    BY <2>3, NothingTold
  <2>. QED  BY <1>1, <2>1, <2>4, ToldStays DEF Told
<1>5. CASE UNCHANGED callVars
  <2>1. \A d \in Calls : Unmoved(d)
    BY <1>5 DEF callVars, Unmoved
  <2>. QED  BY <1>1, <2>1, ToldStays DEF Told
<1>6. PassStep => UNCHANGED callVars
  BY DEF PassStep, PassCollect, PassQuery, PassGiveUp, PassRelease, PassClaim,
     PassRecord, PassConfirm
<1>7. ASSUME NEW t \in Txs, Finalize(t) PROVE UNCHANGED callVars
  BY <1>7 DEF Finalize
<1>8. OtherTraffic \/ StopReconciliation \/ UNCHANGED vars => UNCHANGED callVars
  BY DEF OtherTraffic, StopReconciliation, vars
<1>. QED  BY <1>2, <1>3, <1>4, <1>5, <1>6, <1>7, <1>8 DEF Next

\* A record nobody marks, settles or completes is as ordered as before.
LEMMA OrderedStays ==
  ASSUME IInv, Ordered, WorldGrows, NEW r \in Calls,
         pc'[r] = "mark" => pc[r] = "mark" /\ ack'[r] = ack[r],
         state'[r] = state[r], recErr'[r] = recErr[r], submitted'[r] = submitted[r],
         status'[r] = status[r], state[r] # "NONE" => req'[r] = req[r]
  PROVE  OrderedAt(r)'
<1>1. OrderedAt(r) /\ RecordAt(r)
  BY DEF Ordered, IInv, CallInv
<1>2. state[r] # "NONE" => Tx(r)' = Tx(r)
  BY DEF Tx
<1>3. pc[r] = "mark" \/ Pending(r) => state[r] # "NONE"
  BY <1>1 DEF RecordAt, Pending
<1>. QED  BY <1>1, <1>2, <1>3 DEF OrderedAt, Pending, WorldGrows

\* confirmFinality gives a submitted record its status.
LEMMA ConfirmOrdered ==
  ASSUME IInv, Ordered, WorldGrows, NEW q \in Calls, ConfirmFinality(q), ledger[Tx(q)] # "",
         \A r \in Calls : pc'[r] = "mark" => pc[r] = "mark", ack' = ack, req' = req
  PROVE  \A r \in Calls : OrderedAt(r)'
<1>0. /\ state \in [Calls -> States] /\ recErr \in [Calls -> BOOLEAN]
      /\ status \in [Calls -> Verdicts \cup {""}]
  BY DEF IInv, TypeOK
<1>1. CASE Pending(q)
  <2>1. /\ state' = [state EXCEPT ![q] = "COMPLETED"]
        /\ status' = [status EXCEPT ![q] = ledger[Tx(q)]]
        /\ \E err \in BOOLEAN : recErr' = [recErr EXCEPT ![q] = err]
        /\ submitted' = submitted
    BY <1>1 DEF ConfirmFinality
  <2>2. OrderedAt(q)'
    <3>1. state'[q] = "COMPLETED" /\ status'[q] # ""
      BY <1>0, <2>1
    <3>2. pc'[q] # "mark"
      BY <1>1 DEF IInv, CallInv, RecordAt, Pending
    <3>. QED  BY <3>1, <3>2 DEF OrderedAt, Pending
  <2>3. ASSUME NEW r \in Calls, r # q PROVE OrderedAt(r)'
    <3>1. state'[r] = state[r] /\ recErr'[r] = recErr[r] /\ status'[r] = status[r]
      BY <1>0, <2>1, <2>3
    <3>. QED  BY <2>1, <3>1, OrderedStays
  <2>. QED  BY <2>2, <2>3
<1>2. CASE ~Pending(q)
  <2>1. UNCHANGED recordVars
    BY <1>2 DEF ConfirmFinality
  <2>. QED  BY <2>1, OrderedStays DEF recordVars
<1>. QED  BY <1>1, <1>2

LEMMA OwnerOrdered ==
  ASSUME IInv, Ordered, WorldGrows, NEW c \in Calls, OwnerStep(c)
  PROVE  \A r \in Calls : OrderedAt(r)'
<1>0. /\ pc \in [Calls -> Labels] /\ state \in [Calls -> States]
      /\ recErr \in [Calls -> BOOLEAN] /\ submitted \in [Calls -> BOOLEAN]
      /\ ack \in [Calls -> Acks] /\ fail \in [Calls -> BOOLEAN]
  BY DEF IInv, TypeOK
<1>1. HandlerAt(c) /\ KnownAt(c) /\ RecordAt(c) /\ OrderedAt(c)
  BY DEF IInv, CallInv, Ordered
<1>2. CASE Confirm(c)
  <2>1. on[c] \in Calls /\ Tx(on[c]) = Tx(c)
    BY <1>1, <1>2 DEF Confirm, HandlerAt, Pointing
  <2>2. ledger[Tx(c)] # ""
    BY <1>1, <1>2 DEF Confirm, KnownAt
  <2>3. ConfirmFinality(on[c]) /\ ack' = ack /\ req' = req
    BY <1>2 DEF Confirm
  <2>4. \A r \in Calls : pc'[r] = "mark" => pc[r] = "mark"
    BY <1>0, <1>2 DEF Confirm, Goto
  <2>. QED  BY <2>1, <2>2, <2>3, <2>4, ConfirmOrdered
<1>3. CASE ~Confirm(c)
  <2>1. status' = status /\ req' = req
    BY <1>3 DEF OwnerStep, Existing, Validate, Begin, Endorse, MarkExecuted, LockFinality,
         Send, MarkSubmission, WaitFinality, Refresh, RecordFinality,
         UnlockFinality, Complete, recordVars
  <2>2. ASSUME NEW d \in Calls, d # c
        PROVE  /\ pc'[d] = pc[d] /\ ack'[d] = ack[d] /\ state'[d] = state[d]
               /\ recErr'[d] = recErr[d] /\ submitted'[d] = submitted[d]
    <3>1. CASE Existing(c) \/ Validate(c) \/ Begin(c) \/ Endorse(c) \/ MarkExecuted(c)
      BY <1>0, <2>2, <3>1 DEF Existing, Validate, Begin, Endorse, MarkExecuted, Goto,
         Return, recordVars
    <3>2. CASE LockFinality(c) \/ Send(c) \/ MarkSubmission(c) \/ WaitFinality(c)
      BY <1>0, <2>2, <3>2 DEF LockFinality, Send, MarkSubmission, WaitFinality, Goto,
         Return, recordVars
    <3>3. CASE Refresh(c) \/ RecordFinality(c) \/ UnlockFinality(c) \/ Complete(c)
      BY <1>0, <2>2, <3>3 DEF Refresh, RecordFinality, UnlockFinality, Complete,
         Goto, Return, recordVars
    <3>. QED  BY <1>3, <3>1, <3>2, <3>3 DEF OwnerStep
  <2>3. \A d \in Calls : d # c => OrderedAt(d)'
    BY <2>1, <2>2, OrderedStays
  <2>4. OrderedAt(c)'
    <3>1. CASE Send(c)
      <4>1. /\ ack'[c] = "ok" => delivered' = delivered \cup {Tx(c)}
            /\ state' = state /\ recErr' = recErr /\ submitted' = submitted
        BY <1>0, <3>1 DEF Send, recordVars
      <4>2. state[c] = "EXECUTED"
        BY <1>1, <3>1 DEF Send, RecordAt
      <4>3. Tx(c)' = Tx(c)
        BY <2>1 DEF Tx
      <4>. QED  BY <1>1, <2>1, <4>1, <4>2, <4>3 DEF OrderedAt, Pending
    <3>2. CASE MarkSubmission(c)
      <4>1. pc'[c] # "mark" /\ delivered' = delivered /\ Tx(c)' = Tx(c)
        BY <1>0, <2>1, <3>2 DEF MarkSubmission, Goto, worldVars, Tx
      <4>2. state[c] = "EXECUTED" /\ ack[c] # "none" /\ pc[c] = "mark"
        BY <1>1, <3>2 DEF MarkSubmission, RecordAt
      <4>3. CASE ack[c] = "failed"
        <5>1. state' = state /\ recErr' = recErr /\ submitted' = submitted
          BY <3>2, <4>3 DEF MarkSubmission, CertainFailure
        <5>. QED  BY <1>1, <2>1, <4>1, <5>1 DEF OrderedAt, Pending
      <4>4. CASE ack[c] # "failed"
        <5>1. state'[c] = "SUBMITTED" /\ recErr'[c] = (ack[c] = "uncertain")
          BY <1>0, <3>2, <4>2, <4>4 DEF MarkSubmission, CertainFailure, Awake, Terminal
        <5>2. ack[c] # "uncertain" => ack[c] = "ok"
          BY <1>0, <4>2, <4>4 DEF Acks
        <5>3. ack[c] = "ok" => Tx(c) \in delivered
          BY <1>1, <4>2 DEF OrderedAt
        <5>. QED  BY <4>1, <5>1, <5>2, <5>3 DEF OrderedAt, Pending
      <4>. QED  BY <4>3, <4>4
    <3>3. CASE Complete(c)
      <4>1. /\ pc'[c] = "done" /\ submitted' = submitted /\ delivered' = delivered
            /\ Tx(c)' = Tx(c)
        BY <1>0, <2>1, <3>3 DEF Complete, Return, Goto, worldVars, Tx
      <4>2. \/ state' = state /\ recErr' = recErr
            \/ ~Pending(c) /\ state'[c] \in Terminal
        BY <1>0, <3>3 DEF Complete, Awake, Terminal, Pending
      <4>. QED  BY <1>1, <2>1, <4>1, <4>2 DEF OrderedAt, Pending, Terminal
    <3>4. CASE Begin(c) \/ Endorse(c) \/ MarkExecuted(c)
      <4>1. ~Pending(c) /\ ~Pending(c)'
        <5>1. CASE Begin(c)
          BY <1>0, <5>1, Fresh DEF Begin, Unreserved, Pending
        <5>2. CASE Endorse(c) \/ MarkExecuted(c)
          BY <1>0, <1>1, <5>2 DEF Endorse, MarkExecuted, RecordAt, Pending
        <5>. QED  BY <3>4, <5>1, <5>2
      <4>2. pc'[c] # "mark" /\ submitted' = submitted
        BY <1>0, <3>4 DEF Begin, Endorse, MarkExecuted, Goto, Return
      <4>. QED  BY <1>1, <2>1, <4>1, <4>2 DEF OrderedAt
    <3>5. CASE \/ Existing(c) \/ Validate(c) \/ LockFinality(c) \/ WaitFinality(c)
               \/ Refresh(c) \/ RecordFinality(c) \/ UnlockFinality(c)
      <4>1. /\ UNCHANGED recordVars /\ pc'[c] # "mark"
        BY <1>0, <3>5 DEF Existing, Validate, LockFinality, WaitFinality, Refresh,
           RecordFinality, UnlockFinality, Goto, Return
      <4>. QED  BY <2>1, <4>1, OrderedStays DEF recordVars
    <3>. QED  BY <1>3, <3>1, <3>2, <3>3, <3>4, <3>5 DEF OwnerStep
  <2>. QED  BY <2>3, <2>4
<1>. QED  BY <1>2, <1>3

LEMMA OrderedNext ==
  ASSUME IInv, Ordered, [Next]_vars
  PROVE  Ordered'
<1>0. /\ pc \in [Calls -> Labels] /\ req \in [Calls -> Requests \cup {None}]
  BY DEF IInv, TypeOK
<1>1. WorldGrows
  BY WorldOnlyGrows
<1>2. \A t \in Txs : ledger'[t] # "" => t \in delivered'
  BY <1>1 DEF WorldGrows, Ordered
<1>3. SUFFICES \A r \in Calls : OrderedAt(r)'
  BY <1>2 DEF Ordered
<1>4. ASSUME UNCHANGED recordVars, ack' = ack,
             \A r \in Calls : /\ pc'[r] = "mark" => pc[r] = "mark"
                              /\ state[r] # "NONE" => req'[r] = req[r]
      PROVE  \A r \in Calls : OrderedAt(r)'
  BY <1>1, <1>4, OrderedStays DEF recordVars
<1>5. ASSUME NEW c \in Calls, OwnerStep(c) PROVE \A r \in Calls : OrderedAt(r)'
  BY <1>1, <1>5, OwnerOrdered
<1>6. ASSUME NEW c \in Calls, ReplayStep(c) \/ ReplayExpire(c)
      PROVE  \A r \in Calls : OrderedAt(r)'
  <2>1. UNCHANGED recordVars /\ ack' = ack /\ req' = req
    BY <1>6 DEF ReplayStep, ReplayWait, ReplayOutcome, ReplayLock, ReplayRead, ReplayExpire
  <2>2. \A r \in Calls : pc'[r] = "mark" => pc[r] = "mark"
    BY <1>0, <1>6 DEF ReplayStep, ReplayWait, ReplayOutcome, ReplayLock, ReplayRead,
       ReplayExpire, Goto, Return
  <2>. QED  BY <1>4, <2>1, <2>2
<1>7. ASSUME NEW c \in Calls, NEW q \in Requests, Arrive(c, q)
      PROVE  \A r \in Calls : OrderedAt(r)'
  <2>1. UNCHANGED recordVars /\ ack' = ack
    BY <1>7 DEF Arrive
  <2>2. state[c] = "NONE"
    BY <1>7, Fresh DEF Arrive, Unreserved
  <2>3. \A r \in Calls : /\ pc'[r] = "mark" => pc[r] = "mark"
                         /\ state[r] # "NONE" => req'[r] = req[r]
    BY <1>0, <1>7, <2>2 DEF Arrive, Goto, Requests, Kinds
  <2>. QED  BY <1>4, <2>1, <2>3
<1>8. CASE PassConfirm
  <2>1. /\ current \in Calls /\ ledger[Tx(current)] # "" /\ ConfirmFinality(current)
        /\ UNCHANGED callVars
    BY <1>8 DEF PassConfirm, IInv, PassKnows
  <2>. QED  BY <1>1, <2>1, ConfirmOrdered DEF callVars
<1>9. CASE UNCHANGED recordVars /\ UNCHANGED callVars
  BY <1>4, <1>9 DEF callVars
<1>10. PassStep /\ ~PassConfirm => UNCHANGED recordVars /\ UNCHANGED callVars
  BY DEF PassStep, PassCollect, PassQuery, PassGiveUp, PassRelease, PassClaim, PassRecord
<1>11. ASSUME NEW t \in Txs, Finalize(t) PROVE UNCHANGED recordVars /\ UNCHANGED callVars
  BY <1>11 DEF Finalize
<1>12. OtherTraffic \/ StopReconciliation \/ UNCHANGED vars =>
         UNCHANGED recordVars /\ UNCHANGED callVars
  BY DEF OtherTraffic, StopReconciliation, vars
<1>. QED  BY <1>5, <1>6, <1>7, <1>8, <1>9, <1>10, <1>11, <1>12 DEF Next

LEMMA ToldInit == Init => Ordered /\ Told
BY DEF Init, Ordered, OrderedAt, Told, ToldAt, Pending, Verdicts

-----------------------------------------------------------------------------
\* Locks, callbacks, ordering and replies stay in step with the records, for
\* any interleaving of handlers, duplicates, status requests and the pass.
THEOREM FinalityInvariance == Spec => [](IInv /\ Locks /\ Callbacks /\ Ordered /\ Told)
<1> DEFINE J == IInv /\ Locks /\ Callbacks /\ Ordered /\ Told
<1>1. Init => J
  BY InitInv, LocksInit, CallbacksInit, ToldInit
<1>2. J /\ [Next]_vars => J'
  BY NextInv, LocksNext, CallbacksNext, OrderedNext, ToldNext
<1>. QED  BY <1>1, <1>2, PTL DEF Spec

\* recordFinality: the init callback of a record runs at most once, for a
\* committed Init transaction only and before COMMITTED is reported, whoever
\* of the owner, status requests and the pass settles the record.
THEOREM CallbackOnce == Spec => []InitOnceOnCommit
<1>1. IInv /\ Callbacks => InitOnceOnCommit
  <2> SUFFICES ASSUME IInv, Callbacks, NEW r \in Calls
               PROVE  /\ initRuns[r] <= 1
                      /\ initRuns[r] = 1 =>
                           ledger[Tx(r)] = "COMMITTED" /\ req[r].payload \in InitPayloads
                      /\ status[r] = "COMMITTED" /\ req[r].payload \in InitPayloads =>
                           initRuns[r] = 1
                      /\ event[r] = (status[r] = "COMMITTED")
    BY DEF InitOnceOnCommit
  <2>1. CallbackAt(r) /\ event[r] \in BOOLEAN
    BY DEF Callbacks, IInv, TypeOK
  <2>2. initRuns[r] = IF Settling(r) /\ Due(r) THEN 1 ELSE 0
    BY <2>1 DEF CallbackAt
  <2>3. initRuns[r] <= 1
    BY <2>2
  <2>4. initRuns[r] = 1 => ledger[Tx(r)] = "COMMITTED" /\ req[r].payload \in InitPayloads
    BY <2>2 DEF Due
  <2>5. status[r] = "COMMITTED" /\ req[r].payload \in InitPayloads => initRuns[r] = 1
    BY <2>1, <2>2 DEF CallbackAt, Settling, Due
  <2>6. event[r] = (status[r] = "COMMITTED")
    BY <2>1 DEF CallbackAt
  <2>. QED  BY <2>3, <2>4, <2>5, <2>6
<1>. QED  BY <1>1, FinalityInvariance, PTL

\* waitResult, submissionOutcome and CommitStatus: a reported verdict is the
\* ledger's, an acknowledged submission was ordered, and a response without
\* submission comes from a record that sent nothing.
THEOREM ClientsToldTruth == Spec => []RepliesAreTrue
<1>1. Told => RepliesAreTrue
  BY DEF Told, ToldAt, RepliesAreTrue
<1>. QED  BY <1>1, FinalityInvariance, PTL

\* stopReconciliation waits for the pass and triggerReconciliation starts none
\* afterwards, so a closed service runs no pass and holds no claim.
THEOREM ClosedIsQuiet == Spec => []NoPassAfterClose
<1>1. Locks => NoPassAfterClose
  BY DEF Locks, PassLocks, NoPassAfterClose
<1>. QED  BY <1>1, FinalityInvariance, PTL

-----------------------------------------------------------------------------
(* TxStore implements SubmissionContract.  Five kinds of step change what  *)
(* the contract sees (begin, Submit, complete, confirmFinality and the     *)
(* ledger's verdict); every other step is a stutter.                       *)

\* The contract's view of the requests.
Phases == [c \in Calls |-> Phase(c)]

\* What a record's phase depends on.
LEMMA PhaseOf ==
  ASSUME NEW c \in Calls
  PROVE  /\ state[c] = "NONE" => Phase(c) = "unused"
         /\ state[c] \in Active /\ c \notin handed => Phase(c) = "working"
         /\ state[c] \in Active /\ c \in handed => Phase(c) = "outstanding"
         /\ state[c] \in Terminal /\ c \notin handed => Phase(c) = "released"
         /\ state[c] \in Terminal /\ c \in handed => Phase(c) = "settled"
BY DEF Phase, Active, Terminal

\* The same for the next state.
LEMMA PhaseNext ==
  ASSUME NEW c \in Calls
  PROVE  /\ state'[c] = "NONE" => Phase(c)' = "unused"
         /\ state'[c] \in Active /\ c \notin handed' => Phase(c)' = "working"
         /\ state'[c] \in Active /\ c \in handed' => Phase(c)' = "outstanding"
         /\ state'[c] \in Terminal /\ c \notin handed' => Phase(c)' = "released"
         /\ state'[c] \in Terminal /\ c \in handed' => Phase(c)' = "settled"
BY DEF Phase, Active, Terminal

\* A record that neither changes class nor is handed over keeps its phase.
LEMMA SamePhase ==
  ASSUME NEW c \in Calls, state'[c] = state[c], c \in handed' <=> c \in handed
  PROVE  Phase(c)' = Phase(c)
BY DEF Phase

\* A step that keeps the store, the ledger and every phase is a stutter.
LEMMA Stutters ==
  ASSUME store' = store, ledger' = ledger, \A c \in Calls : Phase(c)' = Phase(c)
  PROVE  UNCHANGED Contract!vars
BY DEF Contract!vars

\* One request's phase changes: the other requests keep theirs.
LEMMA PhaseMoves ==
  ASSUME NEW c \in Calls, NEW p, Phase(c)' = p,
         \A d \in Calls : d # c => Phase(d)' = Phase(d)
  PROVE  Phases' = [Phases EXCEPT ![c] = p]
BY DEF Phases

\* begin, when it creates the record, is Reserve.
LEMMA Reserves ==
  ASSUME IInv, NEW c \in Calls, Begin(c), store[Tx(c)] = None
  PROVE  Contract!Next
<1>0. /\ state \in [Calls -> States] /\ pc[c] = "begin" /\ handed' = handed
      /\ ledger' = ledger
  BY DEF IInv, TypeOK, Begin, worldVars
<1>1. state[c] = "NONE" /\ c \notin handed /\ Tx(c) \in Txs
  BY <1>0, Fresh DEF Unreserved
<1>2. /\ store' = [store EXCEPT ![Tx(c)] = c]
      /\ state' = [state EXCEPT ![c] = "IN_PROGRESS"]
  BY DEF Begin
<1>3. Phase(c) = "unused" /\ Phase(c)' = "working"
  BY <1>0, <1>1, <1>2, PhaseOf, PhaseNext DEF Active
<1>4. \A d \in Calls : d # c => Phase(d)' = Phase(d)
  BY <1>0, <1>2, SamePhase
<1>5. Phases' = [Phases EXCEPT ![c] = "working"]
  BY <1>3, <1>4, PhaseMoves
<1>6. Contract!Reserve(c, Tx(c))
  BY <1>0, <1>2, <1>3, <1>5 DEF Contract!Reserve, Phases
<1> QED  BY <1>1, <1>6 DEF Contract!Next

\* An accepted or uncertain send is HandOver.
LEMMA HandsOver ==
  ASSUME IInv, NEW c \in Calls, Send(c), handed' # handed
  PROVE  Contract!Next
<1>0. /\ store' = store /\ state' = state /\ ledger' = ledger
      /\ handed' = handed \cup {c} /\ pc[c] = "send"
  BY DEF Send, recordVars
<1>1. state[c] = "EXECUTED" /\ c \notin handed
  BY <1>0 DEF IInv, CallInv, RecordAt
<1>2. Tx(c) \in Txs /\ store[Tx(c)] = c
  BY <1>1, Served DEF IInv, OneRecordPerTx, Active
<1>3. Phase(c) = "working" /\ Phase(c)' = "outstanding"
  BY <1>0, <1>1, PhaseOf, PhaseNext DEF Active
<1>4. \A d \in Calls : d # c => Phase(d)' = Phase(d)
  BY <1>0, SamePhase
<1>5. Phases' = [Phases EXCEPT ![c] = "outstanding"]
  BY <1>3, <1>4, PhaseMoves
<1>6. Contract!HandOver(c, Tx(c))
  BY <1>0, <1>2, <1>3, <1>5 DEF Contract!HandOver, Phases
<1> QED  BY <1>2, <1>6 DEF Contract!Next

\* complete, when the record was not submitted, is GiveBack.
LEMMA GivesBack ==
  ASSUME IInv, NEW c \in Calls, Complete(c), ~Awake(c)
  PROVE  Contract!Next
<1>0. /\ state \in [Calls -> States] /\ pc[c] = "complete" /\ handed' = handed
      /\ ledger' = ledger /\ Remove(c)
      /\ state' = [state EXCEPT ![c] = IF fail[c] THEN "FAILED" ELSE "COMPLETED"]
  BY DEF IInv, TypeOK, Complete, worldVars
<1>1. state[c] # "NONE" /\ state[c] \in Active
  BY <1>0 DEF IInv, CallInv, HandlerAt, Owning, Awake, Active, Terminal, States
<1>2. c \notin handed
  BY <1>0, <1>1 DEF IInv, CallInv, RecordAt, Awake, Active
<1>3. Tx(c) \in Txs /\ store[Tx(c)] = c
  BY <1>1, Served DEF IInv, OneRecordPerTx
<1>4. state'[c] \in Terminal
  BY <1>0 DEF Terminal
<1>5. Phase(c) = "working" /\ Phase(c)' = "released"
  BY <1>0, <1>1, <1>2, <1>4, PhaseOf, PhaseNext
<1>6. \A d \in Calls : d # c => Phase(d)' = Phase(d)
  BY <1>0, SamePhase
<1>7. Phases' = [Phases EXCEPT ![c] = "released"]
  BY <1>5, <1>6, PhaseMoves
<1>8. store' = [store EXCEPT ![Tx(c)] = None]
  BY <1>0, <1>3 DEF Remove
<1>9. Contract!GiveBack(c, Tx(c))
  BY <1>0, <1>3, <1>5, <1>7, <1>8 DEF Contract!GiveBack, Phases
<1> QED  BY <1>3, <1>9 DEF Contract!Next

\* confirmFinality of a pending receipt is Settle.
LEMMA SettlesContract ==
  ASSUME IInv, NEW r \in Calls, ConfirmFinality(r), Pending(r), ledger[Tx(r)] # "",
         handed' = handed, ledger' = ledger
  PROVE  Contract!Next
<1>0. /\ state \in [Calls -> States] /\ state[r] = "SUBMITTED" /\ Remove(r)
      /\ state' = [state EXCEPT ![r] = "COMPLETED"]
  BY DEF IInv, TypeOK, ConfirmFinality, Pending
<1>1. r \in handed
  BY <1>0 DEF IInv, CallInv, RecordAt
<1>2. Tx(r) \in Txs /\ store[Tx(r)] = r
  BY <1>0, Served DEF IInv, OneRecordPerTx, Active
<1>3. Phase(r) = "outstanding" /\ Phase(r)' = "settled"
  BY <1>0, <1>1, PhaseOf, PhaseNext DEF Active, Terminal
<1>4. \A d \in Calls : d # r => Phase(d)' = Phase(d)
  BY <1>0, SamePhase
<1>5. Phases' = [Phases EXCEPT ![r] = "settled"]
  BY <1>3, <1>4, PhaseMoves
<1>6. store' = [store EXCEPT ![Tx(r)] = None]
  BY <1>0, <1>2 DEF Remove
<1>7. Contract!Settle(r, Tx(r))
  BY <1>2, <1>3, <1>5, <1>6 DEF Contract!Settle, Phases
<1> QED  BY <1>2, <1>7 DEF Contract!Next

\* confirmFinality of any other record is a stutter.
LEMMA ConfirmMaps ==
  ASSUME IInv, NEW r \in Calls, ConfirmFinality(r), ledger[Tx(r)] # "",
         handed' = handed, ledger' = ledger
  PROVE  Contract!Next \/ UNCHANGED Contract!vars
<1>1. CASE Pending(r)
  BY <1>1, SettlesContract
<1>2. CASE ~Pending(r)
  <2>1. store' = store /\ state' = state
    BY <1>2 DEF ConfirmFinality, recordVars
  <2> QED  BY <2>1, SamePhase, Stutters
<1> QED  BY <1>1, <1>2

\* The ledger's verdict is Decide.
LEMMA Decides ==
  ASSUME NEW t \in Txs, Finalize(t)
  PROVE  Contract!Next
<1>1. /\ store' = store /\ state' = state /\ handed' = handed /\ ledger[t] = ""
  BY DEF Finalize, recordVars
<1>2. \A d \in Calls : Phase(d)' = Phase(d)
  BY <1>1, SamePhase
<1>3. PICK v \in Verdicts : ledger' = [ledger EXCEPT ![t] = v]
  BY DEF Finalize
<1>4. Contract!Decide(t, v)
  BY <1>1, <1>2, <1>3 DEF Contract!Decide
<1> QED  BY <1>4 DEF Contract!Next, Contract!Verdicts, Verdicts

\* Steps that neither create, finish nor hand over a record are stutters.
LEMMA QuietMaps ==
  ASSUME store' = store, ledger' = ledger, handed' = handed, state' = state
  PROVE  UNCHANGED Contract!vars
BY SamePhase, Stutters

\* Advancing an unfinished record is a stutter.
LEMMA AdvanceMaps ==
  ASSUME NEW c \in Calls, store' = store, ledger' = ledger, handed' = handed,
         state[c] \in Active, state'[c] \in Active, IInv,
         \A d \in Calls : d # c => state'[d] = state[d]
  PROVE  UNCHANGED Contract!vars
<1>1. Phase(c)' = Phase(c)
  BY PhaseOf, PhaseNext
<1>2. \A d \in Calls : d # c => Phase(d)' = Phase(d)
  BY SamePhase
<1> QED  BY <1>1, <1>2, Stutters

\* Every step of a handler is a contract step or a stutter.
LEMMA OwnerMaps ==
  ASSUME IInv, NEW c \in Calls, OwnerStep(c)
  PROVE  Contract!Next \/ UNCHANGED Contract!vars
<1>0. /\ state \in [Calls -> States] /\ HandlerAt(c) /\ KnownAt(c) /\ RecordAt(c)
  BY DEF IInv, TypeOK, CallInv
<1>1. CASE \/ Existing(c) \/ Validate(c) \/ LockFinality(c) \/ WaitFinality(c)
           \/ Refresh(c) \/ RecordFinality(c) \/ UnlockFinality(c)
  <2>1. store' = store /\ ledger' = ledger /\ handed' = handed /\ state' = state
    BY <1>1 DEF Existing, Validate, LockFinality, WaitFinality, Refresh,
                RecordFinality, UnlockFinality, recordVars, worldVars
  <2> QED  BY <2>1, QuietMaps
<1>2. CASE Begin(c)
  <2>1. CASE store[Tx(c)] = None
    BY <1>2, <2>1, Reserves
  <2>2. CASE store[Tx(c)] # None
    <3>1. store' = store /\ ledger' = ledger /\ handed' = handed /\ state' = state
      BY <1>2, <2>2 DEF Begin, worldVars
    <3> QED  BY <3>1, QuietMaps
  <2> QED  BY <2>1, <2>2
<1>3. CASE Endorse(c) \/ MarkExecuted(c)
  <2>1. /\ store' = store /\ ledger' = ledger /\ handed' = handed
        /\ state[c] = "IN_PROGRESS"
    BY <1>0, <1>3 DEF Endorse, MarkExecuted, worldVars, RecordAt
  <2>2. state'[c] \in {"IN_PROGRESS", "EXECUTED"} /\ \A d \in Calls : d # c => state'[d] = state[d]
    BY <1>0, <1>3, <2>1 DEF Endorse, MarkExecuted
  <2>3. state[c] \in Active /\ state'[c] \in Active
    BY <2>1, <2>2 DEF Active
  <2> QED  BY <2>1, <2>2, <2>3, AdvanceMaps
<1>4. CASE Send(c)
  <2>1. CASE handed' = handed
    <3>1. store' = store /\ ledger' = ledger /\ state' = state
      BY <1>4 DEF Send, recordVars
    <3> QED  BY <2>1, <3>1, QuietMaps
  <2>2. CASE handed' # handed
    BY <1>4, <2>2, HandsOver
  <2> QED  BY <2>1, <2>2
<1>5. CASE MarkSubmission(c)
  <2>1. /\ store' = store /\ ledger' = ledger /\ handed' = handed
        /\ state[c] = "EXECUTED"
    BY <1>0, <1>5 DEF MarkSubmission, worldVars, RecordAt
  <2>2. state'[c] \in {"SUBMITTED", "EXECUTED"} /\ \A d \in Calls : d # c => state'[d] = state[d]
    BY <1>0, <1>5, <2>1 DEF MarkSubmission
  <2>3. state[c] \in Active /\ state'[c] \in Active
    BY <2>1, <2>2 DEF Active
  <2> QED  BY <2>1, <2>2, <2>3, AdvanceMaps
<1>6. CASE Confirm(c)
  <2>1. /\ on[c] \in Calls /\ ledger[Tx(on[c])] # "" /\ handed' = handed /\ ledger' = ledger
    BY <1>0, <1>6 DEF Confirm, HandlerAt, KnownAt, Pointing, worldVars
  <2> QED  BY <1>6, <2>1, ConfirmMaps DEF Confirm
<1>7. CASE Complete(c)
  <2>1. CASE Awake(c)
    <3>1. store' = store /\ ledger' = ledger /\ handed' = handed /\ state' = state
      BY <1>7, <2>1 DEF Complete, worldVars
    <3> QED  BY <3>1, QuietMaps
  <2>2. CASE ~Awake(c)
    BY <1>7, <2>2, GivesBack
  <2> QED  BY <2>1, <2>2
<1> QED  BY <1>1, <1>2, <1>3, <1>4, <1>5, <1>6, <1>7 DEF OwnerStep

\* Every step of the pass is a contract step or a stutter.
LEMMA PassMaps ==
  ASSUME IInv, PassStep
  PROVE  Contract!Next \/ UNCHANGED Contract!vars
<1>1. CASE PassConfirm
  <2>1. /\ current \in Calls /\ ledger[Tx(current)] # "" /\ handed' = handed
        /\ ledger' = ledger /\ ConfirmFinality(current)
    BY <1>1 DEF PassConfirm, IInv, PassKnows, worldVars
  <2> QED  BY <2>1, ConfirmMaps
<1>2. CASE ~PassConfirm
  <2>1. store' = store /\ ledger' = ledger /\ handed' = handed /\ state' = state
    BY <1>2 DEF PassStep, PassCollect, PassQuery, PassGiveUp, PassRelease,
                PassClaim, PassRecord, recordVars, worldVars
  <2> QED  BY <2>1, QuietMaps
<1> QED  BY <1>1, <1>2

\* Every step maps to a contract step or a stutter.
LEMMA StepMaps == IInv /\ [Next]_vars => [Contract!Next]_(Contract!vars)
<1> SUFFICES ASSUME IInv, [Next]_vars
             PROVE  Contract!Next \/ UNCHANGED Contract!vars
  OBVIOUS
<1>1. ASSUME NEW c \in Calls, OwnerStep(c)
      PROVE  Contract!Next \/ UNCHANGED Contract!vars
  BY <1>1, OwnerMaps
<1>2. ASSUME PassStep
      PROVE  Contract!Next \/ UNCHANGED Contract!vars
  BY <1>2, PassMaps
<1>3. ASSUME NEW t \in Txs, Finalize(t)
      PROVE  Contract!Next \/ UNCHANGED Contract!vars
  BY <1>3, Decides
<1>4. ASSUME \/ \E c \in Calls : \E r \in Requests : Arrive(c, r)
             \/ \E c \in Calls : ReplayStep(c) \/ ReplayExpire(c)
             \/ OtherTraffic \/ StopReconciliation \/ UNCHANGED vars
      PROVE  UNCHANGED Contract!vars
  <2>1. store' = store /\ ledger' = ledger /\ handed' = handed /\ state' = state
    BY <1>4 DEF Arrive, ReplayStep, ReplayExpire, ReplayWait, ReplayOutcome,
                ReplayLock, ReplayRead, OtherTraffic, StopReconciliation, vars,
                recordVars, worldVars
  <2> QED  BY <2>1, QuietMaps
<1> QED  BY <1>1, <1>2, <1>3, <1>4 DEF Next

\* The initial states map to the contract's.
LEMMA InitMaps == Init => Contract!Init
<1> SUFFICES ASSUME Init PROVE Contract!Init
  OBVIOUS
<1>1. \A c \in Calls : state[c] = "NONE"
  BY DEF Init
<1>2. \A c \in Calls : Phase(c) = "unused"
  BY <1>1, PhaseOf
<1> QED  BY <1>2 DEF Init, Contract!Init

\* The orchestrator's submission path implements the contract: an ID is held
\* by one request, handed to ordering at most once, and released only unsent
\* or with the ledger's verdict.
THEOREM StoreImplementsContract == Spec => ImplementsContract
BY InitMaps, StepMaps, Invariance, PTL DEF Spec, ImplementsContract, Contract!Spec

=============================================================================

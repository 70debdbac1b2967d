------------------------------- MODULE TxStore -------------------------------
(***************************************************************************)
(* The orchestrator's transaction store: duplicate detection, the ordering *)
(* stage, finality waits and lazy reconciliation (idempotency.go, the      *)
(* submission half of execution.go, and the handlers of service.go that    *)
(* drive them: Execute, Submit, CommitStatus and Close).                   *)
(*                                                                         *)
(* A request ("call") is one run of a handler.  An idempotencyRecord is    *)
(* created by exactly one call, so the record is named by that call: the   *)
(* pointer identity the Go code relies on is identity of the creating      *)
(* call.  A record's Key and Digest are its creator's transaction ID and   *)
(* request digest.                                                         *)
(***************************************************************************)
EXTENDS Naturals, FiniteSets

CONSTANTS Calls,         \* requests, and the records they create
          Txs,           \* transaction IDs (idempotency keys)
          Payloads,      \* what distinguishes request digests of one kind
          InitPayloads,  \* payloads of chaincode Init transactions
          Load,          \* Load[c]: the requests call c may be
          BatchSize,     \* recoveryBatchSize
          None,          \* no record / nobody
          Pass           \* the maintenance goroutine as a lock owner

ASSUME CallsAssumption == None \notin Calls /\ Pass \notin Calls /\ None # Pass
ASSUME PayloadsAssumption == InitPayloads \subseteq Payloads
ASSUME BatchAssumption == BatchSize \in Nat \ {0}

Kinds == {"invoke", "submit", "status"}
Requests == [kind : Kinds, tx : Txs, payload : Payloads]
ASSUME LoadAssumption == Load \in [Calls -> SUBSET Requests]
Verdicts == {"COMMITTED", "ABORTED"}

Active == {"IN_PROGRESS", "EXECUTED", "SUBMITTED"}
Terminal == {"COMPLETED", "FAILED"}
States == {"NONE"} \cup Active \cup Terminal

Labels == {"idle", "begin", "existing", "validate", "endorse", "markExecuted",
           "lock", "send", "mark", "wait", "record", "confirm", "unlock",
           "complete", "replay", "outcome", "relock", "reread", "refresh", "done"}
PassLabels == {"idle", "collect", "claim", "apply", "confirm"}
Acks == {"none", "ok", "uncertain", "failed"}
Replies == {"none", "conflict", "rejected", "error", "pending", "response",
            "acknowledged"} \cup Verdicts

VARIABLES
  store,      \* idempotencyStore.records: transaction ID -> record or None
  state,      \* record.State, "NONE" before the record exists
  submitted,  \* record.Response.Submitted
  status,     \* record.Response.CommitStatus, "" while unknown
  event,      \* record.Response.ChaincodeEvent is attached
  recErr,     \* record.Err # nil
  lock,       \* record.finalityCheck: its owner, or None
  req,        \* req[c]: the request call c serves
  pc,         \* pc[c]: where the handler of call c is
  on,         \* on[c]: the record call c holds a pointer to
  ack,        \* ack[c]: what submitter.Submit returned to call c
  fail,       \* fail[c]: the handler's err result is non-nil
  reply,      \* reply[c]: what the client of c was told
  pass,       \* where the maintenance goroutine is, "idle" if not running
  eligible,   \* records whose UpdatedAt is not after the pass's cutoff
  todo,       \* records the pass has still to try to claim
  claimed,    \* records whose finality lock the pass holds
  answers,    \* claimed records the status query answered with a final status
  current,    \* the record the pass is finalizing, or None
  service,    \* "running", "closing" or "closed" (Close)
  handed,     \* records whose envelope ordering may have
  delivered,  \* transactions ordering has accepted
  ledger,     \* the committer's final status of a transaction, "" if none
  initRuns    \* how often record.afterCommit was called

recordVars == <<store, state, submitted, status, event, recErr>>
passVars == <<pass, eligible, todo, claimed, answers, current>>
worldVars == <<handed, delivered, ledger>>
callVars == <<req, pc, on, ack, fail, reply>>
vars == <<recordVars, lock, callVars, passVars, service, worldVars, initRuns>>

TypeOK ==
  /\ store \in [Txs -> Calls \cup {None}]
  /\ state \in [Calls -> States]
  /\ submitted \in [Calls -> BOOLEAN]
  /\ status \in [Calls -> Verdicts \cup {""}]
  /\ event \in [Calls -> BOOLEAN]
  /\ recErr \in [Calls -> BOOLEAN]
  /\ lock \in [Calls -> Calls \cup {None, Pass}]
  /\ req \in [Calls -> Requests \cup {None}]
  /\ pc \in [Calls -> Labels]
  /\ on \in [Calls -> Calls \cup {None}]
  /\ ack \in [Calls -> Acks]
  /\ fail \in [Calls -> BOOLEAN]
  /\ reply \in [Calls -> Replies]
  /\ pass \in PassLabels
  /\ eligible \subseteq Calls
  /\ todo \subseteq Calls
  /\ claimed \subseteq Calls
  /\ answers \subseteq Calls
  /\ current \in Calls \cup {None}
  /\ service \in {"running", "closing", "closed"}
  /\ handed \subseteq Calls
  /\ delivered \subseteq Txs
  /\ ledger \in [Txs -> Verdicts \cup {""}]
  /\ initRuns \in [Calls -> Nat]

Init ==
  /\ store = [t \in Txs |-> None]
  /\ state = [c \in Calls |-> "NONE"]
  /\ submitted = [c \in Calls |-> FALSE]
  /\ status = [c \in Calls |-> ""]
  /\ event = [c \in Calls |-> FALSE]
  /\ recErr = [c \in Calls |-> FALSE]
  /\ lock = [c \in Calls |-> None]
  /\ req = [c \in Calls |-> None]
  /\ pc = [c \in Calls |-> "idle"]
  /\ on = [c \in Calls |-> None]
  /\ ack = [c \in Calls |-> "none"]
  /\ fail = [c \in Calls |-> FALSE]
  /\ reply = [c \in Calls |-> "none"]
  /\ pass = "idle"
  /\ eligible = {} /\ todo = {} /\ claimed = {} /\ answers = {}
  /\ current = None
  /\ service = "running"
  /\ handed = {}
  /\ delivered = {}
  /\ ledger = [t \in Txs |-> ""]
  /\ initRuns = [c \in Calls |-> 0]

-----------------------------------------------------------------------------
(* The store's own operations, each one critical section of its mutex.     *)

Tx(r) == req[r].tx

\* Execute and Submit hash different domains, so the kind is in the digest.
SameDigest(r, c) == req[r].kind = req[c].kind /\ req[r].payload = req[c].payload

Pending(r) == state[r] = "SUBMITTED"

\* Mutants of Awake: complete ignores that the record was submitted; the done
\* channel is never closed.
AwakeOnlyFinished(r) == state[r] \in Terminal
AwakeOnlySubmitted(r) == state[r] = "SUBMITTED"

\* wait's two channels: submitted is closed by markSubmission, done by
\* complete and confirmFinality.
Awake(r) == state[r] \in {"SUBMITTED"} \cup Terminal

\* Mutant of WaitResult: the status is reported without looking whether there is one.
WaitResultUnchecked(r) ==
  CASE state[r] = "SUBMITTED" -> "pending"
    [] state[r] # "SUBMITTED" /\ recErr[r] -> "error"
    [] OTHER -> status[r]

\* What waitResult tells the client.  A record that is still executing has
\* nothing to tell: the caller gets its own deadline error.  A recorded error
\* goes before the status, also when the init callback of a committed
\* transaction failed.
WaitResult(r) ==
  CASE state[r] = "SUBMITTED" -> "pending"
    [] state[r] = "COMPLETED" /\ ~recErr[r] /\ status[r] # "" -> status[r]
    [] state[r] = "COMPLETED" /\ ~recErr[r] /\ status[r] = "" -> "response"
    [] OTHER -> "error"

\* Mutant of SubmissionOutcome: the recorded error is dropped.
SubmissionOutcomeNoError(r) == IF submitted[r] THEN "acknowledged" ELSE "error"

\* submissionOutcome, as replayOrderingSubmission reports it.
SubmissionOutcome(r) ==
  IF submitted[r] /\ ~(Pending(r) /\ recErr[r]) THEN "acknowledged" ELSE "error"

\* Mutant of Remove: a finished record stays in the map.
RemoveNothing(r) == Tx(r) \in Txs /\ UNCHANGED store

\* remove deletes the map entry only if it still is this record.
Remove(r) ==
  store' = [store EXCEPT ![Tx(r)] = IF @ = r THEN None ELSE @]

Goto(c, l) == pc' = [pc EXCEPT ![c] = l]

Return(c, r) ==
  /\ reply' = [reply EXCEPT ![c] = r]
  /\ Goto(c, "done")

-----------------------------------------------------------------------------
(* Maintenance is started by a request and coalesced: one pass at a time.  *)

\* Mutant of TriggerReconciliation: closed is not looked at.
TriggerAnytime ==
  IF pass = "idle"
  THEN /\ pass' = "collect"
       /\ eligible' = {r \in Calls : Pending(r)}
       /\ UNCHANGED <<todo, claimed, answers, current>>
  ELSE UNCHANGED passVars

TriggerReconciliation ==
  IF service = "running" /\ pass = "idle"
  THEN /\ pass' = "collect"
       /\ eligible' = {r \in Calls : Pending(r)}
       /\ UNCHANGED <<todo, claimed, answers, current>>
  ELSE UNCHANGED passVars

-----------------------------------------------------------------------------
(* Requests.                                                               *)

Arrive(c, r) ==
  /\ pc[c] = "idle"
  /\ r \in Load[c]
  /\ req' = [req EXCEPT ![c] = r]
  /\ Goto(c, CASE r.kind = "invoke" -> "begin"
               [] r.kind = "submit" -> "existing"
               [] r.kind = "status" -> "wait")
  /\ IF r.kind = "status" THEN UNCHANGED passVars ELSE TriggerReconciliation
  /\ UNCHANGED <<recordVars, lock, on, ack, fail, reply, service, worldVars,
                 initRuns>>

\* Submit looks for a retry before it validates anything.
Existing(c) ==
  /\ pc[c] = "existing"
  /\ LET r == store[Tx(c)] IN
       \/ r = None /\ Goto(c, "validate") /\ UNCHANGED <<on, reply>>
       \/ r # None /\ ~SameDigest(r, c) /\ Return(c, "conflict") /\ UNCHANGED on
       \/ /\ r # None /\ SameDigest(r, c)
          /\ on' = [on EXCEPT ![c] = r]
          /\ Goto(c, "replay") /\ UNCHANGED reply
  /\ UNCHANGED <<recordVars, lock, req, ack, fail, passVars, service,
                 worldVars, initRuns>>

\* Definition, revision, init gate and native endorsements; a refusal returns
\* before anything is reserved.
Validate(c) ==
  /\ pc[c] = "validate"
  /\ \/ Goto(c, "begin") /\ UNCHANGED reply
     \/ Return(c, "rejected")
  /\ UNCHANGED <<recordVars, lock, req, on, ack, fail, passVars, service,
                 worldVars, initRuns>>

\* begin: the first request creates the record, a duplicate waits on it.
Begin(c) ==
  /\ pc[c] = "begin"
  /\ LET r == store[Tx(c)] IN
       \/ /\ r = None
          /\ store' = [store EXCEPT ![Tx(c)] = c]
          /\ state' = [state EXCEPT ![c] = "IN_PROGRESS"]
          /\ on' = [on EXCEPT ![c] = c]
          /\ Goto(c, IF req[c].kind = "invoke" THEN "endorse" ELSE "markExecuted")
          /\ UNCHANGED reply
       \/ /\ r # None /\ ~SameDigest(r, c)
          /\ Return(c, "conflict")
          /\ UNCHANGED <<store, state, on>>
       \/ /\ r # None /\ SameDigest(r, c)
          /\ on' = [on EXCEPT ![c] = r]
          /\ Goto(c, "replay")
          /\ UNCHANGED <<store, state, reply>>
  /\ UNCHANGED <<submitted, status, event, recErr, lock, req, ack, fail,
                 passVars, service, worldVars, initRuns>>

\* endorseInvocation: an error before any local response, an error after it
\* (markExecuted has run), a chaincode failure status, or an endorsement.
Endorse(c) ==
  /\ pc[c] = "endorse"
  /\ \E local, err, ok \in BOOLEAN :
       /\ ~local => err /\ ~ok
       /\ err => ~ok
       /\ state' = [state EXCEPT ![c] = IF local THEN "EXECUTED" ELSE @]
       /\ fail' = [fail EXCEPT ![c] = err]
       /\ Goto(c, IF ok THEN "lock" ELSE "complete")
  /\ UNCHANGED <<store, submitted, status, event, recErr, lock, req, on, ack,
                 reply, passVars, service, worldVars, initRuns>>

MarkExecuted(c) ==
  /\ pc[c] = "markExecuted"
  /\ state' = [state EXCEPT ![c] = "EXECUTED"]
  /\ Goto(c, "send")
  /\ UNCHANGED <<store, submitted, status, event, recErr, lock, req, on, ack,
                 fail, reply, passVars, service, worldVars, initRuns>>

\* submitAndWaitFinality takes the finality lock before it subscribes and sends.
LockFinality(c) ==
  /\ pc[c] = "lock"
  /\ \/ /\ lock[c] = None
        /\ lock' = [lock EXCEPT ![c] = c]
        /\ Goto(c, "send")
        /\ UNCHANGED fail
     \/ /\ fail' = [fail EXCEPT ![c] = TRUE]
        /\ Goto(c, "complete")
        /\ UNCHANGED lock
  /\ UNCHANGED <<recordVars, req, on, ack, reply, passVars, service,
                 worldVars, initRuns>>

\* submitter.Submit: nothing was sent or the orderer refused it; the send or
\* its acknowledgment was lost; or the orderer acknowledged it.
Send(c) ==
  /\ pc[c] = "send"
  /\ Goto(c, "mark")
  /\ \/ /\ ack' = [ack EXCEPT ![c] = "failed"]
        /\ UNCHANGED <<handed, delivered>>
     \/ /\ ack' = [ack EXCEPT ![c] = "uncertain"]
        /\ handed' = handed \cup {c}
        /\ \/ delivered' = delivered \cup {Tx(c)}
           \/ UNCHANGED delivered
     \/ /\ ack' = [ack EXCEPT ![c] = "ok"]
        /\ handed' = handed \cup {c}
        /\ delivered' = delivered \cup {Tx(c)}
  /\ UNCHANGED <<recordVars, lock, req, on, fail, reply, passVars, service,
                 ledger, initRuns>>

\* Mutant of CertainFailure: a lost acknowledgment counts as a failure.
AnyFailure(c) == ack[c] # "ok"

\* submissionUncertainError is absent: nothing can have been ordered.
CertainFailure(c) == ack[c] = "failed"

\* submitTransaction after Submit returned: markSubmission for an accepted or
\* an uncertain send, the error alone for a certain failure.
MarkSubmission(c) ==
  /\ pc[c] = "mark"
  /\ fail' = [fail EXCEPT ![c] = ack[c] # "ok"]
  /\ Goto(c, CASE req[c].kind = "submit" -> "complete"
               [] req[c].kind = "invoke" /\ ack[c] = "ok" -> "wait"
               [] OTHER -> "unlock")
  /\ IF CertainFailure(c) \/ Awake(c)
     THEN UNCHANGED <<state, submitted, recErr>>
     ELSE /\ state' = [state EXCEPT ![c] = "SUBMITTED"]
          /\ submitted' = [submitted EXCEPT ![c] = TRUE]
          /\ recErr' = [recErr EXCEPT ![c] = ack[c] = "uncertain"]
  /\ UNCHANGED <<store, status, event, lock, req, on, ack, reply, passVars,
                 service, worldVars, initRuns>>

\* The notification stream can deliver the status of c's transaction.
Notified(c) == ledger[Tx(c)] # ""

\* The owner's finality.Wait, or CommitStatus's wait: a final status is seen,
\* or the wait ends (timeout, rejected or broken stream, cancelled request).
WaitFinality(c) ==
  /\ pc[c] = "wait"
  /\ IF req[c].kind = "invoke"
     THEN /\ \/ Notified(c) /\ Goto(c, "record")
             \/ Goto(c, "unlock")
          /\ UNCHANGED <<on, reply>>
     ELSE \/ /\ ledger[Tx(c)] # ""
             /\ LET r == store[Tx(c)] IN
                  IF r # None /\ Pending(r)
                  THEN /\ on' = [on EXCEPT ![c] = r]
                       /\ Goto(c, "refresh")
                       /\ UNCHANGED reply
                  ELSE Return(c, ledger[Tx(c)]) /\ UNCHANGED on
          \/ Return(c, "error") /\ UNCHANGED on
  /\ UNCHANGED <<recordVars, lock, req, ack, fail, passVars, service,
                 worldVars, initRuns>>

\* refreshObservedFinality: an active owner's record is left to its owner.
Refresh(c) ==
  /\ pc[c] = "refresh"
  /\ IF Pending(on[c]) /\ lock[on[c]] = None
     THEN /\ lock' = [lock EXCEPT ![on[c]] = c]
          /\ Goto(c, "record")
          /\ UNCHANGED reply
     ELSE Return(c, ledger[Tx(c)]) /\ UNCHANGED lock
  /\ UNCHANGED <<recordVars, req, on, ack, fail, passVars, service, worldVars,
                 initRuns>>

\* recordFinality, first half: read the pending receipt and, for a committed
\* Init transaction, call afterCommit.
AfterCommit(r) ==
  initRuns' = IF ledger[Tx(r)] = "COMMITTED" /\ req[r].payload \in InitPayloads
              THEN [initRuns EXCEPT ![r] = @ + 1] ELSE initRuns

\* recordFinality, second half: confirmFinality with the observed status; the
\* error is afterCommit's.
ConfirmFinality(r) ==
  \E err \in BOOLEAN :
    /\ err => initRuns[r] > 0
    /\ IF Pending(r)
       THEN /\ state' = [state EXCEPT ![r] = "COMPLETED"]
            /\ status' = [status EXCEPT ![r] = ledger[Tx(r)]]
            /\ event' = [event EXCEPT ![r] = ledger[Tx(r)] = "COMMITTED"]
            /\ recErr' = [recErr EXCEPT ![r] = err]
            /\ Remove(r)
            /\ UNCHANGED submitted
       ELSE UNCHANGED recordVars

RecordFinality(c) ==
  /\ pc[c] = "record"
  /\ IF Pending(on[c])
     THEN AfterCommit(on[c]) /\ Goto(c, "confirm")
     ELSE UNCHANGED initRuns /\ Goto(c, "unlock")
  /\ UNCHANGED <<recordVars, lock, req, on, ack, fail, reply, passVars,
                 service, worldVars>>

Confirm(c) ==
  /\ pc[c] = "confirm"
  /\ ConfirmFinality(on[c])
  /\ Goto(c, "unlock")
  /\ UNCHANGED <<lock, req, on, ack, fail, reply, passVars, service,
                 worldVars, initRuns>>

\* The result is read, then the deferred unlockFinality runs.
UnlockFinality(c) ==
  /\ pc[c] = "unlock"
  /\ lock' = [lock EXCEPT ![on[c]] = None]
  /\ IF req[c].kind = "status"
     THEN Return(c, ledger[Tx(c)])
     ELSE /\ reply' = [reply EXCEPT ![c] = IF fail[c] THEN "error" ELSE WaitResult(c)]
          /\ Goto(c, "complete")
  /\ UNCHANGED <<recordVars, req, on, ack, fail, passVars, service, worldVars,
                 initRuns>>

\* The deferred complete of Execute and Submit: a no-op once submitted.
Complete(c) ==
  /\ pc[c] = "complete"
  /\ IF Awake(c)
     THEN UNCHANGED <<store, state, recErr>>
     ELSE /\ state' = [state EXCEPT ![c] = IF fail[c] THEN "FAILED" ELSE "COMPLETED"]
          /\ recErr' = [recErr EXCEPT ![c] = fail[c]]
          /\ Remove(c)
  /\ Return(c, IF reply[c] # "none" THEN reply[c]
               ELSE IF fail[c] THEN "error"
               ELSE IF req[c].kind = "submit" THEN "acknowledged" ELSE "response")
  /\ UNCHANGED <<submitted, status, event, lock, req, on, ack, fail, passVars,
                 service, worldVars, initRuns>>

-----------------------------------------------------------------------------
(* Duplicates.                                                             *)

\* wait: until the record is submitted or finished, or the request expires.
\* Execute's duplicate then shares the finality wait, Submit's reports the
\* ordering outcome.
ReplayWait(c) ==
  /\ pc[c] = "replay"
  /\ Awake(on[c])
  /\ CASE req[c].kind = "submit" -> Goto(c, "outcome") /\ UNCHANGED reply
       [] req[c].kind = "invoke" /\ Pending(on[c]) ->
            Goto(c, "relock") /\ UNCHANGED reply
       [] OTHER -> Return(c, WaitResult(on[c]))
  /\ UNCHANGED <<recordVars, lock, req, on, ack, fail, passVars, service,
                 worldVars, initRuns>>

\* The duplicate's own deadline passes in either of its two waits.
ReplayExpire(c) ==
  /\ \/ /\ pc[c] = "replay"
        /\ CASE req[c].kind = "submit" -> Goto(c, "outcome") /\ UNCHANGED reply
             [] req[c].kind = "invoke" /\ Pending(on[c]) ->
                  Goto(c, "relock") /\ UNCHANGED reply
             [] OTHER -> Return(c, WaitResult(on[c]))
     \/ pc[c] = "relock" /\ Return(c, WaitResult(on[c]))
  /\ UNCHANGED <<recordVars, lock, req, on, ack, fail, passVars, service,
                 worldVars, initRuns>>

ReplayOutcome(c) ==
  /\ pc[c] = "outcome"
  /\ Return(c, SubmissionOutcome(on[c]))
  /\ UNCHANGED <<recordVars, lock, req, on, ack, fail, passVars, service,
                 worldVars, initRuns>>

ReplayLock(c) ==
  /\ pc[c] = "relock"
  /\ lock[on[c]] = None
  /\ lock' = [lock EXCEPT ![on[c]] = c]
  /\ Goto(c, "reread")
  /\ UNCHANGED <<recordVars, req, on, ack, fail, reply, passVars, service,
                 worldVars, initRuns>>

ReplayRead(c) ==
  /\ pc[c] = "reread"
  /\ lock' = [lock EXCEPT ![on[c]] = None]
  /\ Return(c, WaitResult(on[c]))
  /\ UNCHANGED <<recordVars, req, on, ack, fail, passVars, service, worldVars,
                 initRuns>>

-----------------------------------------------------------------------------
(* The maintenance pass: reconcilePendingBefore.                           *)

PassEnd ==
  /\ pass' = "idle"
  /\ eligible' = {} /\ todo' = {} /\ claimed' = {} /\ answers' = {}
  /\ current' = None

\* Mutant of Batches: the map is walked in a fixed order.
BatchesFixed(found) ==
  IF Cardinality(found) <= BatchSize THEN {found}
  ELSE {CHOOSE S \in SUBSET found : Cardinality(S) = BatchSize}

\* pendingRecordsBefore: at most BatchSize records, in the map's random order.
Batches(found) ==
  IF Cardinality(found) <= BatchSize THEN {found}
  ELSE {S \in SUBSET found : Cardinality(S) = BatchSize}

PassCollect ==
  /\ pass = "collect"
  /\ LET found == {r \in eligible : Pending(r) /\ store[Tx(r)] = r} IN
       \/ service # "running" /\ PassEnd
       \/ \E S \in Batches(found) :
            IF S = {} THEN PassEnd
            ELSE /\ pass' = "claim" /\ todo' = S
                 /\ UNCHANGED <<eligible, claimed, answers, current>>
  /\ UNCHANGED <<recordVars, lock, callVars, service, worldVars, initRuns>>

\* Mutant of Claimable: the owner's finality lock is not tried.
ClaimableUnlocked(r) == Pending(r)

\* tryLockFinality, then pending again under the lock.
Claimable(r) == lock[r] = None /\ Pending(r)

PassClaim(r) ==
  /\ pass = "claim"
  /\ r \in todo
  /\ todo' = todo \ {r}
  /\ IF Claimable(r)
     THEN claimed' = claimed \cup {r} /\ lock' = [lock EXCEPT ![r] = Pass]
     ELSE UNCHANGED <<claimed, lock>>
  /\ UNCHANGED <<recordVars, callVars, pass, eligible, answers, current,
                 service, worldVars, initRuns>>

Unclaim == lock' = [r \in Calls |-> IF r \in claimed THEN None ELSE lock[r]]

\* Mutant of FinalAnswers: isFinalStatus is not asked.
AllAnswers == claimed

FinalAnswers == {r \in claimed : ledger[Tx(r)] # ""}

\* GetTransactionStatus over the batch: the known final statuses, or an error
\* (also when Close cancelled the pass) that leaves every record alone.
PassQuery ==
  /\ pass = "claim"
  /\ todo = {}
  /\ claimed # {}
  /\ service = "running"
  /\ answers' = FinalAnswers
  /\ pass' = "apply"
  /\ UNCHANGED <<recordVars, lock, callVars, eligible, todo, claimed, current,
                 service, worldVars, initRuns>>

PassGiveUp ==
  /\ pass = "claim"
  /\ todo = {}
  /\ PassEnd
  /\ Unclaim
  /\ UNCHANGED <<recordVars, callVars, service, worldVars, initRuns>>

PassRecord(r) ==
  /\ pass = "apply"
  /\ r \in answers
  /\ answers' = answers \ {r}
  /\ IF Pending(r)
     THEN AfterCommit(r) /\ pass' = "confirm" /\ current' = r
     ELSE UNCHANGED <<initRuns, pass, current>>
  /\ UNCHANGED <<recordVars, lock, callVars, eligible, todo, claimed, service,
                 worldVars>>

PassConfirm ==
  /\ pass = "confirm"
  /\ ConfirmFinality(current)
  /\ pass' = "apply"
  /\ current' = None
  /\ UNCHANGED <<lock, callVars, eligible, todo, claimed, answers, service,
                 worldVars, initRuns>>

PassRelease ==
  /\ pass = "apply"
  /\ answers = {}
  /\ PassEnd
  /\ Unclaim
  /\ UNCHANGED <<recordVars, callVars, service, worldVars, initRuns>>

\* Requests for other transactions trigger maintenance too.
OtherTraffic ==
  /\ pass = "idle"
  /\ service = "running"
  /\ TriggerReconciliation
  /\ UNCHANGED <<recordVars, lock, callVars, service, worldVars, initRuns>>

-----------------------------------------------------------------------------
(* Close, and the ledger.                                                  *)

StopReconciliation ==
  /\ \/ service = "running" /\ service' = "closing"
     \/ service = "closing" /\ pass = "idle" /\ service' = "closed"
  /\ UNCHANGED <<recordVars, lock, callVars, passVars, worldVars, initRuns>>

Finalize(t) ==
  /\ t \in delivered
  /\ ledger[t] = ""
  /\ \E v \in Verdicts : ledger' = [ledger EXCEPT ![t] = v]
  /\ UNCHANGED <<recordVars, lock, callVars, passVars, service, handed,
                 delivered, initRuns>>

-----------------------------------------------------------------------------
OwnerStep(c) ==
  \/ Existing(c) \/ Validate(c) \/ Begin(c) \/ Endorse(c) \/ MarkExecuted(c)
  \/ LockFinality(c) \/ Send(c) \/ MarkSubmission(c) \/ WaitFinality(c)
  \/ Refresh(c) \/ RecordFinality(c) \/ Confirm(c) \/ UnlockFinality(c)
  \/ Complete(c)

ReplayStep(c) ==
  \/ ReplayWait(c) \/ ReplayOutcome(c) \/ ReplayLock(c) \/ ReplayRead(c)

PassStep ==
  \/ PassCollect \/ PassQuery \/ PassGiveUp \/ PassConfirm \/ PassRelease
  \/ \E r \in Calls : PassClaim(r) \/ PassRecord(r)

Next ==
  \/ \E c \in Calls : \E r \in Requests : Arrive(c, r)
  \/ \E c \in Calls : OwnerStep(c) \/ ReplayStep(c) \/ ReplayExpire(c)
  \/ PassStep \/ OtherTraffic \/ StopReconciliation
  \/ \E t \in Txs : Finalize(t)

Spec == Init /\ [][Next]_vars

(* Every handler and the pass keep running, a woken duplicate runs, and the *)
(* finality lock (a Go channel, FIFO) does not starve a waiter.  Nothing is *)
(* assumed of a duplicate's own deadline.                                   *)
HandlersRun ==
  /\ \A c \in Calls : WF_vars(OwnerStep(c)) /\ WF_vars(ReplayStep(c))
  /\ \A c \in Calls : SF_vars(ReplayLock(c))
  /\ WF_vars(PassStep)

FairSpec == Spec /\ HandlersRun

(* What recovery needs in addition: requests keep arriving, ordered          *)
(* transactions are decided, the random order of the map puts every receipt *)
(* into a batch now and then, and the status query does not fail for ever   *)
(* for a batch that has it.                                                 *)
Traffic ==
  /\ WF_vars(OtherTraffic)
  /\ \A t \in Txs : WF_vars(Finalize(t))
  /\ \A r \in Calls : /\ SF_vars(PassCollect /\ r \in todo')
                       /\ SF_vars(PassQuery /\ r \in claimed)

-----------------------------------------------------------------------------
(* Safety.                                                                 *)

\* The map holds exactly the unfinished records, under their own transaction
\* ID: an old caller's deferred cleanup never evicts a newer record that
\* reuses the ID (remove), and no transaction has two unfinished records
\* (begin).
OneRecordPerTx ==
  /\ \A t \in Txs : store[t] # None =>
        state[store[t]] \in Active /\ Tx(store[t]) = t
  /\ \A r \in Calls : state[r] \in Active => store[Tx(r)] = r

\* Once an envelope may have reached ordering, its transaction ID stays
\* reserved until a final status was observed: no retry, whatever the client
\* was told, can make the orchestrator send it again (submitTransaction,
\* complete: "Once submitted, only an observed final validation result may
\* complete the record").
NoResendWhileUnknown ==
  \A r \in handed : status[r] = "" => store[Tx(r)] = r

\* What clients are told is so: a reported validation result is the ledger's,
\* an acknowledged submission reached ordering, and a response that reports
\* no submission comes from a record that sent nothing (waitResult,
\* submissionOutcome).
RepliesAreTrue ==
  \A c \in Calls :
    /\ reply[c] \in Verdicts => reply[c] = ledger[Tx(c)]
    /\ reply[c] = "acknowledged" => Tx(c) \in delivered
    /\ reply[c] = "response" => on[c] \notin handed

\* The post-commit init callback of a record runs at most once, only for a
\* committed transaction, and has run before its record reports COMMITTED,
\* though the owner, CommitStatus requests and the pass may all try to
\* finalize the record (recordFinality).  Events go with COMMITTED only.
InitOnceOnCommit ==
  \A r \in Calls :
    /\ initRuns[r] <= 1
    /\ initRuns[r] = 1 => ledger[Tx(r)] = "COMMITTED" /\ req[r].payload \in InitPayloads
    /\ status[r] = "COMMITTED" /\ req[r].payload \in InitPayloads => initRuns[r] = 1
    /\ event[r] = (status[r] = "COMMITTED")

\* After Close has returned from stopReconciliation no pass runs, though
\* requests may still try to trigger one (triggerReconciliation).
NoPassAfterClose == service = "closed" => pass = "idle" /\ claimed = {}

\* A receipt leaves SUBMITTED only for COMPLETED, with the status the ledger
\* gave its transaction; deadlines and errors never move it
\* (confirmFinality, complete, markSubmission).
SettledByLedgerOnly ==
  [][\A r \in Calls : Pending(r) /\ ~Pending(r)' =>
       /\ state'[r] = "COMPLETED"
       /\ status'[r] = ledger[Tx(r)]
       /\ status'[r] # ""]_vars

(* Submissions seen from outside: the abstract contract.                   *)
Phase(r) ==
  CASE state[r] = "NONE" -> "unused"
    [] state[r] \in Active /\ r \notin handed -> "working"
    [] state[r] \in Active /\ r \in handed -> "outstanding"
    [] state[r] \in Terminal /\ r \notin handed -> "released"
    [] OTHER -> "settled"

Contract == INSTANCE SubmissionContract WITH
              holder <- store, phase <- [c \in Calls |-> Phase(c)], fate <- ledger

\* The store implements the submission contract: reserve, hand over once,
\* settle with the ledger's verdict or give back what was never sent.
ImplementsContract == Contract!Spec

-----------------------------------------------------------------------------
(* Liveness.                                                               *)

\* A duplicate waiting for the first request (replaySubmission,
\* replayOrderingSubmission) is answered even if it has no deadline of its
\* own: channels get closed and the finality lock is always given back.
DuplicatesAnswered ==
  \A c \in Calls : pc[c] \in {"replay", "relock"} ~> pc[c] = "done"

\* While the service runs and requests keep arriving, the receipt of every
\* transaction ordering has is settled, even if its owner's wait timed out or
\* its acknowledgment was lost, and although receipts of transactions that
\* ordering never got stay pending beside it and compete for the batch
\* (triggerReconciliation, reconcilePendingBefore).
PendingRecovered ==
  Traffic => \A r \in Calls :
    Pending(r) /\ Tx(r) \in delivered ~> ~Pending(r) \/ service # "running"
=============================================================================

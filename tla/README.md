# Verification of the Fabric-X chaincode compatibility service

TLA+ models of the service in `src/compatibility_service`, TLC configurations
that check them on small instances, and TLAPS proofs of the results that matter
most for every instance. Every definition is translated from the source;
`PROJECT.json` maps each one to its lines. Parts outside `src/` (ordering, the
committer, the Query Service, the external chaincode, the Gateway client) are
modelled from the way the code uses them and marked external there.

    tlc -workers 2 -config MCTxStore.cfg MCTxStore     # one run
    tlapm TxStore_proofs.tla                           # one proof module

## 1. Inventory

The service lets Fabric clients use ordinary external chaincode on Fabric-X.
Each organization runs one or more *orchestrators*. An orchestrator takes a
proposal, executes it locally through its *helper*, asks other organizations'
orchestrators to execute it too, merges the endorsements, hands the transaction
to ordering and reports its final status.

| component (source) | state it keeps | operations | modules |
|---|---|---|---|
| transaction store (`orchestrator/idempotency.go`) | map transaction ID -> record: state, receipt, error, finality lock | `begin`, `wait`, `markExecuted`, `markSubmission`, `complete`, `confirmFinality`, `remove`, batch selection | `TxStore`, `SubmissionContract` |
| submission and finality (`execution.go`, `service.go`, `init.go`) | handler locals, one maintenance goroutine | `Execute`, `Submit`, `CommitStatus`, `triggerReconciliation`, `Close` | `TxStore` |
| lifecycle ledger operations (`lifecycle_ledger.go`) | map operation -> pending object with gate and receipt | commit, mark initialized, propagate, maintenance | `LifecycleLedger`, `LifecycleContract` |
| startup synchronization (`lifecycle_sync.go`) | position in the index | replay up to the watermark | `LifecycleLedger`, `CommitReadiness` |
| lifecycle commit server (`lifecycle/rpc.go`, `ledger.go`) | none of its own | approve, readiness, `Commit`, `ReconcileDefinition`, `MarkInitialized` | `CommitReadiness`, `LifecycleLedger` |
| lifecycle store (`lifecycle/store.go`) | SQL tables: packages, approvals, committed definitions, resolved connections | install, approve, readiness, ledger upsert, cache | `LifecycleLedger`, `CommitReadiness`, `PackageBinding` |
| execution binding (`lifecycle_executor.go`, `lifecycle_binding.go`) | none | select revision, resolve endpoint, run, report evidence | `PackageBinding` |
| endorsement (`execution.go`, `endorsement_policy.go`, `policy.go`, `fabricx_packager.go`, `contact.go`) | candidates of one invocation | resolve policy, execute, collect, authenticate, compare, select, package, check again at submission | `EndorsementPolicy`, `EndorsementSelection`, `EndorsementCollect` |
| helper and shim (`helper/`, `shim/`) | one execution context and one chaincode stream per invocation | registration, `GET/PUT/DEL_STATE`, `COMPLETED`, view cleanup | `ChaincodeExecution` |
| chaincode events (`service.go`, `execution.go`) | cursor of one subscription | subscribe, look up checkpoint, deliver | `ChaincodeEvents` |
| Gateway evaluate and endorse (`service.go`, `execution.go`) | none | read-only execution here or forwarded, endorsement without submission | `Gateway`: `EvaluateRouting`, `EndorsementCollect` |
| remote orchestrator resolvers (`remote_resolver.go`, `contact.go`) | contact table and cache | contacts of one organization, one contact of each organization | `EvaluateRouting`, `CommitReadiness` |
| chaincode resolvers, configuration, packager, authentication, command line, tools | static tables, files | lookups, parsing, signatures | not modelled, see section 6 |

How they interact:

* A client request runs in its own goroutine. Goroutines meet in the
  transaction store (one mutex, plus one finality lock per record that is held
  across network calls), in the lifecycle map (one mutex, plus one gate per
  operation object), and in the SQL store (one statement at a time, no
  transaction across statements).
* Organizations meet on the ledger and through remote calls: `EndorseOnly` for
  endorsements, `Evaluate` forwarded once, `CheckCommitReadiness` before and
  `Commit` or `MarkInitialized` after a lifecycle transaction.
* `Init` transactions tie the two halves together: when the transaction store
  learns that one committed, its `afterCommit` callback starts the lifecycle
  operation that marks the revision initialized.
* The helper reads the state database through views of the Query Service and
  talks to the chaincode over a gRPC stream the chaincode drives.

What is hard here, and what therefore makes a component correct:

* **Transaction store.** A retry, the owner's wait, a status request and the
  maintenance pass work on one record. The send to ordering can be lost,
  acknowledged or left uncertain; only the ledger may settle an uncertain one.
* **Lifecycle.** Several organizations commit revisions from ledger reads that
  are three separate queries; an orchestrator may die and forget its receipts;
  updates reach mirrors late, twice or never. Approvals are in memory, are asked
  for one organization after another, and each organization judges a sequence by
  a table that may be behind.
* **Evaluation.** Contacts may be wrong, missing or unreachable; a lost call may
  have run; a forwarded request meets the handler that forwards.
* **Package binding.** Approvals, ledger updates and executions interleave
  between SQL statements, and executions cache what they resolved.
* **Endorsement.** Fabric's evaluator is sensitive to the order and the number
  of signatures; remote organizations see other states, policies and
  definitions.
* **Execution.** The chaincode may send anything at any time; views fail and
  expire; callers leave; other transactions commit between two reads.
* **Events.** Blocks commit while a subscription is being set up; streams
  break with events in flight; stores lag behind.

`PROJECT.json` lists these as hazards, each at the line where it bites, with
the properties aimed at it.

## 2. Modules

**`TxStore`** (`idempotency.go`, the submission half of `execution.go`, the
handlers in `service.go`). `Calls` are requests; the record a request creates is
named by the request, which is exactly the pointer identity the Go code relies
on. `pc[c]` is the handler's place; each critical section of the mutex, each
lock operation and each external call is one action. `Send` has the three
outcomes the submitter distinguishes, `MarkSubmission` the decision made from
them. `Load` limits which requests a call of an instance may be. `Batches` is the
choice among the receipts when there are more than a batch takes (Go's random map
order). The pass (`PassCollect` ... `PassRelease`) is the goroutine started by
`triggerReconciliation`; `recordFinality` is two steps (`RecordFinality`,
`Confirm`) because the init callback runs between reading the record and
confirming it. `Finalize` is the committer.

**`SubmissionContract`** is what a client may rely on: an ID is held by one
request, which either gives it back having sent nothing, or hands its envelope
over once and keeps the ID until the ledger has decided. `TxStore` implements
it with `Contract == INSTANCE SubmissionContract WITH ...`.

**`LifecycleLedger`**: each organization's operation objects (`op`, `opmap`,
`gate`), the three ledger reads (`ReadRow`, `ReadHigh`, `ReadIndex`), send,
wait, finalize, the local table write and the propagation, the maintenance
pass with its random choice of at most `PassSize` objects (`Batches`), `Crash` with loss of map and table, and `SyncStep`. `Validate` is the
committer's read-version check. A client sends one request after another: a
commit of the sequence its organization's table asks for, or the completion of
an Init admitted earlier. `RemotePeers` is what a propagation finds: every
organization in `Static`, and of the others those the dynamic resolver happens to
find; `Outstanding` keeps the first answer, as `DefinitionPropagation` does. A
propagation ends in `SpreadDone`, and a finalize that meets a newer revision in
`Superseded`: the two ways of reporting success.

**`LifecycleContract`** is what all of this promises: one log in which every
name's revisions follow each other, each marked initialized at most once and
before its successor, and tables that show what the log has and move only
forward until a restart. `LifecycleLedger` implements it with
`Lifecycle == INSTANCE LifecycleContract WITH ...`, where the log is the index
up to its watermark.

**`CommitReadiness`**: what happens before and after such a transaction, between
the organizations. An approval is checked against the table (`ApproveCheck`) and
written later (`ApproveWrite`); `Commit` resolves the organizations to ask
(`StaticPeers`, and any of the others as `DynamicPeers`), `Ask` is one readiness
question, `ValidateCommit` the local check after them, `Prepare`, `Order` and
`WaitFinality` the transaction in one step each, `Apply` and `Tell` the copies,
`Fail` and `Resume` the errors and the maintenance pass, `Crash` and `Restart`
the loss of approvals, requests and receipts. Only the version and sequence of
one name are kept.

**`PackageBinding`**: one organization, one chaincode name, one step per SQL
statement of an approval, an execution's endpoint resolution (cache, approval,
resolver, legacy lookup, static fallback) and the evidence lookup afterwards,
of which a failing part is skipped. An invocation admitted before anything was
committed selects no revision; it runs whatever it meets, and reports what is
committed by then (`EvidenceDefinition`).

**`EndorsementPolicy`**: what walks a policy's tree. `Evaluate` is Fabric's
evaluator, `Search` the first of the two searches of `endorsement_policy.go`
(`Found` its results from the root), `InspectRule` the principals of a rule.
**`EndorsementSelection`** has these three as operator constants
(`EvaluateIdentities`, `Witnesses`, `Leaves`) and the rest of
`selectEndorsements` as definitions: `SearchSignatureOrders` is the second search,
an order being one it may end with when each of its signers was a `NextSigners`
and only the whole is accepted; `SelectEndorsements` combines the two, and
`Satisfiable` is the reference definition. `MCGateway.cfg` gives the constants
their meaning from `EndorsementPolicy`. The split keeps the recursion out of what
is proved. **`EndorsementCollect`** is the
one Gateway invocation around them: `Endorse` to `ExecuteLocal` are the stages of
`endorseInvocation`, each of which `Abort` may end; `EndorseLocal` and
`EndorseRemote` the collection loop with the answers of remote organizations;
`PrepareTransaction` the envelope the client signs; `Submit` the checks with the
policy then in force, which `UpdatePolicy` may have replaced. `rule` and
`version` are what was loaded last, as nothing decides by the cached snapshot.

**`EvaluateRouting`**: one Evaluate. `calls` is the chain of handlers waiting for
each other; each is one run of `Evaluate` with its targets and its restriction,
so a forwarded request meets the same actions as the client's. `ContactLists` is
`Resolve`; `Forward`, `TakeReply` and `Expire` are the loop of `evaluateRemote`;
`Lose` leaves a handler without its caller, and `OrphanEnds` lets it run or not.
**`Gateway`** composes it with `EndorsementCollect`: a request is of one kind, and
neither kind leaves anything behind for the other.

**`ChaincodeExecution`**: an invocation from `ProcessProposal` to its answer.
`ExecutionContext`'s fields are `owned`, `readErr`, `reads` and `writes`;
`history` is the committed database and a view's snapshot (`snap`) is fixed by
its first query, as the comment at `helper/service.go:128` says. The chaincode
is unconstrained. `Commit` is the committer's version check, so that the read
set can be judged by what it is for. A row is identified by its version, which
the committer never reuses.

**`ChaincodeEvents`**: one subscriber with its checkpoint, the cursor
(`height`, `start`, `expected`, `previous`) and the events in flight. `Deliver`
takes a block from the cursor, `Visit` is one turn of the loop over its
transactions (`place`, `matching`), `Send` the one response for the block. A
broken subscription forgets its locals.

`MC*` modules give the constants of an instance. Operators called "Mutant of X"
are plausible mistakes; replacing X by one must break a property, which shows
that the property depends on the code it is about.

## 3. Runs

| run | instance | what it shows |
|---|---|---|
| `tx_store` | 3 requests of any kind, 1 transaction, Init payload, batch 1 | `OneRecordPerTx`, `NoResendWhileUnknown`, `RepliesAreTrue` (no client is told of an ordering or a status that did not happen), `InitOnceOnCommit` (the callback runs at most once, and before COMMITTED is reported), `NoPassAfterClose`, `SettledByLedgerOnly`, and `ImplementsContract`, the refinement |
| `tx_store_liveness` | 2 requests: an invoke, and any request for the same transaction or a submit of another one; batch 1; fairness below | `DuplicatesAnswered` without help of the duplicate's own deadline; `PendingRecovered`, under `Traffic`: the receipt of an ordered transaction is settled although the other one may have been lost and competes for every batch |
| `lifecycle_restart` | 2 organizations, one of them found by the dynamic resolver only, 2 names, 2 revisions with Init, 3 requests, 1 crash | `ImplementsLifecycle`, the refinement; `IndexMatchesRows`, `ReplayRestoresTable`; `SuccessIsTrue`, what a reported success means |
| `lifecycle_mirrors` | a commit and its Init in one organization, a static contact to the other, 1 pass of 1 object, receipts that are never ordered, fairness below | `CommitReachesMirrors` |
| `commit_readiness` | 2 organizations, one of them found only now and then, 1 request each, 2 sequences, 2 versions, any crashes, fairness below | `RevisionsApproved`, `LagsByAtMostOne`, `LaggardsCatchUp` |
| `package_binding` | 2 approvals, 1 execution, 2 packages, 2 versions, 2 sequences | `CachedEndpointWasApproved`, `SelectedRevisionRuns`, `EvidenceWasApproved` |
| `gateway` | endorse: 2 organizations, 3 signers, every two-level policy tree over two principals, every profile; evaluate: 3 organizations, 3 orchestrators, a wrong static contact, a resolver that may name a wrong one, every target list of up to 2 | `SelectionIsValid`, `RequestedOrgsEndorse`, `PreparedIsSubmittable` (what Endorse prepared passes the check Submit makes by itself), `AsksOnlyWhileShort` and `RefusalIsJustified` (the search against its reference definition); that the definitions of `EndorsementPolicy` satisfy `PolicyAssumption`; `RunsWhereAsked` and `FirstAnswerCounts` for Evaluate |
| `execution` | 1 call, 2 keys, 3 committed states | `ReadsOneSnapshot`, `CommittedOnWhatWasRead`, `EndorsesSoundExecutions`, `ViewReleasedOnce`, `CancelledCallsEnd` |
| `events` | 2 blocks of up to 2 transactions, 1 break | `EventsOnceInOrder`, `NoEventMissed`, `EventsArrive` |

Three runs are expected to end in a violation: the property states what a
comment in the source says, and the model, following the code, breaks it.

* `lifecycle_resend` — `NoLifecycleResend`. `lifecycle_ledger.go:168` says a
  lost acknowledgment or a timeout "can never trigger a resend". When the holder
  of an operation fails before its send, `submitLifecycleDefinition` removes the
  object from the map (lines 127-128), but a request already waiting at its gate
  goes on with the removed object. A third request creates a second object for
  the same key, and both send the same definition while the outcome of the first
  transaction is unknown. The ledger's version check lets at most one commit.
* `package_runtime` — `NoSilentRuntimeChange`. `lifecycle_executor.go:50` says a
  concurrent switch is rejected "rather than silently changing runtimes". The
  legacy lookup at line 61 goes by name and reads the committed row again, so it
  can run the next revision's package under the selected one.
* `package_stale` — `NoEarlierEndpointCached`. `store.go:288` says a changed
  binding "must not keep an earlier endpoint cached". An execution reads an
  approval; another approval replaces it and purges the cache; then the execution
  stores the endpoint of the earlier one, which stays cached. (An endpoint of the
  chaincode resolver can be stored after the purge in the same way. The property
  leaves that out, as it is not the endpoint of an earlier binding.)

Seen while modelling, and not stated as a property:

* `lifecycle/store.go:253-287`: `ApproveForMyOrg` checks that the sequence is the
  next one and writes the approval in a later statement, keyed by name, sequence
  and MSP. An approval checked as pending may thus be written after the ledger
  activated another version of that sequence, and replace the approval of the
  active one, where the comment at line 233 says "Pending approvals do not replace
  the active sequence's binding". The executions of the active revision then find
  no approval that matches it. The model has this step.
* `lifecycle_binding.go:30-97`: the evidence of "the package and endpoint used
  during one chaincode execution" (line 18) is looked up again after the run and
  names what is bound by then: always a package approved for the selected
  revision (`EvidenceWasApproved`), but not always the one that ran.
* `execution.go:843-888`: a committed block that cannot be decoded ends every
  subscription that reaches it, and the client that reconnects meets it again.
* `service.go:1440`: a checkpoint the asked store does not know yet is accepted.
  If it turns out to name a transaction without an event, `previous` is never
  met and the stream stays silent for ever, where
  `docs/architecture.md:307` promises a rejection.
* `lifecycle/store.go:253-263`: an organization that missed a revision can approve
  nothing but that very revision, so it holds up the next one everywhere. It gets
  level by approving and committing what it missed, or by a restart
  (`LaggardsCatchUp`). One that the dynamic resolver did not find
  (`remote_resolver.go:321`) may fall two or more behind; then only a restart
  helps, and commits wait for it as soon as it is found again.
* `lifecycle_ledger.go:222`: a request whose revision is superseded while it is
  being finalized reports success with an empty definition, and other
  organizations need not have been told.
* `remote_resolver.go:309-326`: an organization the dynamic resolver does not find
  is left out of the propagation without an error, so a Commit reports success
  without it. `SuccessIsTrue` and `CommitReachesMirrors` speak of the organizations
  with a static contact for that reason.
* A lifecycle transaction that ordering lost keeps its receipt, and with it the
  operation, until the orchestrator restarts: nothing resends it and no status
  ever comes. Every pass that picks it up looks for its status again.
* `execution.go:978`: after a lost call an evaluation may run at the next contact
  while the first still runs. It writes nothing, so only its cost is doubled.

### Bounds

* *TxStore.* Interference needs the owner, a duplicate and one further request
  (a status request, or a retry after the ID was given back): three calls.
  Records of different IDs share only the pass, and the pass its batch: two
  receipts and a batch of one make it leave one out. The proofs of the safety
  properties cover any number of transactions and any batch size.
* *LifecycleLedger.* The gate hazard needs a holder, a waiter and a newcomer;
  sequence errors need two revisions; the index is shared by two names. In
  `lifecycle_restart` one organization has no static contact, so that it may be
  left out, and the other must be told. A commit and an Init, each with a receipt
  that may be lost, compete in `lifecycle_mirrors` for a pass of one object.
  `MaxReq`, `MaxTx`, `MaxOp`, `MaxCrash` bound requests, transactions, objects
  and crashes. `lifecycle_restart` checks safety only and identifies states with
  a `VIEW` that hides what no later step and no property reads: the locals of a
  finished request, objects that neither the map nor an actor reaches, and the
  content of settled transactions.
* *CommitReadiness.* A lag of two, the first that matters, needs two sequences;
  an approval that is replaced needs two versions at one of them. The proofs
  cover any number of organizations, requests, versions and sequences.
* *PackageBinding.* Two approvals replace each other, two sequences give a
  revision change, between which an execution may select any or, before the first,
  none. One execution suffices to find the interleavings, as
  executions interact only through the cache, whose content an execution may
  have left in any order with the approvals.
* *Endorsement.* Extra signers matter from the second level of a rule on; two
  principals overlap in every way; the local organization has a second
  orchestrator so that two signers of one organization occur. An update between
  Endorse and Submit changes the version, which is all that later checks look at
  first; `Updates` keeps its rules to one lax and one strict.
* *Evaluation.* Two targets of three organizations give a repeated target, one
  without contacts and one after the other; two contacts, the first of a wrong
  organization, give every retry.
* *Execution.* `OtherCommit` takes any write set and so stands for every other
  call. Three states allow a commit before and one after the snapshot; statuses
  199, 399 and 400 are at the borders of success (an `ERROR` message, status
  500, is like 400).
* *Events.* A checkpoint inside a block and one at its end, a later block, and
  one reconnection, each with every content of the blocks.

`CHECK_DEADLOCK FALSE` is used where requests are finite calls and the system may
come to rest; `commit_readiness` never rests and is checked for deadlock. Symmetry is used only where values are merely compared
for equality, and not in runs that check liveness.

### Fairness

* `TxStore`: handlers and the pass keep running (goroutines); `SF` on taking a
  finality lock, as Go serves a channel's waiters in order. `Traffic` is
  what recovery needs in addition, and is assumed by `PendingRecovered` only: requests keep arriving (maintenance has no timer
  of its own) and ordered transactions are decided. A receipt that is collected
  again and again is now and then in the batch, and when it is claimed again and
  again the status query now and then answers (`SF` on both). The first is what
  Go's random map order gives with probability one and what a batch in a fixed
  order would not: with receipts that were never ordered beside it, a known one
  would then be left out for ever. No fairness is assumed of a duplicate's
  deadline, nor that any transaction reaches ordering.
* `LifecycleLedger`: requests, passes, committer and replay keep running, and the
  random map order puts every object into a pass now and then (`SF` on the
  choice). A lookup of a transaction without a final status may fail in every pass
  for ever, as it does for one that was never ordered. What can succeed fails only
  finitely often (`PassFails`): the lookup of a final status, a ledger read, a
  call to an organization that was listed. An organization that was listed and
  that the dynamic resolver never finds again would block the others behind it
  in the list (`rpc.go:474-477`); that is excluded here. Crashes are excluded from
  `CommitReachesMirrors`: an orchestrator that dies after its commit and before
  propagating leaves the others behind, because the code has no periodic
  synchronization. What helps then is the subject of `CommitReadiness`.
* `CommitReadiness`: requests, the maintenance pass and ordering keep running,
  and crashed orchestrators are restarted. The operators do their part:
  they approve the newest definition where it is not approved, commit it at an
  organization that lacks it, and restart one that is two or more behind. What
  disturbs them stops in the end: other crashes, calls that fail without a
  cause, and work on definitions other than the newest (`Disturbs`).
* `ChaincodeExecution`: the receive loop looks at the context before every
  message and `Recv` ends with it (`shim/handler.go:46-54`); Query Service calls
  return at the latest when their context ends. Nothing is assumed of the
  chaincode.
* `ChaincodeEvents`: the client reconnects, stores answer, the cursor delivers;
  breaks are finite. That excludes a block that cannot be decoded
  (`execution.go:843-888`): it ends each new subscription with `DATA_LOSS`, and
  what comes after it does not arrive.

## 4. Proofs

All results hold for every value of the constants, under the named assumptions
of the modules (`CallsAssumption`, `PayloadsAssumption`, `BatchAssumption`,
`ExecutionAssumption`, `ReadinessAssumption`, `BindingAssumption`,
`LifecycleAssumption`, `EventsAssumption`, `RoutingAssumption`,
`GatewayAssumption`, `CollectAssumption`, `PolicyAssumption`): bounds are
numbers, special values such as `None` are no members of the sets nor equal to a
record or string they stand beside, and contacts are orchestrators listed, rightly
or wrongly, for organizations.

`PolicyAssumption` is the only one about behaviour. It says of every rule over MSP
principals and every list of distinct signers: the tree search takes nobody twice,
and where it finds nothing the evaluator accepts no order; a signer that matches no
principal of the rule can be left out; a rule that accepts the empty list accepts
any. That the recursive definitions of `EndorsementPolicy` have these properties
for every tree needs induction over trees; TLC evaluates the assumption for every
rule and every list of the `gateway` instance.

No property here is inductive alone. Each proof module names the invariant that
is, as a conjunction of parts; TLC checked each on a small instance as well.

**`TxStore_proofs`**, first part: `Invariance`, and from it `TypeCorrect`,
`RecordsUnique`, `NoResend` and `ReceiptsSettledByLedger`. That an ID stays
reserved depends on which handler may still run `complete` or `confirmFinality`
on the record. `IInv` adds, per request, where a handler can be for each state of
its record (`HandlerAt`, `RecordAt`), that a status about to be applied is known
(`KnownAt`), and the same for the pass (`PassKnows`). The finality lock does not
occur in `IInv`: reservation follows from the record's states alone.

Second part: `FinalityInvariance`, and from it `CallbackOnce`,
`ClientsToldTruth` and `ClosedIsQuiet`. `Locks` says who holds the lock of a
record: a handler between taking and releasing it, or the pass through its
claim. With it `Callbacks` can say that the number of callback runs and the
record's status move together, although the callback runs between two steps of
a handler. `Ordered` ties the ledger to what was handed over, and `Told` is what
each answer a client got, or a handler is about to give, rests on.

Third part: `StoreImplementsContract`, that is `Spec => Contract!Spec`. Five kinds
of step change what the contract sees (`Begin`, `Send`, `Complete`, the two
confirmations, `Finalize`); every other step keeps each request's phase and is
a stutter.

**`LifecycleLedger_proofs`**: `Invariance`, `TypeCorrect`, `RowsFollowIndex`. The
invariant has two layers. `Control` says who may touch an operation's object:
whoever is past its gate holds it. `Ledger` says that what a preparation has read
is the row as it is or an older version of it (`ReadSound`), and that the
conditions of a prepared transaction hold as long as the version it names is
current (`TxSound`). The three reads of `prepareLifecycleTransaction` need not be
atomic for that reason.

**`LifecycleTables_proofs`**: `TablesInvariance`, `ReplayRestores`,
`SuccessReaches`, and `Refinement`, that is `Spec => Lifecycle!Spec`. The layer
`Tables` says that an organization that counts as told of an operation knows it,
or is replaying and will pass its entry before it serves. That is what makes a
crash between a table's update and the report of success harmless. Under it,
`Receipts` says that whatever is finalized is on the ledger: a known commit, a
transaction that was validated, or a row that was there before. `SuccessReaches`
(`Spec => SuccessIsTrue`) needs both, for either way of reporting success.

**`CommitReadiness_proofs`**: `Invariance`, `TypeCorrect`, `RevisionsWereApproved`,
`BoundedLag`. Both properties speak of the ledger, and an answer to a readiness
question may be long out of date when the transaction is ordered. What stays true
is `Cleared`: the organization once approved the definition, and its table was
and is at most one short of it, because tables never move back (`Forward`). `IInv`
carries `Cleared` from the approval (`ApprovalsFollow`) to the request that has
asked (`RequestCleared`), to the transactions sent (`SentCleared`) and to the
ledger. A crash empties the approvals and leaves the rest, as the restart reads
the ledger first.

**`PackageBinding_proofs`**: `Invariance`, `TypeCorrect`, `CacheHoldsApproved`,
`RunsSelectedRevision`, `EvidenceNamesApproved`. An execution works with copies that approvals and commits
overtake at once. `Active` (the definition is or was committed) and `Usable` (the
endpoint was approved for it, or discovered) are stable under every step, and
`IInv` says which copies have them at which stage: what was selected, if anything,
what is being resolved, and what is reported.

**`Gateway_proofs`**, first part (`EvaluateRouting`): `RunsOnlyWhereAsked`,
`FirstAnswerEndsSearch`. `RInv` describes the chain of handlers: the
client's is `Searching` (what it has visited was tried, what it has not visited
is still to do), and one it forwarded to, as well as every handler nobody waits
for, is `Restricted` to one organization the client named. That chains have at
most two handlers is a consequence.

Second part (`EndorsementSelection`): `SelectionComplete`, that
`selectEndorsements` returns an accepted order of distinct signers exactly when
there is one. The hard half is the second search, which prunes twice. An accepted
order of least length has only signers the rule asks for (`Shortest`), so those
without a match may be skipped. Signers with one profile are interchangeable:
whatever order is accepted, the search can follow it profile by profile, since
among those equal to its next signer one is always unused (`Unused`, by the
pigeonhole principle) and the first of them is the one the search takes
(`FollowsOn`, `FollowsAll`). It ends at the first accepted prefix
(`SearchComplete`). Induction is replaced by least elements of sets of numbers
(`LeastNat`).

Third part (`EndorsementCollect`): `SelectionAlwaysValid`,
`OnlyRequestedOrgsEndorse`, `PreparedStaysSubmittable`, `AsksNobodyTooMany`,
`RefusalsAreJustified`. `CInv` says what is known at each stage: candidates are
`Gathered` (one result, one version, distinct signers) and `Insufficient` as long as
more are asked; what was selected is `SelectedSound`, what was prepared
`PreparedSound`, even when updates take the policy away. `AssembleSound` is the
step that makes one of the other; `PackagedAsIs` and `NoUse` are why packaging
keeps the order and why the organizations never asked would not have helped.
`Invariance` states `RInv /\ CInv` of `GatewaySpec`.

**`ChaincodeExecution_proofs`**: `Invariance`, `TypeCorrect`, `OneSnapshot`,
`NoLostUpdate`, `EndorsementsSound`, `ViewsReleased`. `ReadsOneSnapshot` speaks
of *some* state; the invariant (`TruthfulReads`) names it, the view's snapshot,
and ties it to the read set, which is what makes `NoLostUpdate` follow.
`StickyFailure` carries a refused read to the answer, `OneView` the cleanup.
`HistoryKept` and `CallFrame` reduce a step to the call that takes it.

**`ChaincodeEvents_proofs`**: `Invariance`, `TypeCorrect`, `OnceInOrder`,
`NoneMissed`. `Processed` is completeness up to the last event the client has
processed, `Complete` completeness of what it has and what is on its way up to
the transaction the stream looks at. While the checkpoint is looked for nothing
is on its way (`Stage`); where it is found the first gives the second. New blocks
disturb neither, as the stream is never past the end of the ledger.

What the proofs taught about the models: alternatives of a `CASE` that overlap
are a free choice, where the code has an order, so `Complete` (`TxStore`) and
`Approve` (`PackageBinding`) now state it; `EvaluateRouting` keeps the set of
visited organizations as the code does; the second search and the packaging say
which orders and endorsements result, where a recursive definition said how;
and `ChaincodeEvents` visits a block's
transactions one by one, as the loop in the code does, because what a filter of
a whole sequence yields needs induction.

Every safety property that a passing run checks is the statement of a theorem.
`TypeOK` of `PackageBinding` is left to its theorem.
Only model-checked: liveness and everything under fairness (out of the prover's
reach: `DuplicatesAnswered`, `PendingRecovered`, `CommitReachesMirrors`,
`LaggardsCatchUp`, `CancelledCallsEnd`, `EventsArrive`), and that
`EndorsementPolicy` satisfies `PolicyAssumption` (induction over trees). The
properties `NoLifecycleResend`, `NoSilentRuntimeChange` and `NoEarlierEndpointCached` do
not hold (section 3).

## 5. Plan

1. Done: `TxStore` with its contract, `LifecycleLedger` with its contract,
   `CommitReadiness`, `PackageBinding`, `EndorsementPolicy` /
   `EndorsementSelection` / `EndorsementCollect`, `EvaluateRouting` and their
   composition `Gateway`, `ChaincodeExecution`, `ChaincodeEvents`; the proofs of
   section 4.
2. Next: the fall-back query inside the status wait, a crash between the steps of
   `PackageBinding`, and blocks that cannot be decoded in `ChaincodeEvents`.

## 6. Not modelled

* Restart of an orchestrator in `TxStore`: the store is memory only and the
  architecture document excludes restarts from duplicate protection.
* Request admission (signatures, certificates, channel and argument checks):
  a refused request leaves no state. Cryptography is out of TLC's reach.
* The approvals in `LifecycleLedger`, where any organization may ask for the
  commit its table allows; `CommitReadiness` has them, and takes the transaction
  in one step instead.
* `Store.CommitDefinition` and `Store.MarkInitialized`, which only tests call; the
  listing queries.
* The connection cache of the dynamic resolver and its `Close`: a cached contact
  is the one that would be made again. That a lookup may still run when `Close`
  has dropped the cache (`remote_resolver.go:331` and `375`) is not looked into.
* A remote handler that outlives its caller's crash.
* A block that cannot be decoded, other than as one of the finitely many breaks of
  a stream.
* The encoding of Fabric-X envelopes, package archives, configuration, chaincode resolver
  tables, command line, block dump and smoke tools, samples: data
  conversion and input/output without shared state.
* Data: payloads, keys and names are model values; a result stands for response,
  transaction payload and definition; a combined principal is one principal
  with one scope; an event is present exactly when its transaction's kind says
  so; messages that the shim answers with `ERROR` and nothing else change no
  state and are left out.

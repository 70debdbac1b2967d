--------------------------- MODULE LifecycleLedger ---------------------------
(***************************************************************************)
(* Lifecycle definitions on the shared ledger and in the organizations'    *)
(* mirrors (orchestrator/lifecycle_ledger.go, lifecycle_sync.go, the       *)
(* commit half of lifecycle/rpc.go, the committed table of                 *)
(* lifecycle/store.go and RemotePeers of remote_resolver.go).              *)
(*                                                                         *)
(* Every organization runs one orchestrator.  An orchestrator keeps its    *)
(* unfinished lifecycle work in memory (pendingLifecycle objects reached   *)
(* through a map), prepares a transaction from three separate ledger reads,*)
(* and after the commit copies the definition to its own committed table   *)
(* and to those of the other organizations it finds.  The actors are the   *)
(* lifecycle requests and each orchestrator's maintenance pass.  The map   *)
(* and the table are in memory, so a crash loses both; a restart replays   *)
(* the ledger index before the orchestrator serves requests again.         *)
(***************************************************************************)
EXTENDS Naturals, FiniteSets, Sequences

CONSTANTS Orgs,          \* organizations, also naming their maintenance passes
          Static,        \* organizations every orchestrator has a static contact
                         \* of; the others are looked up with the dynamic resolver
          Callers,       \* clients, each with one Commit request or Init
                         \* completion at a time
          Home,          \* Home[c]: the organization client c sends to
          Duty,          \* Duty[c]: the kinds of request client c makes
          Passes,        \* organizations whose maintenance pass runs
          Names,         \* chaincode names
          Versions,      \* definition versions
          InitVersions,  \* versions whose definition sets init_required
          PassSize,      \* objects a pass visits at most (recoveryBatchSize)
          MaxSeq,        \* bound on requested sequences
          MaxTx,         \* bound on prepared transactions
          MaxOp,         \* bound on pendingLifecycle objects
          MaxReq,        \* bound on requests
          MaxCrash,      \* bound on crashes
          None

ASSUME LifecycleAssumption ==
  /\ Orgs \cap Callers = {} /\ None \notin Orgs \cup Callers
  /\ Home \in [Callers -> Orgs]
  /\ Duty \in [Callers -> SUBSET [name : Names, ver : Versions, event : {"commit", "initialized"}]]
  /\ Static \subseteq Orgs
  /\ Passes \subseteq Orgs
  /\ PassSize \in Nat \ {0}
  /\ InitVersions \subseteq Versions
  /\ None \notin [def : [name : Names, seq : 1..MaxSeq, ver : Versions],
                 event : {"commit", "initialized"}, init : BOOLEAN]
  /\ MaxSeq \in Nat /\ MaxTx \in Nat /\ MaxOp \in Nat
  /\ MaxReq \in Nat /\ MaxCrash \in Nat

Actors == Callers \cup Passes
OrgOf(a) == IF a \in Callers THEN Home[a] ELSE a
Events == {"commit", "initialized"}
Defs == [name : Names, seq : 1..MaxSeq, ver : Versions]
InitRequired(d) == d.ver \in InitVersions
Final == {"COMMITTED", "ABORTED"}

VARIABLES
  row,      \* row[n]: the definition row, [seq, ver, init, version]; seq 0 = absent
  high,     \* the high watermark row: [value, version]
  index,    \* index[i]: the index entry row i, or None
  tx,       \* tx[t]: a prepared lifecycle transaction and its status
  ntx,      \* number of prepared transactions
  handed,   \* transactions ordering may have
  opmap,    \* opmap[o][k]: lifecyclePending of o, operation key -> object or 0
  op,       \* op[p]: a pendingLifecycle object
  nop,      \* number of objects ever created
  gate,     \* gate[p]: the actor holding the object's gate, or None
  mirror,   \* mirror[o][n]: committed_definitions row, [seq, ver, init]
  pc, stage, job, held, read, target,  \* the actors
  batch,    \* batch[o]: objects o's pass has still to visit
  sync,     \* sync[o]: [at, to] while o replays the index at startup
  requests, \* number of requests started
  crashes

ledgerVars == <<row, high, index>>
txVars == <<tx, ntx, handed>>
opVars == <<opmap, op, nop, gate>>
actorVars == <<pc, stage, job, held, read, target, batch>>
vars == <<ledgerVars, txVars, opVars, mirror, actorVars, sync, requests, crashes>>

Absent == [seq |-> 0, ver |-> None, init |-> FALSE]
NoRow == [seq |-> 0, ver |-> None, init |-> FALSE, version |-> 0]
Job == [def : Defs, event : Events]
Keys == Names \X (1..MaxSeq) \X Events
KeyOf(j) == <<j.def.name, j.def.seq, j.event>>
TxIds == 1..MaxTx
OpIds == 1..MaxOp
NotSyncing == [at |-> 0, to |-> 0]
NoRead == [row |-> NoRow, high |-> [value |-> 0, version |-> 0]]
Labels == {"idle", "op", "gate", "advance", "readRow", "readHigh", "readIndex",
           "send", "wait", "finalize", "applyRead", "applyWrite", "spread",
           "pick", "done"}

Init ==
  /\ row = [n \in Names |-> NoRow]
  /\ high = [value |-> 0, version |-> 0]
  /\ index = [i \in 1..MaxTx |-> None]
  /\ tx = [t \in TxIds |-> None]
  /\ ntx = 0
  /\ handed = {}
  /\ opmap = [o \in Orgs |-> [k \in Keys |-> 0]]
  /\ op = [p \in OpIds |-> None]
  /\ nop = 0
  /\ gate = [p \in OpIds |-> None]
  /\ mirror = [o \in Orgs |-> [n \in Names |-> Absent]]
  /\ pc = [a \in Actors |-> "idle"]
  /\ stage = [a \in Actors |-> "submit"]
  /\ job = [a \in Actors |-> None]
  /\ held = [a \in Actors |-> 0]
  /\ read = [a \in Actors |-> NoRead]
  /\ target = [a \in Actors |-> None]
  /\ batch = [o \in Orgs |-> {}]
  /\ sync = [o \in Orgs |-> NotSyncing]
  /\ requests = 0
  /\ crashes = 0

-----------------------------------------------------------------------------
(* Helpers.                                                                *)

\* The definition a row holds.
DefOf(n, r) == [name |-> n, seq |-> r.seq, ver |-> r.ver]

Up(o) == sync[o] = NotSyncing

Goto(a, l) == pc' = [pc EXCEPT ![a] = l]

\* removeLifecycleOperation: only if the map still holds this object.
MapWithout(p) ==
  LET o == op[p].org
      k == KeyOf(op[p].job)
  IN [opmap EXCEPT ![o][k] = IF @ = p THEN 0 ELSE @]

\* Where an actor goes when it gives its gate back: a request returns, a pass
\* visits the next object.
After(a) == IF a \in Callers THEN "done" ELSE "pick"

\* Leave the object: unlock, forget it, return.
LeaveVars(a) ==
  /\ gate' = [gate EXCEPT ![held[a]] = None]
  /\ held' = [held EXCEPT ![a] = 0]
  /\ Goto(a, After(a))

\* Mutant of AdvanceFails: the receipt of a failed wait is dropped too.
AdvanceFailsForgets(a, txLeft) ==
  /\ LeaveVars(a)
  /\ opmap' = IF stage[a] = "submit" /\ job[a].event = "commit"
              THEN MapWithout(held[a]) ELSE opmap

\* advanceLifecycleTransaction failed.  submitLifecycleDefinition drops a
\* definition that was never sent; txLeft is the TxID the result keeps.
AdvanceFails(a, txLeft) ==
  /\ LeaveVars(a)
  /\ opmap' = IF stage[a] = "submit" /\ txLeft = 0 /\ job[a].event = "commit"
              THEN MapWithout(held[a]) ELSE opmap

\* advanceLifecycleTransaction succeeded: a request unlocks and goes on to
\* FinalizeLifecycleDefinition, the pass finalizes under the same gate.
AdvanceSucceeds(a) ==
  IF a \in Callers
  THEN /\ gate' = [gate EXCEPT ![held[a]] = None]
       /\ held' = [held EXCEPT ![a] = 0]
       /\ stage' = [stage EXCEPT ![a] = "finalize"]
       /\ Goto(a, "op")
  ELSE Goto(a, "finalize") /\ UNCHANGED <<gate, held, stage>>

\* upsertCommitted's conditional SQL update.
Upsert(m, d, init) ==
  CASE d.seq > m.seq -> [seq |-> d.seq, ver |-> d.ver, init |-> init]
    [] d.seq = m.seq /\ d.ver = m.ver -> [m EXCEPT !.init = @ \/ init]
    [] OTHER -> m

-----------------------------------------------------------------------------
(* Requests and lifecycleOperation.                                        *)

\* ValidateCommitDefinition's sequence check, against the local table.
CommitAdmitted(o, d) == d.seq = mirror[o][d.name].seq + 1

\* validateInitState admitted an Init of d when the local table held it; the
\* table may have moved on until the Init transaction committed.
InitAdmitted(o, d) ==
  /\ InitRequired(d)
  /\ d.seq <= mirror[o][d.name].seq
  /\ \E i \in 1..high.value : index[i].def = d

\* A Commit request that has passed the readiness gate, or the completion of a
\* committed Init transaction.
Start(a, j) ==
  /\ a \in Callers
  /\ pc[a] \in {"idle", "done"}
  /\ requests < MaxReq
  /\ Up(Home[a])
  /\ [name |-> j.def.name, ver |-> j.def.ver, event |-> j.event] \in Duty[a]
  /\ IF j.event = "commit" THEN CommitAdmitted(Home[a], j.def) ELSE InitAdmitted(Home[a], j.def)
  /\ requests' = requests + 1
  /\ job' = [job EXCEPT ![a] = j]
  /\ stage' = [stage EXCEPT ![a] = "submit"]
  /\ Goto(a, "op")
  /\ UNCHANGED <<ledgerVars, txVars, opVars, mirror, held, read, target, batch,
                 sync, crashes>>

\* Join the pending object of this operation, or create one.
Operation(a) ==
  LET o == Home[a]
      k == KeyOf(job[a])
      p == opmap[o][k]
      Create(owner) ==
        /\ nop < MaxOp
        /\ nop' = nop + 1
        /\ op' = [op EXCEPT ![nop + 1] =
                    [org |-> o, job |-> job[a], tx |-> 0, status |-> "",
                     resolved |-> FALSE, left |-> {}]]
        /\ opmap' = [opmap EXCEPT ![o][k] = nop + 1]
        /\ gate' = [gate EXCEPT ![nop + 1] = owner]
  IN
  /\ pc[a] = "op"
  /\ \/ /\ p # 0
        /\ op[p].job.def = job[a].def
        /\ held' = [held EXCEPT ![a] = p]
        /\ Goto(a, "gate")
        /\ UNCHANGED opVars
     \/ /\ p = 0
        /\ Create(a)
        /\ held' = [held EXCEPT ![a] = nop + 1]
        /\ Goto(a, IF stage[a] = "submit" THEN "advance" ELSE "finalize")
     \/ /\ p = 0 /\ job[a].event = "initialized"  \* expired Init caller
        /\ Create(None)
        /\ Goto(a, "done")
        /\ UNCHANGED held
     \/ /\ p # 0 => op[p].job.def # job[a].def    \* conflict, or expired
        /\ p = 0 => job[a].event = "commit"
        /\ Goto(a, "done")
        /\ UNCHANGED <<opVars, held>>
  /\ UNCHANGED <<ledgerVars, txVars, mirror, stage, job, read, target, batch,
                 sync, requests, crashes>>

\* The gate channel of a pendingLifecycle object has room.
GateFree(p) == gate[p] = None

\* pending.lock: the object is not looked up again once the gate is free.
TakeGate(a) ==
  /\ pc[a] = "gate"
  /\ \/ /\ GateFree(held[a])
        /\ gate' = [gate EXCEPT ![held[a]] = a]
        /\ Goto(a, IF stage[a] = "submit" THEN "advance" ELSE "finalize")
        /\ UNCHANGED held
     \/ /\ held' = [held EXCEPT ![a] = 0]         \* the request expired
        /\ Goto(a, "done")
        /\ UNCHANGED gate
  /\ UNCHANGED <<ledgerVars, txVars, opmap, op, nop, mirror, stage, job, read,
                 target, batch, sync, requests, crashes>>

-----------------------------------------------------------------------------
(* advanceLifecycleTransaction and prepareLifecycleTransaction.            *)

\* observeLifecycleFinality.
Observe(a, s) ==
  LET p == held[a] IN
  IF s = "COMMITTED"
  THEN /\ op' = [op EXCEPT ![p].status = s]
       /\ AdvanceSucceeds(a)
       /\ UNCHANGED opmap
  ELSE /\ op' = IF job[a].event = "initialized"
                THEN [op EXCEPT ![p].tx = 0, ![p].status = ""] ELSE op
       /\ opmap' = IF job[a].event = "commit" THEN MapWithout(p) ELSE opmap
       /\ LeaveVars(a)
       /\ UNCHANGED stage

\* A known commit, a receipt whose outcome must be looked up, or a new
\* transaction to prepare.
Advance(a) ==
  LET p == held[a] IN
  /\ pc[a] = "advance"
  /\ \/ /\ op[p].status = "COMMITTED"
        /\ AdvanceSucceeds(a)
        /\ UNCHANGED <<opmap, op>>
     \/ /\ op[p].status # "COMMITTED" /\ op[p].tx # 0
        /\ \/ tx[op[p].tx].status \in Final /\ Observe(a, tx[op[p].tx].status)
           \/ AdvanceFails(a, op[p].tx) /\ UNCHANGED <<op, stage>>
     \/ /\ op[p].status # "COMMITTED" /\ op[p].tx = 0
        /\ Goto(a, "readRow")
        /\ UNCHANGED <<opmap, op, gate, held, stage>>
  /\ UNCHANGED <<ledgerVars, txVars, nop, mirror, job, read, target, batch,
                 sync, requests, crashes>>

\* Mutant of MayPrepare: a marker is written without looking at the row's flag.
MayPrepareMarker(j, r) ==
  IF j.event = "initialized" THEN DefOf(j.def.name, r) = j.def
  ELSE j.def.seq = r.seq + 1

\* A marker needs the uninitialized row of its definition, a definition the
\* row's next sequence.
MayPrepare(j, r) ==
  IF j.event = "initialized" THEN DefOf(j.def.name, r) = j.def /\ ~r.init
  ELSE j.def.seq = r.seq + 1

\* The definition row: superseded, already there, out of sequence, or go on.
ReadRow(a) ==
  LET p == held[a]
      d == job[a].def
      r == row[d.name]
      same == DefOf(d.name, r) = d
  IN
  /\ pc[a] = "readRow"
  /\ \/ /\ r.seq > d.seq                           \* errLifecycleSuperseded
        /\ LeaveVars(a)
        /\ opmap' = MapWithout(p)
        /\ UNCHANGED <<op, read, stage>>
     \/ /\ same /\ (job[a].event = "commit" \/ r.init)
        /\ op' = [op EXCEPT ![p].status = "COMMITTED"]
        /\ AdvanceSucceeds(a)
        /\ UNCHANGED <<opmap, read>>
     \/ /\ MayPrepare(job[a], r)
        /\ read' = [read EXCEPT ![a].row = r]
        /\ Goto(a, "readHigh")
        /\ UNCHANGED <<opmap, op, gate, held, stage>>
     \/ AdvanceFails(a, 0) /\ UNCHANGED <<op, read, stage>>
  /\ UNCHANGED <<ledgerVars, txVars, nop, mirror, job, target, batch, sync,
                 requests, crashes>>

ReadHigh(a) ==
  /\ pc[a] = "readHigh"
  /\ \/ /\ read' = [read EXCEPT ![a].high = high]
        /\ Goto(a, "readIndex")
        /\ UNCHANGED <<opmap, gate, held>>
     \/ AdvanceFails(a, 0) /\ UNCHANGED read
  /\ UNCHANGED <<ledgerVars, txVars, op, nop, mirror, stage, job, target,
                 batch, sync, requests, crashes>>

\* Mutant of NextIndex: the watermark is advanced twice.
NextIndexSkips(a) == read[a].high.value + 2

NextIndex(a) == read[a].high.value + 1

\* The next index key must be free.  The transaction gets its ID, its read
\* versions and its writes, and the ID is saved before the send.
ReadIndex(a) ==
  LET d == job[a].def
      next == NextIndex(a)
  IN
  /\ pc[a] = "readIndex"
  /\ \/ /\ ntx < MaxTx /\ next \in DOMAIN index
        /\ index[next] = None
        /\ ntx' = ntx + 1
        /\ tx' = [tx EXCEPT ![ntx + 1] =
                    [org |-> OrgOf(a), def |-> d, event |-> job[a].event,
                     init |-> job[a].event = "initialized" \/ ~InitRequired(d),
                     rowVersion |-> read[a].row.version,
                     highVersion |-> read[a].high.version,
                     number |-> next, status |-> ""]]
        /\ op' = [op EXCEPT ![held[a]].tx = ntx + 1]
        /\ Goto(a, "send")
        /\ UNCHANGED <<opmap, gate, held>>
     \/ AdvanceFails(a, 0) /\ UNCHANGED <<tx, ntx, op>>
  /\ UNCHANGED <<ledgerVars, handed, nop, mirror, stage, job, read, target,
                 batch, sync, requests, crashes>>

\* Subscription failure or a certain submission error clears the ID; a lost
\* acknowledgment keeps it.  Only a request waits for finality.
Send(a) ==
  LET p == held[a]
      t == op[p].tx
  IN
  /\ pc[a] = "send"
  /\ \/ /\ op' = [op EXCEPT ![p].tx = 0]
        /\ AdvanceFails(a, 0)
        /\ UNCHANGED <<tx, handed>>
     \/ /\ handed' = handed \cup {t}               \* uncertain, or no wait
        /\ \/ tx' = [tx EXCEPT ![t].status = "ORDERED"]
           \/ UNCHANGED tx
        /\ AdvanceFails(a, t)
        /\ UNCHANGED op
     \/ /\ a \in Callers
        /\ handed' = handed \cup {t}
        /\ tx' = [tx EXCEPT ![t].status = "ORDERED"]
        /\ Goto(a, "wait")
        /\ UNCHANGED <<opmap, op, gate, held>>
  /\ UNCHANGED <<ledgerVars, ntx, nop, mirror, stage, job, read, target, batch,
                 sync, requests, crashes>>

WaitFinality(a) ==
  LET t == op[held[a]].tx IN
  /\ pc[a] = "wait"
  /\ \/ tx[t].status \in Final /\ Observe(a, tx[t].status)
     \/ AdvanceFails(a, t) /\ UNCHANGED <<op, stage>>
  /\ UNCHANGED <<ledgerVars, txVars, nop, mirror, job, read, target, batch,
                 sync, requests, crashes>>

-----------------------------------------------------------------------------
(* finalizeLifecycleOperation and ReconcileDefinition.                     *)

\* A newer revision is on the ledger: the work is done, nobody is told.
Superseded(a) ==
  /\ pc[a] = "finalize"
  /\ row[job[a].def.name].seq > job[a].def.seq
  /\ opmap' = MapWithout(held[a])
  /\ LeaveVars(a)
  /\ UNCHANGED target

Finalize(a) ==
  /\ \/ Superseded(a)
     \/ /\ pc[a] = "finalize"
        /\ row[job[a].def.name].seq <= job[a].def.seq
        /\ target' = [target EXCEPT ![a] = OrgOf(a)]
        /\ Goto(a, "applyRead")
        /\ UNCHANGED <<opmap, gate, held>>
     \/ pc[a] = "finalize" /\ LeaveVars(a) /\ UNCHANGED <<opmap, target>>
  /\ UNCHANGED <<ledgerVars, txVars, op, nop, mirror, stage, job, read, batch,
                 sync, requests, crashes>>

\* applyLedgerDefinition in the target organization, first half: the ledger
\* must hold exactly this definition, and the marker if one is claimed.
ApplyRead(a) ==
  LET d == job[a].def
      r == row[d.name]
  IN
  /\ pc[a] = "applyRead"
  /\ \/ /\ DefOf(d.name, r) = d
        /\ job[a].event = "initialized" => r.init
        /\ read' = [read EXCEPT ![a].row = r]
        /\ Goto(a, "applyWrite")
        /\ UNCHANGED <<gate, held>>
     \/ LeaveVars(a) /\ UNCHANGED read
  /\ UNCHANGED <<ledgerVars, txVars, opmap, op, nop, mirror, stage, job,
                 target, batch, sync, requests, crashes>>

\* Second half: the store update; the reply of a remote organization may be
\* lost after it.
ApplyWrite(a) ==
  LET d == job[a].def
      o == target[a]
      p == held[a]
  IN
  /\ pc[a] = "applyWrite"
  /\ mirror' = [mirror EXCEPT ![o][d.name] = Upsert(@, d, read[a].row.init)]
  /\ \/ /\ op' = [op EXCEPT ![p].left = @ \ {o}]
        /\ Goto(a, "spread")
        /\ UNCHANGED <<gate, held>>
     \/ o # OrgOf(a) /\ LeaveVars(a) /\ UNCHANGED op
  /\ UNCHANGED <<ledgerVars, txVars, opmap, nop, stage, job, read, target,
                 batch, sync, requests, crashes>>

\* Every organization with a static contact but the own one, and of the others
\* those the dynamic resolver finds: one it does not find is left out without
\* an error.
RemotePeers(o) == {P \in SUBSET (Orgs \ {o}) : Static \ {o} \subseteq P}

\* Mutant of Outstanding: the organizations found are not listed.
OutstandingUnlisted(p) == IF op[p].resolved THEN {op[p].left} ELSE {{}}

\* The organizations still to be updated: those found the first time.
Outstanding(p) ==
  IF op[p].resolved THEN {op[p].left} ELSE RemotePeers(op[p].org)

\* DefinitionPropagation after the peers have been listed.
Listed(a, left) ==
  op' = [op EXCEPT ![held[a]].resolved = TRUE, ![held[a]].left = left]

\* No organization is left: the work is done.
SpreadDone(a) ==
  /\ pc[a] = "spread"
  /\ {} \in Outstanding(held[a])
  /\ Listed(a, {})
  /\ opmap' = MapWithout(held[a])
  /\ LeaveVars(a)
  /\ UNCHANGED target

\* The next organization is called.
SpreadOn(a) ==
  /\ pc[a] = "spread"
  /\ \E left \in Outstanding(held[a]) : \E o \in left :
       /\ Up(o)
       /\ Listed(a, left)
       /\ target' = [target EXCEPT ![a] = o]
  /\ Goto(a, "applyRead")
  /\ UNCHANGED <<opmap, gate, held>>

\* The peers cannot be resolved, or one that is left is unreachable.
SpreadStops(a) ==
  /\ pc[a] = "spread"
  /\ \/ \E left \in Outstanding(held[a]) \ {{}} : Listed(a, left)
     \/ Outstanding(held[a]) # {{}} /\ UNCHANGED op
  /\ LeaveVars(a)
  /\ UNCHANGED <<opmap, target>>

Spread(a) ==
  /\ SpreadDone(a) \/ SpreadOn(a) \/ SpreadStops(a)
  /\ UNCHANGED <<ledgerVars, txVars, nop, mirror, stage, job, read, batch,
                 sync, requests, crashes>>

-----------------------------------------------------------------------------
(* reconcileLifecyclePending.                                              *)

\* Mutant of PendingOf: absent objects are collected too.
PendingOrAbsent(o) == {opmap[o][k] : k \in Keys}

\* The objects in the map when the pass starts.
PendingOf(o) == {opmap[o][k] : k \in Keys} \ {0}

\* What a pass may take up: all of them, or PassSize in no particular order.
Batches(o) ==
  {B \in SUBSET PendingOf(o) :
     \/ Cardinality(B) = PassSize
     \/ B = PendingOf(o) /\ Cardinality(B) \in 1..PassSize}

PassStart(o) ==
  /\ pc[o] = "idle"
  /\ Up(o)
  /\ \E B \in Batches(o) : batch' = [batch EXCEPT ![o] = B]
  /\ Goto(o, "pick")
  /\ UNCHANGED <<ledgerVars, txVars, opVars, mirror, stage, job, held, read,
                 target, sync, requests, crashes>>

\* Skip an object somebody holds or that left the map; drop a definition
\* abandoned before its send; otherwise advance it.
PassPick(o) ==
  /\ pc[o] = "pick"
  /\ \/ /\ batch[o] = {}
        /\ Goto(o, "idle")
        /\ UNCHANGED <<batch, opmap, gate, held, stage, job>>
     \/ \E p \in batch[o] :
          LET j == op[p].job
              current == opmap[o][KeyOf(j)] = p
              abandoned == j.event = "commit" /\ op[p].tx = 0 /\ op[p].status = ""
          IN
          /\ batch' = [batch EXCEPT ![o] = @ \ {p}]
          /\ IF GateFree(p) /\ current /\ ~abandoned
             THEN /\ gate' = [gate EXCEPT ![p] = o]
                  /\ held' = [held EXCEPT ![o] = p]
                  /\ job' = [job EXCEPT ![o] = j]
                  /\ stage' = [stage EXCEPT ![o] = "pass"]
                  /\ Goto(o, "advance")
                  /\ UNCHANGED opmap
             ELSE /\ opmap' = IF GateFree(p) /\ current THEN MapWithout(p) ELSE opmap
                  /\ UNCHANGED <<pc, gate, held, stage, job>>
  /\ UNCHANGED <<ledgerVars, txVars, op, nop, mirror, read, target, sync,
                 requests, crashes>>

-----------------------------------------------------------------------------
(* The committer: read versions are checked, then all three rows written.  *)

Validate(t) ==
  /\ tx[t] # None
  /\ tx[t].status = "ORDERED"
  /\ LET x == tx[t]
         n == x.def.name
         valid == /\ row[n].version = x.rowVersion
                  /\ high.version = x.highVersion
                  /\ index[x.number] = None
     IN IF valid
        THEN /\ row' = [row EXCEPT ![n] = [seq |-> x.def.seq, ver |-> x.def.ver,
                                           init |-> x.init, version |-> @.version + 1]]
             /\ index' = [index EXCEPT ![x.number] =
                            [def |-> x.def, event |-> x.event, init |-> x.init]]
             /\ high' = [value |-> x.number, version |-> high.version + 1]
             /\ tx' = [tx EXCEPT ![t].status = "COMMITTED"]
        ELSE tx' = [tx EXCEPT ![t].status = "ABORTED"] /\ UNCHANGED ledgerVars
  /\ UNCHANGED <<ntx, handed, opVars, mirror, actorVars, sync, requests, crashes>>

-----------------------------------------------------------------------------
(* Crash, restart and syncLifecycleFromLedger.                             *)

\* Requests of the organization die, calls to it fail, the map and the
\* in-memory table are lost, and the restart reads the current watermark.
Crash(o) ==
  /\ crashes < MaxCrash
  /\ Up(o)
  /\ crashes' = crashes + 1
  /\ LET dead == {a \in Actors : OrgOf(a) = o /\ pc[a] # "idle"}
         cut == {a \in Actors \ dead : target[a] = o /\ pc[a] \in {"applyRead", "applyWrite"}}
     IN /\ pc' = [a \in Actors |->
                    CASE a \in dead \cap Callers -> "done"
                      [] a \in dead \cap Passes -> "idle"
                      [] a \in cut -> After(a)
                      [] OTHER -> pc[a]]
        /\ gate' = [p \in OpIds |-> IF gate[p] \in dead \cup cut THEN None ELSE gate[p]]
        /\ held' = [a \in Actors |-> IF a \in dead \cup cut THEN 0 ELSE held[a]]
  /\ opmap' = [opmap EXCEPT ![o] = [k \in Keys |-> 0]]
  /\ batch' = [batch EXCEPT ![o] = {}]
  /\ mirror' = [mirror EXCEPT ![o] = [n \in Names |-> Absent]]
  /\ sync' = [sync EXCEPT ![o] = [at |-> 1, to |-> high.value]]
  /\ UNCHANGED <<ledgerVars, txVars, op, nop, stage, job, read, target, requests>>

\* Mutant of Replayed: the loop stops before the watermark's own entry.
ReplayedEarly(o) == sync[o].at >= sync[o].to

\* The replay loop has passed the watermark it started with.
Replayed(o) == sync[o].at > sync[o].to

\* One index entry: the definition row it names is copied into the table.
SyncStep(o) ==
  LET i == sync[o].at IN
  /\ ~Up(o)
  /\ IF Replayed(o)
     THEN sync' = [sync EXCEPT ![o] = NotSyncing] /\ UNCHANGED mirror
     ELSE /\ index[i] # None
          /\ LET n == index[i].def.name IN
               mirror' = [mirror EXCEPT ![o][n] =
                            Upsert(@, DefOf(n, row[n]), row[n].init)]
          /\ sync' = [sync EXCEPT ![o].at = i + 1]
  /\ UNCHANGED <<ledgerVars, txVars, opVars, actorVars, requests, crashes>>

-----------------------------------------------------------------------------
CallerStep(a) == Operation(a) \/ TakeGate(a)

WorkStep(a) ==
  \/ Advance(a) \/ ReadRow(a) \/ ReadHigh(a) \/ ReadIndex(a) \/ Send(a)
  \/ WaitFinality(a) \/ Finalize(a) \/ ApplyRead(a) \/ ApplyWrite(a) \/ Spread(a)

Next ==
  \/ \E a \in Callers : (\E j \in Job : Start(a, j)) \/ CallerStep(a)
  \/ \E a \in Actors : WorkStep(a)
  \/ \E o \in Passes : PassStart(o) \/ PassPick(o)
  \/ \E t \in TxIds : Validate(t)
  \/ \E o \in Orgs : Crash(o) \/ SyncStep(o)

Spec == Init /\ [][Next]_vars

(* Requests, passes and the committer keep running and maintenance keeps    *)
(* being triggered; the random order of the map puts every object into a    *)
(* pass now and then.  Any request may fail.  So may what a pass does, and  *)
(* without end where it cannot succeed: it looks up a transaction that has  *)
(* no final status.  Where it can, it fails only finitely often: it looks   *)
(* up a final status, reads the ledger, or calls an organization it listed. *)
PassFails(o) ==
  /\ WorkStep(o)
  /\ held'[o] = 0
  /\ UNCHANGED <<op, opmap>>
  /\ \/ pc[o] = "advance" /\ tx[op[held[o]].tx].status \in Final
     \/ pc[o] \in {"finalize", "applyRead", "applyWrite", "spread"}

FairSpec ==
  /\ Spec
  /\ \A a \in Callers : WF_vars(WorkStep(a)) /\ WF_vars(CallerStep(a))
  /\ \A o \in Passes :
       /\ \A p \in OpIds : SF_vars(PassStart(o) /\ p \in batch'[o])
       /\ WF_vars(PassStart(o)) /\ WF_vars(PassPick(o)) /\ WF_vars(WorkStep(o))
       /\ <>[][~PassFails(o)]_vars
  /\ \A t \in TxIds : WF_vars(Validate(t))
  /\ \A o \in Orgs : WF_vars(SyncStep(o))

-----------------------------------------------------------------------------
(* Safety.                                                                 *)

TypeOK ==
  /\ \A n \in Names : row[n].seq \in 0..MaxSeq /\ row[n].version \in 0..MaxTx
  /\ high.value \in 0..MaxTx /\ high.version \in 0..MaxTx
  /\ \A t \in TxIds : tx[t] # None =>
       tx[t].def \in Defs /\ tx[t].status \in {"", "ORDERED"} \cup Final
  /\ handed \subseteq 1..ntx
  /\ \A o \in Orgs, k \in Keys : opmap[o][k] \in 0..nop
  /\ \A p \in OpIds : op[p] # None =>
       op[p].job \in Job /\ op[p].tx \in 0..ntx /\ op[p].left \subseteq Orgs
  /\ pc \in [Actors -> Labels]
  /\ \A a \in Actors : held[a] \in 0..nop
  /\ \A o \in Orgs : batch[o] \subseteq 1..nop

Entries(n) == {i \in 1..high.value : index[i] # None /\ index[i].def.name = n}

\* The three rows a lifecycle transaction writes stay consistent although its
\* reads are three separate queries: the index is gap-free up to the
\* watermark, nothing is above it, and the definition row is the newest entry
\* of its name.  Startup replay (syncLifecycleFromLedger) depends on this.
IndexMatchesRows ==
  /\ \A i \in 1..MaxTx : index[i] # None <=> i <= high.value
  /\ \A n \in Names :
       IF Entries(n) = {} THEN row[n] = NoRow
       ELSE LET last == CHOOSE i \in Entries(n) : \A j \in Entries(n) : j <= i
            IN /\ DefOf(n, row[n]) = index[last].def
               /\ row[n].init = index[last].init
               /\ row[n].version = Cardinality(Entries(n))

\* The index up to its watermark is the log.
Lifecycle == INSTANCE LifecycleContract
               WITH log <- [i \in 1..high.value |-> index[i]], table <- mirror

\* Whatever the organizations do at the same time, the three ledger rows and
\* the tables behave as one log that every organization follows: each sequence
\* is committed once and in order, a revision is marked initialized once and
\* before its successor, a table never holds what the ledger did not commit,
\* and no late or repeated update takes it back (prepareLifecycleTransaction,
\* applyLedgerDefinition, upsertCommitted).
ImplementsLifecycle == Lifecycle!Spec

\* When a restarted orchestrator serves again, its table knows every revision
\* and marker that was committed when it read the watermark, although the rows
\* it copies keep changing under the replay (syncLifecycleFromLedger).
ReplayRestoresTable ==
  [][\A o \in Orgs : ~Up(o) /\ Up(o)' =>
       \A i \in 1..sync[o].to :
         LET m == mirror'[o][index[i].def.name] IN
         \/ m.seq > index[i].def.seq
         \/ m.seq = index[i].def.seq /\ (index[i].init => m.init)]_vars

Knows(o, j) ==
  LET m == mirror[o][j.def.name] IN
  \/ m.seq > j.def.seq
  \/ m.seq = j.def.seq /\ (j.event = "initialized" => m.init)

\* Operation j is on the ledger, with its marker if it is an Init.
OnLedger(j) ==
  \E i \in 1..high.value :
    index[i].def = j.def /\ (j.event = "initialized" => index[i].init)

\* Whenever a Commit or Init completion reports success, its revision (and its
\* marker) is on the ledger, and either a newer revision is too, or every
\* organization with a static contact that is serving, and the own one, has
\* it: also one that crashed after its update and replayed the ledger
\* meanwhile, and also when another request or the maintenance pass told some
\* of them (finalizeLifecycleOperation, ReconcileDefinition's progress).
SuccessIsTrue ==
  [][\A a \in Callers :
       /\ SpreadDone(a) \/ Superseded(a) => OnLedger(job[a])
       /\ Superseded(a) => \E i \in 1..high.value :
            index[i].def.name = job[a].def.name /\ index[i].def.seq > job[a].def.seq
       /\ SpreadDone(a) => \A o \in Static \cup {Home[a]} : Up(o) => Knows(o, job[a])]_vars

\* "Lost ordering acknowledgments and notification timeouts retain only this
\* receipt and can never trigger a resend" (lifecycle_ledger.go:168): an
\* organization does not send a lifecycle operation again while the outcome
\* of an earlier transaction for it is unknown.
NoLifecycleResend ==
  [][\A t \in handed' \ handed : \A u \in handed :
       tx[u].org = tx[t].org /\ tx[u].def = tx[t].def /\ tx[u].event = tx[t].event
       => tx[u].status \in Final]_vars

-----------------------------------------------------------------------------
(* Liveness.                                                               *)

\* A committed lifecycle transaction whose receipt is in an orchestrator's map
\* reaches its own table and that of every organization with a static contact
\* (or a newer revision does), however the request that sent it ended, and
\* although receipts of transactions that were never ordered stay in the map
\* and fail in every pass (reconcileLifecyclePending).
CommitReachesMirrors ==
  \A o \in Passes, k \in Keys :
    (\E p \in OpIds : /\ opmap[o][k] = p
                     /\ op[p].tx # 0 /\ tx[op[p].tx].status = "COMMITTED")
    ~> \A m \in Static \cup {o} : LET r == mirror[m][k[1]] IN
         \/ r.seq > k[2]
         \/ r.seq = k[2] /\ (k[3] = "initialized" => r.init)
         \/ crashes > 0
=============================================================================

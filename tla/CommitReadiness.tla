--------------------------- MODULE CommitReadiness ---------------------------
(***************************************************************************)
(* Approvals, the readiness gate and the spreading of a committed revision *)
(* over several organizations (ApproveForMyOrg, CheckCommitReadiness,      *)
(* Commit and ReconcileDefinition of lifecycle/rpc.go, the approval and    *)
(* sequence checks of lifecycle/store.go, and RemotePeers of               *)
(* orchestrator/remote_resolver.go), for one chaincode name.               *)
(*                                                                         *)
(* An organization approves what follows its own table; a commit asks the  *)
(* organizations it can find, one after another, and only then looks at    *)
(* the ledger.  Tables and approvals are in memory and may be behind.  The *)
(* transaction itself is one step here: LifecycleLedger has its reads, its *)
(* receipt and the initialization marker.                                  *)
(***************************************************************************)
EXTENDS Naturals, Sequences

CONSTANTS Orgs,      \* organizations
          Static,    \* organizations every orchestrator has a static contact of;
                     \* the others are looked up with the dynamic resolver
          Requests,  \* commit requests, each reused when it has returned
          Home,      \* Home[r]: the organization r is sent to
          Versions,  \* definition versions
          MaxSeq,    \* bound on sequences
          Offered,   \* Offered[o]: the definitions operators of o work with
          None

ASSUME ReadinessAssumption ==
  /\ Static \subseteq Orgs
  /\ Home \in [Requests -> Orgs]
  /\ None \notin Versions
  /\ MaxSeq \in Nat
  /\ Offered \in [Orgs -> SUBSET [seq : 1..MaxSeq, ver : Versions]]

Defs == [seq : 1..MaxSeq, ver : Versions]

VARIABLES
  ledger,    \* the committed versions; ledger[s] is sequence s
  sent,      \* definitions in transactions that ordering has
  up,        \* up[o]: o serves requests
  table,     \* table[o]: the sequence of o's committed row, 0 when there is none
  approval,  \* approval[o][s]: the version o approves at sequence s, or None
  checked,   \* checked[o]: an approval that was checked and not written, or None
  ever,      \* ever[o]: every definition o in Static has approved (history)
  pc, want, left   \* the requests; left: organizations still to be called

orgVars == <<up, table, approval, checked, ever>>
reqVars == <<pc, want, left>>
vars == <<ledger, sent, orgVars, reqVars>>

NoApprovals == [s \in 1..MaxSeq |-> None]

Init ==
  /\ ledger = <<>>
  /\ sent = {}
  /\ up = [o \in Orgs |-> TRUE]
  /\ table = [o \in Orgs |-> 0]
  /\ approval = [o \in Orgs |-> NoApprovals]
  /\ checked = [o \in Orgs |-> None]
  /\ ever = [o \in Static |-> {}]
  /\ pc = [r \in Requests |-> "idle"]
  /\ want = [r \in Requests |-> None]
  /\ left = [r \in Requests |-> {}]

-----------------------------------------------------------------------------
(* Approval.                                                               *)

\* Mutants of Approvable: any sequence may be approved; the active sequence
\* may not be approved again.
ApprovableAny(o, d) == d.seq = table[o] => ledger[d.seq] = d.ver

ApprovableNext(o, d) == d.seq = table[o] + 1

\* The sequence rule of ApproveForMyOrg, against the local table: the active
\* definition itself, or the next sequence.
Approvable(o, d) ==
  \/ d.seq = table[o] /\ ledger[d.seq] = d.ver
  \/ d.seq = table[o] + 1

ApproveCheck(o, d) ==
  /\ up[o]
  /\ checked[o] = None
  /\ Approvable(o, d)
  /\ checked' = [checked EXCEPT ![o] = d]
  /\ UNCHANGED <<ledger, sent, up, table, approval, ever, reqVars>>

\* The row is written later; it replaces another version at this sequence.
ApproveWrite(o) ==
  LET d == checked[o] IN
  /\ d # None
  /\ approval' = [approval EXCEPT ![o][d.seq] = d.ver]
  /\ ever' = IF o \in Static THEN [ever EXCEPT ![o] = @ \cup {d}] ELSE ever
  /\ checked' = [checked EXCEPT ![o] = None]
  /\ UNCHANGED <<ledger, sent, up, table, reqVars>>

-----------------------------------------------------------------------------
(* Commit.                                                                 *)

\* Mutant of HasMatchingApproval: the sequence alone is compared.
HasApproval(o, d) == approval[o][d.seq] # None

HasMatchingApproval(o, d) == approval[o][d.seq] = d.ver

\* The request returns, with or without success.
End(r) ==
  /\ pc' = [pc EXCEPT ![r] = "idle"]
  /\ want' = [want EXCEPT ![r] = None]
  /\ left' = [left EXCEPT ![r] = {}]

Goto(r, l) == pc' = [pc EXCEPT ![r] = l]

\* Every organization with a static contact but the own one.
StaticPeers(o) == Static \ {o}

\* Of the others, those the dynamic resolver finds; one it does not find is
\* left out without an error.
DynamicPeers(o) == SUBSET (Orgs \ {o})

RemotePeers(o) == {StaticPeers(o) \cup P : P \in DynamicPeers(o)}

\* Mutant of OnLedger: an update is believed without reading the ledger.
OnLedgerUnread(d) == TRUE

\* ReadLifecycleDefinition returns this very definition.
OnLedger(d) == d.seq = Len(ledger) /\ ledger[d.seq] = d.ver

\* checkCommitReadiness begins with the local approval.
Commit(r, d) ==
  /\ pc[r] = "idle"
  /\ up[Home[r]]
  /\ HasMatchingApproval(Home[r], d)
  /\ Goto(r, "ask")
  /\ want' = [want EXCEPT ![r] = d]
  /\ \E P \in RemotePeers(Home[r]) : left' = [left EXCEPT ![r] = P]
  /\ UNCHANGED <<ledger, sent, orgVars>>

\* One organization's CheckCommitReadiness, answered from its own approvals.
Ask(r, o) ==
  /\ pc[r] = "ask"
  /\ o \in left[r]
  /\ up[o]
  /\ HasMatchingApproval(o, want[r])
  /\ left' = [left EXCEPT ![r] = @ \ {o}]
  /\ UNCHANGED <<ledger, sent, orgVars, pc, want>>

\* ValidateCommitDefinition: the local approval again, and the local sequence.
ValidateCommit(r) ==
  /\ pc[r] = "ask"
  /\ left[r] = {}
  /\ HasMatchingApproval(Home[r], want[r])
  /\ want[r].seq = table[Home[r]] + 1
  /\ Goto(r, "prepare")
  /\ UNCHANGED <<ledger, sent, orgVars, want, left>>

\* CommitLifecycleDefinition: the row holds this very definition already, or
\* its sequence is next and a transaction is sent.
Prepare(r) ==
  LET d == want[r] IN
  /\ pc[r] = "prepare"
  /\ \/ /\ OnLedger(d)
        /\ Goto(r, "apply")
        /\ UNCHANGED sent
     \/ /\ d.seq = Len(ledger) + 1
        /\ sent' = sent \cup {d}
        /\ Goto(r, "wait")
  /\ left' = [left EXCEPT ![r] = None]
  /\ UNCHANGED <<ledger, orgVars, want>>

\* The committer (external): a transaction is valid while its sequence is next.
Order(d) ==
  /\ d \in sent
  /\ sent' = sent \ {d}
  /\ ledger' = IF d.seq = Len(ledger) + 1 THEN Append(ledger, d.ver) ELSE ledger
  /\ UNCHANGED <<orgVars, reqVars>>

\* The outcome of the transaction: committed, or aborted by a competing one.
WaitFinality(r) ==
  LET d == want[r] IN
  /\ pc[r] = "wait"
  /\ d.seq <= Len(ledger)
  /\ IF ledger[d.seq] = d.ver THEN Goto(r, "apply") /\ UNCHANGED <<want, left>> ELSE End(r)
  /\ UNCHANGED <<ledger, sent, orgVars>>

\* upsertCommitted moves a table forward only.
Later(s, t) == IF s > t THEN s ELSE t

\* finalizeLifecycleOperation: a newer revision supersedes this one; otherwise
\* the own table is updated and, once, the organizations to tell are resolved.
Apply(r) ==
  LET d == want[r]
      h == Home[r]
  IN
  /\ pc[r] = "apply"
  /\ \/ /\ Len(ledger) > d.seq
        /\ End(r)
        /\ UNCHANGED table
     \/ /\ OnLedger(d)
        /\ table' = [table EXCEPT ![h] = Later(d.seq, @)]
        /\ IF left[r] = None
           THEN \E P \in RemotePeers(h) : left' = [left EXCEPT ![r] = P]
           ELSE UNCHANGED left
        /\ Goto(r, "tell")
        /\ UNCHANGED want
  /\ UNCHANGED <<ledger, sent, up, approval, checked, ever>>

\* applyLedgerDefinition at another organization: only the ledger's newest
\* revision is copied.
Tell(r, o) ==
  LET d == want[r] IN
  /\ pc[r] = "tell"
  /\ o \in left[r]
  /\ up[o]
  /\ OnLedger(d)
  /\ table' = [table EXCEPT ![o] = Later(d.seq, @)]
  /\ left' = [left EXCEPT ![r] = @ \ {o}]
  /\ UNCHANGED <<ledger, sent, up, approval, checked, ever, pc, want>>

Return(r) ==
  /\ pc[r] = "tell"
  /\ left[r] = {}
  /\ End(r)
  /\ UNCHANGED <<ledger, sent, orgVars>>

\* The request ends with an error: refused, a call failed or timed out, an
\* organization is down, the ledger has moved on.  Work that has a transaction
\* is kept for the maintenance pass.
Fail(r) ==
  /\ pc[r] \notin {"idle", "kept"}
  /\ IF pc[r] \in {"ask", "prepare"} THEN End(r) ELSE Goto(r, "kept") /\ UNCHANGED <<want, left>>
  /\ UNCHANGED <<ledger, sent, orgVars>>

\* reconcileLifecyclePending takes the kept work up again.
Resume(r) ==
  /\ pc[r] = "kept"
  /\ Goto(r, "wait")
  /\ UNCHANGED <<ledger, sent, orgVars, want, left>>

-----------------------------------------------------------------------------
(* Crash and restart.                                                      *)

\* Approvals, running requests and kept work are lost.  While the organization
\* is down its table is what the replay will restore at least: everything up to
\* the watermark it reads first.
Crash(o) ==
  /\ up[o]
  /\ up' = [up EXCEPT ![o] = FALSE]
  /\ table' = [table EXCEPT ![o] = Len(ledger)]
  /\ approval' = [approval EXCEPT ![o] = NoApprovals]
  /\ checked' = [checked EXCEPT ![o] = None]
  /\ pc' = [r \in Requests |-> IF Home[r] = o THEN "idle" ELSE pc[r]]
  /\ want' = [r \in Requests |-> IF Home[r] = o THEN None ELSE want[r]]
  /\ left' = [r \in Requests |-> IF Home[r] = o THEN {} ELSE left[r]]
  /\ UNCHANGED <<ledger, sent, ever>>

\* syncLifecycleFromLedger copies the rows it finds, which may be newer.
Restart(o) ==
  /\ ~up[o]
  /\ up' = [up EXCEPT ![o] = TRUE]
  /\ \E s \in table[o]..Len(ledger) : table' = [table EXCEPT ![o] = s]
  /\ UNCHANGED <<ledger, sent, approval, checked, ever, reqVars>>

-----------------------------------------------------------------------------
RequestStep(r) ==
  \/ \E o \in Orgs : Ask(r, o) \/ Tell(r, o)
  \/ ValidateCommit(r) \/ Prepare(r) \/ WaitFinality(r) \/ Apply(r) \/ Return(r)

Next ==
  \/ \E o \in Orgs : \/ \E d \in Offered[o] : ApproveCheck(o, d)
                     \/ ApproveWrite(o) \/ Crash(o) \/ Restart(o)
  \/ \E r \in Requests : \/ \E d \in Offered[Home[r]] : Commit(r, d)
                         \/ RequestStep(r) \/ Fail(r) \/ Resume(r)
  \/ \E d \in Defs : Order(d)

Spec == Init /\ [][Next]_vars

Newest == IF ledger = <<>> THEN None
          ELSE [seq |-> Len(ledger), ver |-> ledger[Len(ledger)]]

\* What eventually stops: crashes, calls that fail without a cause, and
\* operators who approve or commit anything but the newest definition.
Disturbs ==
  \/ \E o \in Orgs : \/ Crash(o) /\ Len(ledger) <= table[o] + 1
                     \/ \E d \in Offered[o] : ApproveCheck(o, d) /\ d # Newest
  \/ \E r \in Requests : \/ Fail(r) /\ ENABLED RequestStep(r)
                         \/ \E d \in Offered[Home[r]] : Commit(r, d) /\ d # Newest

(* Requests, the maintenance pass and ordering keep running.  Operators      *)
(* approve the newest definition where it is not approved, commit it at an   *)
(* organization that lacks it, and restart one that is two or more behind.   *)
FairSpec ==
  /\ Spec
  /\ \A r \in Requests :
       /\ WF_vars(RequestStep(r)) /\ WF_vars(Fail(r)) /\ WF_vars(Resume(r))
       /\ WF_vars(table[Home[r]] < Len(ledger) /\ Commit(r, Newest))
  /\ \A o \in Orgs :
       /\ WF_vars(ApproveWrite(o)) /\ WF_vars(Restart(o))
       /\ WF_vars(/\ Newest # None /\ ~HasMatchingApproval(o, Newest)
                  /\ ApproveCheck(o, Newest))
       /\ WF_vars(table[o] + 1 < Len(ledger) /\ Crash(o))
  /\ \A d \in Defs : WF_vars(Order(d))
  /\ <>[][~Disturbs]_vars

-----------------------------------------------------------------------------
(* Safety.                                                                 *)

TypeOK ==
  /\ ledger \in Seq(Versions) /\ Len(ledger) <= MaxSeq
  /\ sent \subseteq Defs
  /\ up \in [Orgs -> BOOLEAN]
  /\ table \in [Orgs -> 0..Len(ledger)]
  /\ approval \in [Orgs -> [1..MaxSeq -> Versions \cup {None}]]
  /\ checked \in [Orgs -> Defs \cup {None}]
  /\ ever \in [Static -> SUBSET Defs]
  /\ pc \in [Requests -> {"idle", "ask", "prepare", "wait", "apply", "tell", "kept"}]
  /\ want \in [Requests -> Defs \cup {None}]
  /\ left \in [Requests -> (SUBSET Orgs) \cup {None}]

\* A revision is committed only when every organization that can be found
\* approved exactly this definition at some time, although the answers are
\* collected one after another, approvals are replaced and lost meanwhile, and
\* the transaction may be ordered long after its request is gone
\* (checkCommitReadiness, Commit).
RevisionsApproved ==
  \A s \in 1..Len(ledger), o \in Static : [seq |-> s, ver |-> ledger[s]] \in ever[o]

\* An organization that every orchestrator can find is never more than one
\* revision behind the ledger, whatever updates it missed: without its approval
\* nothing is committed, and it cannot approve what does not follow its table
\* (validateNextSequence, applyLedgerDefinition).
LagsByAtMostOne == \A o \in Static : Len(ledger) <= table[o] + 1

-----------------------------------------------------------------------------
(* Liveness.                                                               *)

\* An organization that missed a revision, because the committer crashed, could
\* not reach it or did not find it, is not stuck: serving, it is level with the
\* ledger again and again.  One revision behind, approving and committing the
\* newest definition there is enough, although the ledger takes no second
\* transaction and the others are past that sequence; only further behind it
\* takes a restart (ApproveForMyOrg's active case, CommitLifecycleDefinition's
\* existing row, syncLifecycleFromLedger).
LaggardsCatchUp == \A o \in Orgs : []<>(up[o] /\ table[o] = Len(ledger))
=============================================================================

--------------------------- MODULE PackageBinding ---------------------------
(***************************************************************************)
(* Which package an organization runs for a chaincode: local installs and  *)
(* approvals (lifecycle/store.go ApproveForMyOrg), the connection cache    *)
(* (resolved_connections) and the executions that resolve an endpoint      *)
(* (orchestrator/lifecycle_executor.go, lifecycle_binding.go).             *)
(*                                                                         *)
(* One organization, one chaincode name.  Every SQL statement is a step of *)
(* its own: the store opens no transaction and holds no lock across two    *)
(* statements.  A package ID is the hash of the package, so the package    *)
(* stands for its endpoint address too; init_required is part of the       *)
(* version here.                                                           *)
(***************************************************************************)
EXTENDS Naturals

CONSTANTS Approvers,   \* ApproveForMyOrg requests
          Executors,   \* chaincode executions
          Packages,    \* installable packages
          Versions,    \* definition versions
          MaxSeq,      \* bound on committed sequences
          Discovered,  \* the endpoint the configured resolver returns
          Fallback,    \* the statically configured endpoint
          None

Seqs == 1..MaxSeq
Defs == [seq : Seqs, ver : Versions]
Bindings == [ver : Versions, pkg : Packages]
Connections == [ver : Versions, pkg : Packages \cup {Discovered}]
Endpoints == Packages \cup {Discovered, Fallback}
Labels == {"idle", "next", "compare", "upsert", "purge",
           "execute", "cache", "approval", "resolver", "put", "list",
           "legacy", "ran", "evidence", "evidenceCache", "evidencePut", "ok", "error"}

\* None is no definition and no way of resolving an endpoint.
ASSUME BindingAssumption ==
  /\ Approvers \cap Executors = {}
  /\ {Discovered, Fallback, None} \cap Packages = {}
  /\ Discovered # Fallback /\ None \notin {Discovered, Fallback}
  /\ None \notin Defs /\ None \notin {"cache", "resolved", "legacy", "fallback"}
  /\ MaxSeq \in Nat

VARIABLES
  installed,  \* installed_packages
  committed,  \* this organization's committed_definitions row, or None
  approval,   \* approval[s]: approved_definitions row of the local MSP, or None
  cache,      \* cache[s]: resolved_connections row of the local MSP, or None
  pc,         \* where a request or execution is; "ok" / "error" when it returned
  want,       \* want[a]: the definition and package request a approves
  selected,   \* selected[e]: the definition the invocation selected, or None
  found,      \* found[e]: what the last lookup gave execution e
  ranFor,     \* ranFor[e]: the definition whose package was resolved
  ran,        \* ran[e]: the endpoint the chaincode ran on
  via,        \* via[e]: how that endpoint was resolved
  reported,   \* reported[e]: the definition the execution binding reports
  evidence,   \* evidence[e]: the package the execution binding reports
  bound       \* bound[s]: every binding ever approved for sequence s

storeVars == <<installed, committed, approval, cache>>
execVars == <<selected, found, ranFor, ran, via, reported, evidence>>
vars == <<storeVars, pc, want, execVars, bound>>

Init ==
  /\ installed = {}
  /\ committed = None
  /\ approval = [s \in Seqs |-> None]
  /\ cache = [s \in Seqs |-> None]
  /\ pc = [x \in Approvers \cup Executors |-> "idle"]
  /\ want = [a \in Approvers |-> None]
  /\ selected = [e \in Executors |-> None]
  /\ found = [e \in Executors |-> None]
  /\ ranFor = [e \in Executors |-> None]
  /\ ran = [e \in Executors |-> None]
  /\ via = [e \in Executors |-> None]
  /\ reported = [e \in Executors |-> None]
  /\ evidence = [e \in Executors |-> None]
  /\ bound = [s \in Seqs |-> {}]

Goto(x, l) == pc' = [pc EXCEPT ![x] = l]

-----------------------------------------------------------------------------
(* Installs, and definitions arriving from the ledger.                     *)

Install(p) ==
  /\ p \notin installed
  /\ installed' = installed \cup {p}
  /\ UNCHANGED <<committed, approval, cache, pc, want, execVars, bound>>

\* UpsertCommittedFromLedger needs no local approval: the next revision, or
\* after a restart the newest one.
LedgerCommit(d) ==
  /\ committed # None => d.seq > committed.seq
  /\ committed' = d
  /\ UNCHANGED <<installed, approval, cache, pc, want, execVars, bound>>

-----------------------------------------------------------------------------
(* ApproveForMyOrg.                                                        *)

ValidateNextSequence(d) == d.seq = IF committed = None THEN 1 ELSE committed.seq + 1

\* GetInstalled and the first GetCommitted.
Approve(a, d, p) ==
  /\ pc[a] = "idle"
  /\ want' = [want EXCEPT ![a] = [seq |-> d.seq, bind |-> [ver |-> d.ver, pkg |-> p]]]
  /\ Goto(a, CASE p \notin installed -> "error"
               [] p \in installed /\ committed # None /\ committed.seq = d.seq ->
                    IF committed = d THEN "compare" ELSE "error"
               [] OTHER -> "next")
  /\ UNCHANGED <<storeVars, execVars, bound>>

\* validateNextSequence reads the committed row again.
ApproveNext(a) ==
  /\ pc[a] = "next"
  /\ Goto(a, IF ValidateNextSequence(want[a]) THEN "compare" ELSE "error")
  /\ UNCHANGED <<storeVars, want, execVars, bound>>

\* GetApproval: an identical approval is returned as it is.
ApproveCompare(a) ==
  /\ pc[a] = "compare"
  /\ Goto(a, IF approval[want[a].seq] = want[a].bind THEN "ok" ELSE "upsert")
  /\ UNCHANGED <<storeVars, want, execVars, bound>>

ApproveUpsert(a) ==
  LET s == want[a].seq IN
  /\ pc[a] = "upsert"
  /\ approval' = [approval EXCEPT ![s] = want[a].bind]
  /\ bound' = [bound EXCEPT ![s] = @ \cup {want[a].bind}]
  /\ Goto(a, "purge")
  /\ UNCHANGED <<installed, committed, cache, want, execVars>>

ApprovePurge(a) ==
  /\ pc[a] = "purge"
  /\ cache' = [cache EXCEPT ![want[a].seq] = None]
  /\ Goto(a, "ok")
  /\ UNCHANGED <<installed, committed, approval, want, execVars, bound>>

-----------------------------------------------------------------------------
(* An execution: select the revision, resolve its endpoint, run, report.   *)

\* selectLifecycleDefinition, when the invocation is admitted: nothing may be
\* committed yet, and then no revision is selected.
Select(e) ==
  /\ pc[e] = "idle"
  /\ selected' = [selected EXCEPT ![e] = committed]
  /\ Goto(e, "execute")
  /\ UNCHANGED <<storeVars, want, found, ranFor, ran, via, reported, evidence, bound>>

Run(e, p, how) ==
  /\ ran' = [ran EXCEPT ![e] = p]
  /\ via' = [via EXCEPT ![e] = how]
  /\ Goto(e, "ran")

\* Mutant of Unchanged: the revision is not compared.
UnchangedAnyway(e) == committed # None

\* An invocation that selected no revision has no sequence to compare.
Unchanged(e) == selected[e] \in {None, committed}

\* Execute reads the committed row again and refuses a changed revision.
ResolveCommittedDefinition(e) ==
  /\ pc[e] = "execute"
  /\ ranFor' = [ranFor EXCEPT ![e] = committed]
  /\ IF committed = None THEN Run(e, Fallback, "fallback")
     ELSE Goto(e, IF Unchanged(e) THEN "cache" ELSE "error") /\ UNCHANGED <<ran, via>>
  /\ UNCHANGED <<storeVars, want, selected, found, reported, evidence, bound>>

CacheHit(d) == cache[d.seq] # None /\ cache[d.seq].ver = d.ver

GetResolvedConnection(e) ==
  LET d == ranFor[e] IN
  /\ pc[e] = "cache"
  /\ IF CacheHit(d)
     THEN Run(e, cache[d.seq].pkg, "cache")
     ELSE Goto(e, "approval") /\ UNCHANGED <<ran, via>>
  /\ UNCHANGED <<storeVars, want, selected, found, ranFor, reported, evidence, bound>>

\* Mutant of Approved: the version is not compared.
ApprovedSequence(d) == approval[d.seq] # None

Approved(d) == approval[d.seq] # None /\ approval[d.seq].ver = d.ver

GetApproval(e) ==
  LET d == ranFor[e] IN
  /\ pc[e] = "approval"
  /\ found' = [found EXCEPT ![e] = IF Approved(d) THEN approval[d.seq].pkg ELSE None]
  /\ Goto(e, IF Approved(d) THEN "put" ELSE "resolver")
  /\ UNCHANGED <<storeVars, want, selected, ranFor, ran, via, reported, evidence, bound>>

\* The resolver is configured and knows the definition, or not.
Resolve(e) ==
  /\ pc[e] = "resolver"
  /\ \/ found' = [found EXCEPT ![e] = Discovered] /\ Goto(e, "put")
     \/ Goto(e, "list") /\ UNCHANGED found
  /\ UNCHANGED <<storeVars, want, selected, ranFor, ran, via, reported, evidence, bound>>

PutResolvedConnection(e) ==
  LET d == ranFor[e] IN
  /\ pc[e] = "put"
  /\ cache' = [cache EXCEPT ![d.seq] = [ver |-> d.ver, pkg |-> found[e]]]
  /\ Run(e, found[e], "resolved")
  /\ UNCHANGED <<installed, committed, approval, want, selected, found, ranFor,
                 reported, evidence, bound>>

\* ResolveCommittedPackage looks the name up once more, without the revision.
LegacyList(e) ==
  /\ pc[e] = "list"
  /\ ranFor' = [ranFor EXCEPT ![e] = committed]
  /\ Goto(e, "legacy")
  /\ UNCHANGED <<storeVars, want, selected, found, ran, via, reported, evidence, bound>>

LegacyResolve(e) ==
  LET d == ranFor[e] IN
  /\ pc[e] = "legacy"
  /\ IF Approved(d) THEN Run(e, approval[d.seq].pkg, "legacy")
     ELSE Run(e, Fallback, "fallback")
  /\ UNCHANGED <<storeVars, want, selected, found, ranFor, reported, evidence, bound>>

\* Mutant of ReportedBy: the revision active now.
ReportedByActive(e) == committed

ReportedBy(e) == IF selected[e] # None THEN selected[e] ELSE committed

\* lifecycleExecutionBinding, after the run, reports the selected revision or,
\* when none was selected, the one committed by then, if any.
EvidenceDefinition(e) ==
  /\ pc[e] = "ran"
  /\ reported' = [reported EXCEPT ![e] = ReportedBy(e)]
  /\ Goto(e, IF ReportedBy(e) = None THEN "ok" ELSE "evidence")
  /\ UNCHANGED <<storeVars, want, selected, found, ranFor, ran, via, evidence, bound>>

\* Its package: approval first, then the cache, then the resolver, whose answer
\* is cached.  A lookup that fails is skipped.
EvidenceApproval(e) ==
  LET d == reported[e] IN
  /\ pc[e] = "evidence"
  /\ \/ Approved(d) /\ evidence' = [evidence EXCEPT ![e] = approval[d.seq].pkg]
     \/ UNCHANGED evidence
  /\ Goto(e, "evidenceCache")
  /\ UNCHANGED <<storeVars, want, selected, found, ranFor, ran, via, reported, bound>>

EvidenceCache(e) ==
  LET d == reported[e] IN
  /\ pc[e] = "evidenceCache"
  /\ \/ evidence[e] = None /\ CacheHit(d)
        /\ evidence' = [evidence EXCEPT ![e] = cache[d.seq].pkg]
     \/ UNCHANGED evidence
  /\ Goto(e, IF evidence'[e] \in {None, Discovered} THEN "evidencePut" ELSE "ok")
  /\ UNCHANGED <<storeVars, want, selected, found, ranFor, ran, via, reported, bound>>

EvidenceResolve(e) ==
  LET d == reported[e] IN
  /\ pc[e] = "evidencePut"
  /\ \/ /\ evidence' = [evidence EXCEPT ![e] = IF @ = None THEN Discovered ELSE @]
        /\ \/ cache' = [cache EXCEPT ![d.seq] = [ver |-> d.ver, pkg |-> Discovered]]
           \/ UNCHANGED cache
     \/ UNCHANGED <<evidence, cache>>
  /\ Goto(e, "ok")
  /\ UNCHANGED <<installed, committed, approval, want, selected, found, ranFor,
                 ran, via, reported, bound>>

-----------------------------------------------------------------------------
(* Any statement may fail or find its request's deadline passed.           *)
Fails(x) ==
  /\ pc[x] \notin {"idle", "ok", "error"}
  /\ Goto(x, "error")
  /\ UNCHANGED <<storeVars, want, execVars, bound>>

ExecStep(e) ==
  \/ Select(e) \/ ResolveCommittedDefinition(e) \/ GetResolvedConnection(e)
  \/ GetApproval(e) \/ Resolve(e) \/ PutResolvedConnection(e) \/ LegacyList(e)
  \/ LegacyResolve(e) \/ EvidenceDefinition(e) \/ EvidenceApproval(e)
  \/ EvidenceCache(e) \/ EvidenceResolve(e)

ApproveStep(a) ==
  ApproveNext(a) \/ ApproveCompare(a) \/ ApproveUpsert(a) \/ ApprovePurge(a)

Next ==
  \/ \E p \in Packages : Install(p)
  \/ \E d \in Defs : LedgerCommit(d)
  \/ \E a \in Approvers : \E d \in Defs, p \in Packages : Approve(a, d, p)
  \/ \E a \in Approvers : ApproveStep(a)
  \/ \E e \in Executors : ExecStep(e)
  \/ \E x \in Approvers \cup Executors : Fails(x)

Spec == Init /\ [][Next]_vars

-----------------------------------------------------------------------------
TypeOK ==
  /\ installed \subseteq Packages
  /\ committed \in Defs \cup {None}
  /\ approval \in [Seqs -> Bindings \cup {None}]
  /\ cache \in [Seqs -> Connections \cup {None}]
  /\ pc \in [Approvers \cup Executors -> Labels]
  /\ want \in [Approvers -> [seq : Seqs, bind : Bindings] \cup {None}]
  /\ selected \in [Executors -> Defs \cup {None}]
  /\ found \in [Executors -> Packages \cup {Discovered, None}]
  /\ ranFor \in [Executors -> Defs \cup {None}]
  /\ ran \in [Executors -> Endpoints \cup {None}]
  /\ via \in [Executors -> {"cache", "resolved", "legacy", "fallback", None}]
  /\ reported \in [Executors -> Defs \cup {None}]
  /\ evidence \in [Executors -> Packages \cup {Discovered, None}]
  /\ bound \in [Seqs -> SUBSET Bindings]

\* Whatever approvals, revisions and executions overlap, a cached endpoint is
\* one this organization approved for exactly the cached revision, or one its
\* resolver returned, and never belongs to a revision that was not active
\* (resolveChaincodeConnection, PutResolvedConnection).
CachedEndpointWasApproved ==
  \A s \in Seqs : cache[s] # None =>
    /\ cache[s].pkg = Discovered \/ cache[s] \in bound[s]
    /\ committed # None /\ s <= committed.seq
    /\ s = committed.seq => cache[s].ver = committed.ver

\* An execution that resolves its endpoint from the cache, its approval or the
\* resolver runs an endpoint approved for the revision it selected, even if
\* the revision changes meanwhile; if it selected none, for one revision all the
\* same (Execute's sequence check, GetResolvedConnection).
SelectedRevisionRuns ==
  \A e \in Executors : via[e] \in {"cache", "resolved"} =>
    /\ selected[e] \in {None, ranFor[e]}
    /\ \/ ran[e] = Discovered
       \/ [ver |-> ranFor[e].ver, pkg |-> ran[e]] \in bound[ranFor[e].seq]

\* The package an execution reports was approved for the revision it reports,
\* and that is the one the invocation selected, if any, though both are looked
\* up after the run, when the revision and its binding may have been replaced
\* (lifecycleExecutionBinding).
EvidenceWasApproved ==
  \A e \in Executors : evidence[e] \in Packages =>
    /\ selected[e] \in {None, reported[e]}
    /\ [ver |-> reported[e].ver, pkg |-> evidence[e]] \in bound[reported[e].seq]

\* "Reject a concurrent local lifecycle switch rather than silently changing
\* runtimes" (lifecycle_executor.go:50): the package that runs was approved
\* for the revision the invocation selected.
NoSilentRuntimeChange ==
  \A e \in Executors : selected[e] # None /\ via[e] \in {"cache", "resolved", "legacy"} =>
    \/ ran[e] = Discovered
    \/ [ver |-> selected[e].ver, pkg |-> ran[e]] \in bound[selected[e].seq]

\* "A changed org-local package binding must not keep an earlier endpoint
\* cached" (store.go:288): when an approval has succeeded and is still the
\* binding, and no purge is left to come, the cache does not hold the endpoint
\* of an earlier approval.
NoEarlierEndpointCached ==
  \A a \in Approvers : pc[a] = "ok" =>
    LET s == want[a].seq IN
    /\ approval[s] = want[a].bind
    /\ \A b \in Approvers : pc[b] # "purge"
    /\ cache[s] \in bound[s] /\ cache[s].ver = want[a].bind.ver
    => cache[s] = want[a].bind
=============================================================================

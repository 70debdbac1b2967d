----------------------- MODULE PackageBinding_proofs ------------------------
(***************************************************************************)
(* Proofs about PackageBinding, for any number of approvals and executions,*)
(* any packages and versions, and any bound on sequences.                  *)
(*                                                                         *)
(* The committed row only moves forward, and bindings are only added to    *)
(* the history of a sequence.  So what held of a definition when it was    *)
(* read stays true while the execution works with its copy: Active and     *)
(* Usable are stable, and the invariant says which copies have them.       *)
(***************************************************************************)
EXTENDS PackageBinding, TLAPS

\* Definition d is the committed one, or an earlier one.
Active(d) ==
  /\ d \in Defs
  /\ committed # None
  /\ d.seq <= committed.seq
  /\ d.seq = committed.seq => d.ver = committed.ver

\* Endpoint p was approved for d, or the resolver returned it.
Usable(d, p) == p = Discovered \/ [ver |-> d.ver, pkg |-> p] \in bound[d.seq]

Resolving == {"cache", "approval", "resolver", "put", "list"}
Looking == {"evidence", "evidenceCache", "evidencePut"}
Reporting == Looking \cup {"ok", "error"}

\* What an execution may rely on, by the place it has reached.
ExecutionSound(e) ==
  /\ pc[e] # "idle" => selected[e] = None \/ Active(selected[e])
  /\ pc[e] \in Resolving => Active(ranFor[e]) /\ selected[e] \in {None, ranFor[e]}
  /\ pc[e] = "put" => Usable(ranFor[e], found[e])
  /\ pc[e] = "legacy" => ranFor[e] \in Defs
  /\ via[e] \in {"cache", "resolved"} =>
       /\ pc[e] \in Reporting \cup {"ran"}
       /\ ranFor[e] \in Defs /\ selected[e] \in {None, ranFor[e]}
       /\ Usable(ranFor[e], ran[e])
  /\ pc[e] \in Looking => Active(reported[e]) /\ selected[e] \in {None, reported[e]}
  /\ evidence[e] # None =>
       /\ pc[e] \in Reporting
       /\ reported[e] \in Defs /\ selected[e] \in {None, reported[e]}
       /\ Usable(reported[e], evidence[e])

ExecutionsSound == \A e \in Executors : ExecutionSound(e)

RequestsTyped ==
  \A a \in Approvers : pc[a] # "idle" => want[a] \in [seq : Seqs, bind : Bindings]

ApprovalsRecorded ==
  \A s \in Seqs : approval[s] # None => approval[s] \in bound[s]

CacheSound ==
  \A s \in Seqs : cache[s] # None =>
    /\ Active([seq |-> s, ver |-> cache[s].ver])
    /\ Usable([seq |-> s, ver |-> cache[s].ver], cache[s].pkg)

IInv ==
  /\ TypeOK
  /\ ExecutionsSound
  /\ RequestsTyped
  /\ ApprovalsRecorded
  /\ CacheSound

-----------------------------------------------------------------------------
(* What every step may do to the committed row and the history.            *)

Forward ==
  /\ \/ committed' = committed
     \/ committed' \in Defs /\ (committed # None => committed'.seq > committed.seq)
  /\ \A s \in Seqs : bound[s] \subseteq bound'[s]

\* Active is stable.
LEMMA ActiveForward ==
  ASSUME TypeOK, Forward, NEW d, Active(d)
  PROVE  Active(d)'
<1>1. committed \in Defs /\ d \in Defs
  BY DEF TypeOK, Active
<1>2. CASE committed' = committed
  BY <1>2 DEF Active
<1>3. CASE committed' \in Defs /\ committed'.seq > committed.seq
  <2>1. committed' # None
    BY <1>3, BindingAssumption
  <2>2. d.seq \in Nat /\ committed.seq \in Nat /\ committed'.seq \in Nat
    BY <1>1, <1>3, BindingAssumption DEF Defs, Seqs
  <2>. QED  BY <1>1, <1>3, <2>1, <2>2 DEF Active
<1>. QED  BY <1>1, <1>2, <1>3, BindingAssumption DEF Forward

\* Usable is stable.
LEMMA UsableForward ==
  ASSUME Forward, NEW d \in Defs, NEW p, Usable(d, p)
  PROVE  Usable(d, p)'
BY DEF Forward, Usable, Defs

\* An execution that the step does not touch keeps its part of the invariant.
LEMMA UntouchedExecution ==
  ASSUME TypeOK, Forward, NEW e \in Executors, ExecutionSound(e),
         pc'[e] = pc[e], selected'[e] = selected[e], found'[e] = found[e],
         ranFor'[e] = ranFor[e], ran'[e] = ran[e], via'[e] = via[e],
         reported'[e] = reported[e], evidence'[e] = evidence[e]
  PROVE  ExecutionSound(e)'
<1> DEFINE s == selected[e]
           d == ranFor[e]
           r == reported[e]
<1>1. /\ pc[e] # "idle" => s = None \/ Active(s)'
      /\ pc[e] \in Resolving => Active(d)'
      /\ pc[e] \in Looking => Active(r)'
  <2> HIDE DEF s, d, r
  <2>1. /\ pc[e] # "idle" => s = None \/ Active(s)
        /\ pc[e] \in Resolving => Active(d)
        /\ pc[e] \in Looking => Active(r)
    BY DEF ExecutionSound, s, d, r
  <2>2. UNCHANGED <<s, d, r>>
    BY DEF s, d, r
  <2>. QED  BY <2>1, <2>2, ActiveForward DEF Active
<1>2. pc[e] = "put" => Usable(d, found[e])'
  <2>. SUFFICES ASSUME pc[e] = "put" PROVE Usable(d, found[e])'
    OBVIOUS
  <2>1. d \in Defs /\ Usable(d, found[e])
    BY DEF ExecutionSound, Resolving, Active
  <2>. QED  BY <2>1, UsableForward DEF Usable
<1>3. via[e] \in {"cache", "resolved"} => Usable(d, ran[e])'
  <2>. SUFFICES ASSUME via[e] \in {"cache", "resolved"} PROVE Usable(d, ran[e])'
    OBVIOUS
  <2>1. d \in Defs /\ Usable(d, ran[e])
    BY DEF ExecutionSound
  <2>. QED  BY <2>1, UsableForward DEF Usable
<1>4. evidence[e] # None => Usable(r, evidence[e])'
  <2>. SUFFICES ASSUME evidence[e] # None PROVE Usable(r, evidence[e])'
    OBVIOUS
  <2>1. r \in Defs /\ Usable(r, evidence[e])
    BY DEF ExecutionSound
  <2>. QED  BY <2>1, UsableForward DEF Usable
<1>. QED  BY <1>1, <1>2, <1>3, <1>4 DEF ExecutionSound, Active, Usable

\* A step of execution x concerns only x and the cache.
LEMMA StepOfExecution ==
  ASSUME IInv, Forward, NEW x \in Executors, ExecutionSound(x)',
         \A e \in Executors \ {x} :
           /\ pc'[e] = pc[e] /\ selected'[e] = selected[e] /\ found'[e] = found[e]
           /\ ranFor'[e] = ranFor[e] /\ ran'[e] = ran[e] /\ via'[e] = via[e]
           /\ reported'[e] = reported[e] /\ evidence'[e] = evidence[e],
         \A a \in Approvers : pc'[a] = pc[a],
         UNCHANGED <<want, approval, bound>>
  PROVE  ExecutionsSound' /\ RequestsTyped' /\ ApprovalsRecorded'
<1>1. TypeOK /\ \A e \in Executors : ExecutionSound(e)
  BY DEF IInv, ExecutionsSound
<1>2. ASSUME NEW e \in Executors PROVE ExecutionSound(e)'
  <2>1. CASE e = x
    BY <2>1
  <2>2. CASE e # x
    BY <1>1, <2>2, UntouchedExecution
  <2>. QED  BY <2>1, <2>2
<1>3. RequestsTyped'
  BY DEF IInv, RequestsTyped
<1>4. ApprovalsRecorded'
  BY DEF IInv, ApprovalsRecorded
<1>. QED  BY <1>2, <1>3, <1>4 DEF ExecutionsSound

\* A step that leaves the executions where they are keeps their part.
LEMMA ExecutionsApart ==
  ASSUME IInv, Forward, UNCHANGED execVars, \A e \in Executors : pc'[e] = pc[e]
  PROVE  ExecutionsSound'
<1>1. TypeOK /\ \A e \in Executors : ExecutionSound(e)
  BY DEF IInv, ExecutionsSound
<1>2. UNCHANGED <<selected, found, ranFor, ran, via, reported, evidence>>
  BY DEF execVars
<1>. SUFFICES ASSUME NEW e \in Executors PROVE ExecutionSound(e)'
  BY DEF ExecutionsSound
<1>. QED  BY <1>1, <1>2, UntouchedExecution

\* A step that puts nothing into the cache keeps it sound.
LEMMA CacheNotFilled ==
  ASSUME IInv, TypeOK', Forward,
         \A s \in Seqs : cache'[s] = cache[s] \/ cache'[s] = None
  PROVE  CacheSound'
<1>. SUFFICES ASSUME NEW s \in Seqs, NEW c, c = cache'[s], c # None
              PROVE  /\ Active([seq |-> s, ver |-> c.ver])'
                     /\ Usable([seq |-> s, ver |-> c.ver], c.pkg)'
  BY DEF CacheSound, Active, Usable
<1> DEFINE d == [seq |-> s, ver |-> c.ver]
<1>1. c = cache[s] /\ TypeOK
  BY DEF IInv
<1>2. Active(d) /\ Usable(d, c.pkg)
  BY <1>1 DEF IInv, CacheSound
<1>3. d \in Defs
  BY <1>2 DEF Active
<1> HIDE DEF d
<1>4. Active(d)' /\ Usable(d, c.pkg)'
  BY <1>1, <1>2, <1>3, ActiveForward, UsableForward
<1>. QED  BY <1>4 DEF d

-----------------------------------------------------------------------------
(* Installs, definitions and approvals.                                    *)

LEMMA InstallStep ==
  ASSUME IInv, NEW p \in Packages, Install(p)
  PROVE  IInv'
<1>1. TypeOK'
  BY DEF IInv, TypeOK, Install, execVars
<1>2. Forward
  BY DEF Install, Forward
<1>3. ExecutionsSound'
  BY <1>2, ExecutionsApart DEF Install
<1>4. CacheSound'
  BY <1>1, <1>2, CacheNotFilled DEF Install
<1>. QED  BY <1>1, <1>3, <1>4 DEF IInv, RequestsTyped, ApprovalsRecorded, Install

LEMMA LedgerCommitStep ==
  ASSUME IInv, NEW d \in Defs, LedgerCommit(d)
  PROVE  IInv'
<1>1. TypeOK'
  BY DEF IInv, TypeOK, LedgerCommit, execVars
<1>2. Forward
  BY DEF LedgerCommit, Forward
<1>3. ExecutionsSound'
  BY <1>2, ExecutionsApart DEF LedgerCommit
<1>4. CacheSound'
  BY <1>1, <1>2, CacheNotFilled DEF LedgerCommit
<1>. QED  BY <1>1, <1>3, <1>4 DEF IInv, RequestsTyped, ApprovalsRecorded, LedgerCommit

LEMMA ApproveStarts ==
  ASSUME IInv, NEW a \in Approvers, NEW d \in Defs, NEW p \in Packages, Approve(a, d, p)
  PROVE  IInv'
<1> DEFINE w == [seq |-> d.seq, bind |-> [ver |-> d.ver, pkg |-> p]]
<1>1. w \in [seq : Seqs, bind : Bindings]
  BY DEF Defs, Bindings
<1>2. TypeOK'
  <2>1. want' \in [Approvers -> [seq : Seqs, bind : Bindings] \cup {None}]
    BY <1>1 DEF IInv, TypeOK, Approve
  <2>2. pc' \in [Approvers \cup Executors -> Labels]
    BY DEF IInv, TypeOK, Approve, Goto, Labels
  <2>. QED  BY <2>1, <2>2 DEF IInv, TypeOK, Approve, storeVars, execVars
<1>3. Forward
  BY DEF Approve, Forward, storeVars
<1>4. \A x \in Approvers \cup Executors : x # a => pc'[x] = pc[x]
  BY DEF IInv, TypeOK, Approve, Goto
<1>5. ExecutionsSound'
  BY <1>3, <1>4, ExecutionsApart, BindingAssumption DEF Approve
<1>6. CacheSound'
  BY <1>2, <1>3, CacheNotFilled DEF Approve, storeVars
<1>7. RequestsTyped'
  <2>. SUFFICES ASSUME NEW b \in Approvers, pc'[b] # "idle"
                PROVE  want'[b] \in [seq : Seqs, bind : Bindings]
    BY DEF RequestsTyped
  <2>1. want' = [want EXCEPT ![a] = w] /\ want \in [Approvers -> [seq : Seqs, bind : Bindings] \cup {None}]
    BY DEF Approve, IInv, TypeOK
  <2>2. CASE b = a
    BY <2>1, <2>2, <1>1
  <2>3. CASE b # a
    BY <2>1, <2>3, <1>4 DEF IInv, RequestsTyped
  <2>. QED  BY <2>2, <2>3
<1>. QED  BY <1>2, <1>5, <1>6, <1>7 DEF IInv, ApprovalsRecorded, Approve, storeVars

\* The later steps of an approval: the row and its history change together.
LEMMA ApproveContinues ==
  ASSUME IInv, NEW a \in Approvers, ApproveStep(a)
  PROVE  IInv'
<1>1. /\ \A x \in Approvers \cup Executors : x # a => pc'[x] = pc[x]
      /\ pc[a] # "idle"
      /\ UNCHANGED <<installed, committed, want, execVars>>
  BY DEF IInv, TypeOK, ApproveStep, ApproveNext, ApproveCompare, ApproveUpsert,
         ApprovePurge, Goto, storeVars
<1>2. want[a] \in [seq : Seqs, bind : Bindings]
  BY <1>1 DEF IInv, RequestsTyped
<1>3. pc' \in [Approvers \cup Executors -> Labels]
  BY DEF IInv, TypeOK, ApproveStep, ApproveNext, ApproveCompare, ApproveUpsert,
         ApprovePurge, Goto, Labels
<1>4. /\ approval' \in [Seqs -> Bindings \cup {None}]
      /\ cache' \in [Seqs -> Connections \cup {None}]
      /\ bound' \in [Seqs -> SUBSET Bindings]
      /\ \A s \in Seqs : bound[s] \subseteq bound'[s]
      /\ \A s \in Seqs : cache'[s] = cache[s] \/ cache'[s] = None
      /\ ApprovalsRecorded'
  <2>1. CASE ApproveNext(a) \/ ApproveCompare(a)
    BY <2>1 DEF IInv, TypeOK, ApprovalsRecorded, ApproveNext, ApproveCompare, storeVars
  <2>2. CASE ApproveUpsert(a)
    BY <2>2, <1>2 DEF IInv, TypeOK, ApprovalsRecorded, ApproveUpsert
  <2>3. CASE ApprovePurge(a)
    BY <2>3, <1>2 DEF IInv, TypeOK, ApprovalsRecorded, ApprovePurge
  <2>. QED  BY <2>1, <2>2, <2>3 DEF ApproveStep
<1>5. TypeOK'
  BY <1>1, <1>3, <1>4 DEF IInv, TypeOK, execVars
<1>6. Forward
  BY <1>1, <1>4 DEF Forward
<1>7. ExecutionsSound'
  BY <1>1, <1>6, ExecutionsApart, BindingAssumption
<1>8. CacheSound'
  BY <1>4, <1>5, <1>6, CacheNotFilled
<1>9. RequestsTyped'
  BY <1>1, <1>2 DEF IInv, RequestsTyped
<1>. QED  BY <1>4, <1>5, <1>7, <1>8, <1>9 DEF IInv

-----------------------------------------------------------------------------
(* Executions.                                                             *)

\* What every step of execution x leaves alone.
LEMMA ExecutionFrame ==
  ASSUME IInv, NEW x \in Executors, ExecStep(x)
  PROVE  /\ Forward
         /\ UNCHANGED <<installed, committed, approval, want, bound>>
         /\ \A e \in Executors \ {x} :
              /\ pc'[e] = pc[e] /\ selected'[e] = selected[e] /\ found'[e] = found[e]
              /\ ranFor'[e] = ranFor[e] /\ ran'[e] = ran[e] /\ via'[e] = via[e]
              /\ reported'[e] = reported[e] /\ evidence'[e] = evidence[e]
         /\ \A a \in Approvers : pc'[a] = pc[a]
<1>1. UNCHANGED <<installed, committed, approval, want, bound>>
  BY DEF ExecStep, Select, ResolveCommittedDefinition, GetResolvedConnection,
         GetApproval, Resolve, PutResolvedConnection, LegacyList, LegacyResolve,
         EvidenceDefinition, EvidenceApproval, EvidenceCache, EvidenceResolve, storeVars
<1>2. Forward
  BY <1>1 DEF Forward
<1>3. \A y \in Approvers \cup Executors : y # x => pc'[y] = pc[y]
  <2>1. \E l : Goto(x, l)
    BY Zenon DEF ExecStep, Select, ResolveCommittedDefinition, GetResolvedConnection,
         GetApproval, Resolve, PutResolvedConnection, LegacyList, LegacyResolve, Run,
         EvidenceDefinition, EvidenceApproval, EvidenceCache, EvidenceResolve
  <2>. QED  BY <2>1 DEF Goto, IInv, TypeOK
<1>4. \A e \in Executors \ {x} :
        /\ selected'[e] = selected[e] /\ found'[e] = found[e]
        /\ ranFor'[e] = ranFor[e] /\ ran'[e] = ran[e] /\ via'[e] = via[e]
        /\ reported'[e] = reported[e] /\ evidence'[e] = evidence[e]
  BY DEF ExecStep, Select, ResolveCommittedDefinition, GetResolvedConnection,
         GetApproval, Resolve, PutResolvedConnection, LegacyList, LegacyResolve, Run,
         EvidenceDefinition, EvidenceApproval, EvidenceCache, EvidenceResolve, IInv, TypeOK
<1>. QED  BY <1>1, <1>2, <1>3, <1>4, BindingAssumption

\* What the invariant says of an execution that is about to take a step.
LEMMA ExecutionFacts ==
  ASSUME IInv, NEW x \in Executors
  PROVE  /\ TypeOK /\ ExecutionSound(x)
         /\ pc[x] \in Resolving => ranFor[x] \in Defs /\ ranFor[x].seq \in Seqs
         /\ pc[x] \in Looking => reported[x] \in Defs /\ reported[x].seq \in Seqs
         /\ committed # None => committed \in Defs /\ Active(committed)
         /\ \A s \in Seqs : approval[s] # None => approval[s] \in Bindings \cap bound[s]
<1>1. TypeOK /\ ExecutionSound(x)
  BY DEF IInv, ExecutionsSound
<1>2. /\ pc[x] \in Resolving => ranFor[x] \in Defs /\ ranFor[x].seq \in Seqs
      /\ pc[x] \in Looking => reported[x] \in Defs /\ reported[x].seq \in Seqs
  BY <1>1 DEF ExecutionSound, Active, Defs
<1>3. committed # None => committed \in Defs /\ Active(committed)
  <2>. SUFFICES ASSUME committed # None PROVE committed \in Defs /\ Active(committed)
    OBVIOUS
  <2>1. committed \in Defs
    BY <1>1 DEF TypeOK
  <2>2. committed.seq \in Nat
    BY <2>1 DEF Defs, Seqs
  <2>. QED  BY <2>1, <2>2 DEF Active
<1>4. \A s \in Seqs : approval[s] # None => approval[s] \in Bindings \cap bound[s]
  BY <1>1 DEF IInv, TypeOK, ApprovalsRecorded
<1>. QED  BY <1>1, <1>2, <1>3, <1>4

\* An approved package is usable, and so is a cached endpoint.
LEMMA ApprovedUsable ==
  ASSUME IInv, NEW d \in Defs, Approved(d)
  PROVE  approval[d.seq].pkg \in Packages /\ Usable(d, approval[d.seq].pkg)
<1>1. d.seq \in Seqs
  BY DEF Defs
<1>2. approval[d.seq] \in Bindings /\ approval[d.seq] \in bound[d.seq]
  BY <1>1 DEF IInv, TypeOK, ApprovalsRecorded, Approved
<1>3. approval[d.seq] = [ver |-> d.ver, pkg |-> approval[d.seq].pkg]
  BY <1>2 DEF Approved, Bindings
<1>. QED  BY <1>2, <1>3 DEF Usable, Bindings

LEMMA CachedUsable ==
  ASSUME IInv, NEW d \in Defs, CacheHit(d)
  PROVE  cache[d.seq].pkg \in Packages \cup {Discovered} /\ Usable(d, cache[d.seq].pkg)
<1>1. d.seq \in Seqs
  BY DEF Defs
<1>2. cache[d.seq] \in Connections
  BY <1>1 DEF IInv, TypeOK, CacheHit
<1>3. Usable([seq |-> d.seq, ver |-> cache[d.seq].ver], cache[d.seq].pkg)
  BY <1>1 DEF IInv, CacheSound, CacheHit
<1>. QED  BY <1>2, <1>3 DEF Usable, Connections, CacheHit

\* An entry written for an active definition and a usable endpoint is sound.
LEMMA CacheFilled ==
  ASSUME IInv, TypeOK', Forward, NEW d \in Defs, NEW p,
         Active(d), Usable(d, p), cache' = [cache EXCEPT ![d.seq] = [ver |-> d.ver, pkg |-> p]]
  PROVE  CacheSound'
<1>. SUFFICES ASSUME NEW s \in Seqs, NEW c, c = cache'[s], c # None
              PROVE  /\ Active([seq |-> s, ver |-> c.ver])'
                     /\ Usable([seq |-> s, ver |-> c.ver], c.pkg)'
  BY DEF CacheSound, Active, Usable
<1>1. TypeOK /\ cache \in [Seqs -> Connections \cup {None}] /\ d.seq \in Seqs
  BY DEF IInv, TypeOK, Defs
<1> DEFINE f == [seq |-> s, ver |-> c.ver]
<1>2. Active(f) /\ Usable(f, c.pkg)
  <2>1. CASE s = d.seq
    <3>1. c = [ver |-> d.ver, pkg |-> p] /\ f = d
      BY <2>1, <1>1 DEF Defs
    <3> HIDE DEF f
    <3>. QED  BY <3>1
  <2>2. CASE s # d.seq
    BY <2>2, <1>1 DEF IInv, CacheSound
  <2>. QED  BY <2>1, <2>2
<1>3. f \in Defs
  BY <1>2 DEF Active
<1> HIDE DEF f
<1>4. Active(f)' /\ Usable(f, c.pkg)'
  BY <1>1, <1>2, <1>3, ActiveForward, UsableForward
<1>. QED  BY <1>4 DEF f

\* The definition in hand is active, and the types, after any step of x.
LEMMA ExecutionTypes ==
  ASSUME IInv, NEW x \in Executors, ExecStep(x)
  PROVE  TypeOK'
<1> USE ExecutionFacts, ExecutionFrame
<1>1. TypeOK /\ UNCHANGED <<installed, committed, approval, want, bound>>
  OBVIOUS
<1>2. CASE Select(x)
  BY <1>1, <1>2 DEF TypeOK, Select, Goto, Labels, storeVars
<1>3. CASE ResolveCommittedDefinition(x)
  BY <1>1, <1>3 DEF TypeOK, ResolveCommittedDefinition, Run, Goto, Labels, storeVars,
                    Endpoints
<1>4. CASE GetResolvedConnection(x)
  <2>1. pc[x] = "cache" /\ ranFor[x] \in Defs
    BY <1>4 DEF GetResolvedConnection, ExecutionSound, Resolving
  <2>2. CacheHit(ranFor[x]) => cache[ranFor[x].seq].pkg \in Packages \cup {Discovered}
    BY <2>1, CachedUsable
  <2>. QED  BY <1>1, <1>4, <2>2
            DEF TypeOK, GetResolvedConnection, Run, Goto, Labels, storeVars, Endpoints
<1>5. CASE GetApproval(x)
  <2>1. ranFor[x] \in Defs
    BY <1>5 DEF GetApproval, ExecutionSound, Resolving
  <2>2. Approved(ranFor[x]) => approval[ranFor[x].seq].pkg \in Packages
    BY <2>1, ApprovedUsable
  <2>. QED  BY <1>1, <1>5, <2>2 DEF TypeOK, GetApproval, Goto, Labels, storeVars
<1>6. CASE Resolve(x)
  BY <1>1, <1>6 DEF TypeOK, Resolve, Goto, Labels, storeVars
<1>7. CASE PutResolvedConnection(x)
  <2>1. ranFor[x] \in Defs /\ Usable(ranFor[x], found[x])
    BY <1>7 DEF PutResolvedConnection, ExecutionSound, Resolving
  <2>2. found[x] \in Packages \cup {Discovered}
    <3>1. ranFor[x].seq \in Seqs
      BY <2>1 DEF Defs
    <3>. QED  BY <1>1, <2>1, <3>1 DEF Usable, TypeOK, Bindings
  <2>3. cache' \in [Seqs -> Connections \cup {None}]
    BY <1>1, <1>7, <2>1, <2>2 DEF TypeOK, PutResolvedConnection, Connections, Defs
  <2>. QED  BY <1>1, <1>7, <2>2, <2>3
            DEF TypeOK, PutResolvedConnection, Run, Goto, Labels, Endpoints
<1>8. CASE LegacyList(x)
  BY <1>1, <1>8 DEF TypeOK, LegacyList, Goto, Labels, storeVars
<1>9. CASE LegacyResolve(x)
  <2>1. ranFor[x] \in Defs
    BY <1>9 DEF LegacyResolve, ExecutionSound
  <2>2. Approved(ranFor[x]) => approval[ranFor[x].seq].pkg \in Packages
    BY <2>1, ApprovedUsable
  <2>. QED  BY <1>1, <1>9, <2>2
            DEF TypeOK, LegacyResolve, Run, Goto, Labels, storeVars, Endpoints
<1>10. CASE EvidenceDefinition(x)
  <2>1. ReportedBy(x) \in Defs \cup {None}
    BY <1>1 DEF TypeOK, ReportedBy
  <2>. QED  BY <1>1, <1>10, <2>1 DEF TypeOK, EvidenceDefinition, Goto, Labels, storeVars
<1>11. CASE EvidenceApproval(x)
  <2>1. reported[x] \in Defs
    BY <1>11 DEF EvidenceApproval, Looking
  <2>2. Approved(reported[x]) => approval[reported[x].seq].pkg \in Packages
    BY <2>1, ApprovedUsable
  <2>. QED  BY <1>1, <1>11, <2>2 DEF TypeOK, EvidenceApproval, Goto, Labels, storeVars
<1>12. CASE EvidenceCache(x)
  <2>1. reported[x] \in Defs
    BY <1>12 DEF EvidenceCache, Looking
  <2>2. CacheHit(reported[x]) => cache[reported[x].seq].pkg \in Packages \cup {Discovered}
    BY <2>1, CachedUsable
  <2>3. evidence' \in [Executors -> Packages \cup {Discovered, None}]
    BY <1>1, <1>12, <2>2 DEF TypeOK, EvidenceCache
  <2>. QED  BY <1>1, <1>12, <2>3 DEF TypeOK, EvidenceCache, Goto, Labels, storeVars
<1>13. CASE EvidenceResolve(x)
  <2>1. reported[x] \in Defs
    BY <1>13 DEF EvidenceResolve, Looking
  <2>2. cache' \in [Seqs -> Connections \cup {None}]
    BY <1>1, <1>13, <2>1 DEF TypeOK, EvidenceResolve, Connections, Defs
  <2>3. evidence' \in [Executors -> Packages \cup {Discovered, None}]
    BY <1>1, <1>13 DEF TypeOK, EvidenceResolve
  <2>. QED  BY <1>1, <1>13, <2>1, <2>2, <2>3 DEF TypeOK, EvidenceResolve, Goto, Labels
<1>. QED  BY <1>2, <1>3, <1>4, <1>5, <1>6, <1>7, <1>8, <1>9, <1>10, <1>11, <1>12, <1>13
          DEF ExecStep

\* An execution keeps its own part of the invariant.
LEMMA ExecutionKeepsSound ==
  ASSUME IInv, NEW x \in Executors, ExecStep(x)
  PROVE  ExecutionSound(x)'
<1>1. /\ TypeOK /\ ExecutionSound(x)
      /\ pc[x] \in Resolving => ranFor[x] \in Defs
      /\ pc[x] \in Looking => reported[x] \in Defs
      /\ committed # None => committed \in Defs /\ Active(committed)
      /\ UNCHANGED <<committed, bound>>
  BY ExecutionFacts, ExecutionFrame
<1>. USE <1>1 DEF ExecutionSound, Active, Usable, Resolving, Looking, Reporting
<1>2. CASE Select(x)
  BY <1>2 DEF TypeOK, Select, Goto
<1>3. CASE ResolveCommittedDefinition(x)
  BY <1>3 DEF TypeOK, ResolveCommittedDefinition, Unchanged, Run, Goto
<1>4. CASE GetResolvedConnection(x)
  <2>1. pc[x] = "cache" /\ ranFor[x] \in Defs
    BY <1>4 DEF GetResolvedConnection
  <2>2. CacheHit(ranFor[x]) => Usable(ranFor[x], cache[ranFor[x].seq].pkg)
    BY <2>1, CachedUsable
  <2>. QED  BY <1>4, <2>1, <2>2 DEF TypeOK, GetResolvedConnection, Run, Goto
<1>5. CASE GetApproval(x)
  <2>1. pc[x] = "approval" /\ ranFor[x] \in Defs
    BY <1>5 DEF GetApproval
  <2>2. Approved(ranFor[x]) => Usable(ranFor[x], approval[ranFor[x].seq].pkg)
    BY <2>1, ApprovedUsable
  <2>. QED  BY <1>5, <2>1, <2>2 DEF TypeOK, GetApproval, Goto
<1>6. CASE Resolve(x)
  BY <1>6 DEF TypeOK, Resolve, Goto
<1>7. CASE PutResolvedConnection(x)
  BY <1>7 DEF TypeOK, PutResolvedConnection, Run, Goto
<1>8. CASE LegacyList(x)
  BY <1>8 DEF TypeOK, LegacyList, Goto
<1>9. CASE LegacyResolve(x)
  BY <1>9 DEF TypeOK, LegacyResolve, Run, Goto
<1>10. CASE EvidenceDefinition(x)
  <2>1. pc[x] = "ran" /\ evidence[x] = None
    BY <1>10 DEF EvidenceDefinition
  <2>2. ReportedBy(x) # None =>
          Active(ReportedBy(x)) /\ selected[x] \in {None, ReportedBy(x)}
    BY <2>1 DEF ReportedBy
  <2>3. /\ pc' = [pc EXCEPT ![x] = IF ReportedBy(x) = None THEN "ok" ELSE "evidence"]
        /\ reported' = [reported EXCEPT ![x] = ReportedBy(x)]
        /\ UNCHANGED <<selected, ranFor, ran, via, evidence>>
    BY <1>10 DEF EvidenceDefinition, Goto
  <2>. QED  BY <2>1, <2>2, <2>3 DEF TypeOK
<1>11. CASE EvidenceApproval(x)
  <2>1. pc[x] = "evidence" /\ reported[x] \in Defs
    BY <1>11 DEF EvidenceApproval
  <2>2. Approved(reported[x]) => Usable(reported[x], approval[reported[x].seq].pkg)
    BY <2>1, ApprovedUsable
  <2>. QED  BY <1>11, <2>1, <2>2 DEF TypeOK, EvidenceApproval, Goto
<1>12. CASE EvidenceCache(x)
  <2>1. pc[x] = "evidenceCache" /\ reported[x] \in Defs
    BY <1>12 DEF EvidenceCache
  <2>2. CacheHit(reported[x]) => Usable(reported[x], cache[reported[x].seq].pkg)
    BY <2>1, CachedUsable
  <2>. QED  BY <1>12, <2>1, <2>2 DEF TypeOK, EvidenceCache, Goto
<1>13. CASE EvidenceResolve(x)
  BY <1>13 DEF TypeOK, EvidenceResolve, Goto
<1>. QED  BY <1>2, <1>3, <1>4, <1>5, <1>6, <1>7, <1>8, <1>9, <1>10, <1>11, <1>12, <1>13
          DEF ExecStep

\* Only two steps of an execution write the cache.
LEMMA ExecutionKeepsCache ==
  ASSUME IInv, NEW x \in Executors, ExecStep(x)
  PROVE  CacheSound'
<1>1. /\ TypeOK' /\ Forward /\ ExecutionSound(x)
      /\ pc[x] \in Resolving => ranFor[x] \in Defs
      /\ pc[x] \in Looking => reported[x] \in Defs
  BY ExecutionFacts, ExecutionFrame, ExecutionTypes
<1>2. CASE UNCHANGED cache
  BY <1>1, <1>2, CacheNotFilled
<1>3. CASE PutResolvedConnection(x)
  <2>1. Active(ranFor[x]) /\ Usable(ranFor[x], found[x]) /\ ranFor[x] \in Defs
    BY <1>1, <1>3 DEF PutResolvedConnection, ExecutionSound, Resolving
  <2>2. \E d \in Defs : \E p :
          /\ Active(d) /\ Usable(d, p)
          /\ cache' = [cache EXCEPT ![d.seq] = [ver |-> d.ver, pkg |-> p]]
    BY <1>3, <2>1 DEF PutResolvedConnection
  <2>. QED  BY <1>1, <2>2, CacheFilled
<1>4. CASE EvidenceResolve(x) /\ ~ UNCHANGED cache
  <2>1. Active(reported[x]) /\ reported[x] \in Defs /\ Usable(reported[x], Discovered)
    BY <1>1, <1>4 DEF EvidenceResolve, ExecutionSound, Usable, Looking
  <2>2. \E d \in Defs : \E p :
          /\ Active(d) /\ Usable(d, p)
          /\ cache' = [cache EXCEPT ![d.seq] = [ver |-> d.ver, pkg |-> p]]
    BY <1>4, <2>1 DEF EvidenceResolve
  <2>. QED  BY <1>1, <2>2, CacheFilled
<1>5. UNCHANGED cache \/ PutResolvedConnection(x) \/ EvidenceResolve(x)
  BY DEF ExecStep, Select, ResolveCommittedDefinition, GetResolvedConnection,
         GetApproval, Resolve, LegacyList, LegacyResolve, EvidenceDefinition,
         EvidenceApproval, EvidenceCache, storeVars
<1>. QED  BY <1>2, <1>3, <1>4, <1>5

LEMMA ExecutionStep ==
  ASSUME IInv, NEW x \in Executors, ExecStep(x)
  PROVE  IInv'
<1>1. ExecutionsSound' /\ RequestsTyped' /\ ApprovalsRecorded'
  BY ExecutionFrame, ExecutionKeepsSound, StepOfExecution
<1>. QED  BY <1>1, ExecutionTypes, ExecutionKeepsCache DEF IInv

LEMMA FailsStep ==
  ASSUME IInv, NEW x \in Approvers \cup Executors, Fails(x)
  PROVE  IInv'
<1>1. TypeOK'
  BY DEF IInv, TypeOK, Fails, Goto, Labels, storeVars, execVars
<1>2. Forward /\ UNCHANGED <<committed, approval, cache, want, bound>>
      /\ UNCHANGED <<selected, found, ranFor, ran, via, reported, evidence>>
  BY DEF Fails, Forward, storeVars, execVars
<1>3. pc[x] # "idle" /\ pc' = [pc EXCEPT ![x] = "error"]
      /\ pc \in [Approvers \cup Executors -> Labels]
  BY DEF Fails, Goto, IInv, TypeOK
<1>4. ExecutionsSound'
  <2>. SUFFICES ASSUME NEW e \in Executors PROVE ExecutionSound(e)'
    BY DEF ExecutionsSound
  <2>1. ExecutionSound(e) /\ TypeOK
    BY DEF IInv, ExecutionsSound
  <2>2. CASE e = x
    BY <1>2, <1>3, <2>1, <2>2
    DEF ExecutionSound, Active, Usable, Resolving, Looking, Reporting
  <2>3. CASE e # x
    BY <1>2, <1>3, <2>1, <2>3, UntouchedExecution
  <2>. QED  BY <2>2, <2>3
<1>5. CacheSound'
  BY <1>1, <1>2, CacheNotFilled
<1>6. RequestsTyped'
  BY <1>2, <1>3 DEF IInv, RequestsTyped
<1>. QED  BY <1>1, <1>2, <1>4, <1>5, <1>6 DEF IInv, ApprovalsRecorded

-----------------------------------------------------------------------------
LEMMA Initially == Init => IInv
<1>. SUFFICES ASSUME Init PROVE IInv
  OBVIOUS
<1>1. TypeOK
  BY DEF Init, TypeOK, Labels
<1>2. ExecutionsSound
  BY BindingAssumption DEF Init, ExecutionsSound, ExecutionSound, Resolving, Looking
<1>. QED  BY <1>1, <1>2 DEF Init, IInv, RequestsTyped, ApprovalsRecorded, CacheSound

LEMMA Inductive == IInv /\ [Next]_vars => IInv'
<1>. SUFFICES ASSUME IInv, [Next]_vars PROVE IInv'
  OBVIOUS
<1>1. CASE UNCHANGED vars
  BY <1>1 DEF vars, storeVars, execVars, IInv, TypeOK, ExecutionsSound, ExecutionSound,
              Active, Usable, RequestsTyped, ApprovalsRecorded, CacheSound
<1>2. CASE Next
  BY <1>2, InstallStep, LedgerCommitStep, ApproveStarts, ApproveContinues,
     ExecutionStep, FailsStep DEF Next
<1>. QED  BY <1>1, <1>2

(* The inductive invariant holds in every reachable state.                 *)
THEOREM Invariance == Spec => []IInv
BY Initially, Inductive, PTL DEF Spec

(* Whatever the store and the executions do, every table and every copy an *)
(* execution holds keeps its type (lifecycle/store.go, lifecycle_executor.go). *)
THEOREM TypeCorrect == Spec => []TypeOK
<1>1. IInv => TypeOK
  BY DEF IInv
<1>. QED  BY <1>1, Invariance, PTL

(* An endpoint in the connection cache was approved for exactly the cached *)
(* revision, or came from the resolver, and its revision has been active:  *)
(* PutResolvedConnection never stores another (lifecycle_executor.go).     *)
THEOREM CacheHoldsApproved == Spec => []CachedEndpointWasApproved
<1>1. IInv => CachedEndpointWasApproved
  <2>. SUFFICES ASSUME IInv, NEW s \in Seqs, cache[s] # None
                PROVE  /\ cache[s].pkg = Discovered \/ cache[s] \in bound[s]
                       /\ committed # None /\ s <= committed.seq
                       /\ s = committed.seq => cache[s].ver = committed.ver
    BY DEF CachedEndpointWasApproved
  <2>1. cache[s] \in Connections
    BY DEF IInv, TypeOK
  <2>2. cache[s] = [ver |-> cache[s].ver, pkg |-> cache[s].pkg]
    BY <2>1 DEF Connections
  <2>3. /\ Active([seq |-> s, ver |-> cache[s].ver])
        /\ Usable([seq |-> s, ver |-> cache[s].ver], cache[s].pkg)
    BY DEF IInv, CacheSound
  <2>. QED  BY <2>2, <2>3 DEF Active, Usable
<1>. QED  BY <1>1, Invariance, PTL

(* An execution whose endpoint came from the cache, its approval or the    *)
(* resolver ran an endpoint approved for one revision, the one the         *)
(* invocation had selected if it had selected any, whatever was committed  *)
(* or approved meanwhile (Execute's sequence check, GetResolvedConnection).*)
THEOREM RunsSelectedRevision == Spec => []SelectedRevisionRuns
<1>1. IInv => SelectedRevisionRuns
  BY DEF IInv, ExecutionsSound, ExecutionSound, SelectedRevisionRuns, Usable
<1>. QED  BY <1>1, Invariance, PTL

(* The package an execution reports was approved for the revision it       *)
(* reports, the selected one if there is one, whatever was committed or    *)
(* approved between the run and the lookups (lifecycleExecutionBinding).   *)
THEOREM EvidenceNamesApproved == Spec => []EvidenceWasApproved
<1>1. IInv => EvidenceWasApproved
  BY BindingAssumption
  DEF IInv, ExecutionsSound, ExecutionSound, EvidenceWasApproved, Usable
<1>. QED  BY <1>1, Invariance, PTL

=============================================================================

------------------------- MODULE EndorsementCollect -------------------------
(***************************************************************************)
(* One Gateway invocation from Endorse to the checks of Submit             *)
(* (orchestrator/execution.go endorseInvocation, collectNamespaceEndorse-  *)
(* ments, assembleSelection and validateSubmissionEndorsements,            *)
(* fabricx_packager.go, the endorsing handlers of service.go).             *)
(*                                                                         *)
(* The local organization executes first; remote orchestrators are asked   *)
(* one after the other until the selection succeeds.  Each remote executes *)
(* by itself: the definition, the policy version and the ledger state it   *)
(* sees may differ, so its answer is any result under any policy version,  *)
(* signed by any identity.  A result stands for the response, the          *)
(* transaction payload and the lifecycle definition it was produced under. *)
(* Between Endorse and Submit the client signs the prepared transaction    *)
(* and the namespace policy may be replaced by a later version.            *)
(***************************************************************************)
EXTENDS EndorsementSelection

CONSTANTS Orgs,        \* MSP IDs of organizations with an orchestrator
          LocalSigner, \* the identity of the orchestrator that collects
          Signers,     \* signing identities
          SignerOrg,   \* SignerOrg[s]: the MSP of identity s
          Principals,  \* principals of policies
          Scope,       \* Scope[p]: the MSP principal p names, or Unscoped
          Unscoped,    \* the scope of an anonymity principal
          Endpoints,   \* remote orchestrators
          Host,        \* Host[e]: the MSP endpoint e is configured for
          Identity,    \* Identity[e]: the signer endpoint e normally uses
          Rules,       \* namespace policy rules
          Updates,     \* rules a policy update may install
          Results,     \* what an execution may produce
          Versions,    \* namespace policy versions
          Unset        \* no policy, no result yet

ASSUME CollectAssumption ==
  /\ LocalSigner \in Signers
  /\ SignerOrg \in [Signers -> Orgs]
  /\ Scope \in [Principals -> Orgs \cup {Unscoped}] /\ Unscoped \notin Orgs
  /\ Host \in [Endpoints -> Orgs]
  /\ Identity \in [Endpoints -> Signers]
  /\ \A e \in Endpoints : SignerOrg[Identity[e]] = Host[e]
  /\ Updates \subseteq Rules

\* Rules over MSP principals, and the lists of profiles of distinct signers.
MspRules == {r \in Rules : r.type \in {"signedBy", "nOutOf"}}
ProfileLists == UNION {[1..n -> SUBSET Principals] : n \in 0..Cardinality(Signers)}

\* What is used of the evaluator and of the search: they agree on which rules
\* can be satisfied at all, the search never takes a signer twice, signers that
\* match no principal of the rule can be left out, and a rule that asks for
\* nobody is satisfied by anybody.
ASSUME PolicyAssumption ==
  /\ IsFiniteSet(Signers)
  /\ \A r \in MspRules : \A ids \in ProfileLists :
       /\ \A o \in Witnesses(r, ids) : IsOrder(o, ids)
       /\ Witnesses(r, ids) = {} => ~Satisfiable(r, ids)
       /\ EvaluateIdentities(r, <<>>) => EvaluateIdentities(r, ids)
       /\ EvaluateIdentities(r, ids) =>
            \A i \in DOMAIN ids : ids[i] \cap Leaves(r) = {} =>
              EvaluateIdentities(r, RemoveAt(ids, i))

VARIABLES rule,        \* the namespace policy loaded last
          version,     \* its version
          requested,   \* req.EndorsingOrganizations
          profile,     \* profile[s]: the principals identity s satisfies, any
                       \* for each invocation
          local,       \* the local execution's result
          candidates,  \* verified endorsements in order of arrival
          todo,        \* endpoints still to be asked
          pc,          \* the stage reached, or how the invocation ended
          selected     \* the endorsements merged into the transaction

vars == <<rule, version, requested, profile, local, candidates, todo, pc, selected>>
policy == <<rule, version>>
inputs == <<policy, requested, profile, local>>

\* What a remote's ProcessProposal and EndorseOnly may answer.
Answers == [signer : Signers, result : Results, version : Versions]

\* An identity satisfies principals of its own MSP and unscoped ones.
Profiles ==
  {f \in [Signers -> SUBSET Principals] :
     \A s \in Signers : \A p \in f[s] : Scope[p] \in {SignerOrg[s], Unscoped}}

-----------------------------------------------------------------------------
\* Mutant of TargetMSPs: anonymity principals add no organization.
TargetScopes(r, req) ==
  IF req # {} THEN req
  ELSE {o \in Orgs : r.type # "threshold" /\ \E p \in Leaves(r) : Scope[p] = o}

\* The organizations to visit: the requested ones, else those a principal of
\* the rule names, and every one if some principal names none.
TargetMSPs(r, req) ==
  IF req # {} THEN req
  ELSE {o \in Orgs : r.type # "threshold" /\ \E p \in Leaves(r) : Scope[p] \in {o, Unscoped}}

Init ==
  /\ rule = Unset
  /\ version = Unset
  /\ requested = {}
  /\ profile = Unset
  /\ local = Unset
  /\ candidates = <<>>
  /\ todo = {}
  /\ pc = "idle"
  /\ selected = <<>>

ProfilesOf(cs) == [i \in DOMAIN cs |-> profile[cs[i].signer]]

\* Mutant of Authenticate: the policy version is not compared.
AuthenticateAnyVersion(a, org, requireMSP) ==
  /\ rule.type # "threshold" \/ requireMSP => SignerOrg[a.signer] = org
  /\ rule.type = "threshold" /\ requireMSP => rule.who \in profile[a.signer]

\* authenticate: the namespace version is the invocation's, the identity is
\* of the expected MSP and, with a key policy, signed with that key.  Unless
\* the MSP is required a key endorsement is verified when selected.
Authenticate(a, org, requireMSP) ==
  /\ a.version = version
  /\ rule.type # "threshold" \/ requireMSP => SignerOrg[a.signer] = org
  /\ rule.type = "threshold" /\ requireMSP => rule.who \in profile[a.signer]

\* The first candidate of each requested organization, if each has one.
FirstOf(cs, org) == SelectInSeq(cs, LAMBDA c : SignerOrg[c.signer] = org)

\* Mutant of RequestedOrders: organizations without a candidate are left out.
RequestedOrdersFound(cs) ==
  {o \in SetToSeqs({FirstOf(cs, org) : org \in requested} \ {0}) : o # <<>>}

RequestedOrders(cs) ==
  IF \E org \in requested : FirstOf(cs, org) = 0 THEN {}
  ELSE SetToSeqs({FirstOf(cs, org) : org \in requested})

\* assembleSelection over the candidates: the orders it may choose.
Selections(cs) ==
  IF requested # {} THEN RequestedOrders(cs)
  ELSE {SelectEndorsements(rule, ProfilesOf(cs))} \ {<<>>}

\* verifySelection runs for automatic selections only.
Verified(cs, order) == requested # {} \/ Accepts(rule, ProfilesOf(cs), order)

\* mergeEndorsements: the chosen responses in their order.
MergeEndorsements(cs, order) == [i \in DOMAIN order |-> cs[order[i]]]

\* assembleSelection's outcome, and where collecting goes on without one.
Assemble(cs, otherwise) ==
  IF Selections(cs) = {} THEN pc' = otherwise /\ UNCHANGED selected
  ELSE \E order \in Selections(cs) :
         IF Verified(cs, order)
         THEN /\ pc' = "endorsed"
              /\ selected' = MergeEndorsements(cs, order)
         ELSE pc' = "aborted" /\ UNCHANGED selected

-----------------------------------------------------------------------------
\* Endorse: the proposal is authenticated and routed, the definition selected
\* and the init gate passed, and repeated target organizations dropped.
Endorse ==
  /\ pc = "idle"
  /\ pc' = "policy"
  /\ requested' \in SUBSET Orgs
  /\ profile' \in Profiles
  /\ UNCHANGED <<policy, local, candidates, todo, selected>>

\* resolveNamespacePolicy asks the Query Service each time; what it keeps is
\* never used to decide.
ResolveNamespacePolicy ==
  /\ pc = "policy"
  /\ pc' = "execute"
  /\ rule' \in Rules
  /\ version' \in Versions
  /\ UNCHANGED <<requested, profile, local, candidates, todo, selected>>

\* executeFresh and executeHelper: the chaincode answers with a success status.
ExecuteLocal ==
  /\ pc = "execute"
  /\ pc' = "local"
  /\ local' \in Results
  /\ UNCHANGED <<policy, requested, profile, candidates, todo, selected>>

\* newNamespaceEndorsementPolicy: the rules that compile.
Compiles(r) == r.type \in {"signedBy", "nOutOf", "threshold"}

\* The attempt to do with the local execution alone; remote execution needs
\* the client's signed proposal.
EndorseLocal ==
  /\ pc = "local"
  /\ LET own == [signer |-> LocalSigner, result |-> local, version |-> version] IN
       /\ Compiles(rule)
       /\ Authenticate(own, SignerOrg[LocalSigner], requested # {})
       /\ candidates' = <<own>>
       /\ todo' = {e \in Endpoints : Host[e] \in TargetMSPs(rule, requested)}
       /\ \/ Assemble(<<own>>, "collect")
          \/ Assemble(<<own>>, "aborted")
  /\ UNCHANGED inputs

\* seenSigners.
Known(s) == \E i \in DOMAIN candidates : candidates[i].signer = s

\* compareCanonicalResults: same definition, response and payload.
SameResult(a) == a.result = local

\* EndorseOnly at one remote: no usable answer, a verified result that
\* differs from the local one, a repeated signer, or a new candidate.
EndorseRemote(e, a) ==
  /\ pc = "collect"
  /\ e \in todo
  /\ todo' = todo \ {e}
  /\ CASE ~Authenticate(a, Host[e], requested # {}) ->
            UNCHANGED <<candidates, pc, selected>>
       [] Authenticate(a, Host[e], requested # {}) /\ ~SameResult(a) ->
            pc' = "aborted" /\ UNCHANGED <<candidates, selected>>
       [] Authenticate(a, Host[e], requested # {}) /\ SameResult(a) /\ Known(a.signer) ->
            UNCHANGED <<candidates, pc, selected>>
       [] OTHER ->
            /\ candidates' = Append(candidates, a)
            /\ Assemble(candidates', "collect")
  /\ UNCHANGED inputs

\* The call fails, the chaincode refuses, or the endpoint cannot be resolved.
RemoteFails(e) ==
  /\ pc = "collect"
  /\ e \in todo
  /\ todo' = todo \ {e}
  /\ UNCHANGED <<inputs, candidates, pc, selected>>

\* Nobody is left to ask.
Unsatisfied ==
  /\ pc = "collect"
  /\ todo = {}
  /\ pc' = "unsatisfied"
  /\ UNCHANGED <<inputs, candidates, todo, selected>>

\* An error ends the request: in authenticating, routing, the init gate, the
\* policy query or its decoding, the local execution or its endorsement; later
\* when the context ends or a remote answers for another transaction.
Abort ==
  /\ pc \in {"idle", "policy", "execute", "local", "collect"}
  /\ pc' = "aborted"
  /\ UNCHANGED <<inputs, candidates, todo, selected>>

\* The positions of the first endorsement of each endorser.
Firsts(s) == {i \in DOMAIN s : \A j \in 1..(i - 1) : s[j].signer # s[i].signer}

\* Mutant of PackageTx: the endorsements are collected back to front.
PackageTxReversed(s) ==
  [k \in 1..Cardinality(Firsts(s)) |->
     s[CHOOSE i \in Firsts(s) : Cardinality({j \in Firsts(s) : j >= i}) = k]]

\* createCompatFabricXTx: one endorsement of each endorser, in their order.
PackageTx(s) ==
  [k \in 1..Cardinality(Firsts(s)) |->
     s[CHOOSE i \in Firsts(s) : Cardinality({j \in Firsts(s) : j <= i}) = k]]

\* createGatewayTransaction: the responses carry one payload, bound to the
\* proposal, the response and the revision.
PrepareTransaction ==
  /\ pc = "endorsed"
  /\ IF \E i \in DOMAIN selected : selected[i].result # selected[1].result
     THEN pc' = "aborted" /\ UNCHANGED selected
     ELSE pc' = "prepared" /\ selected' = PackageTx(selected)
  /\ UNCHANGED <<inputs, candidates, todo>>

\* parseGatewayTransaction: packaging its endorsements again gives the same.
Rebuilds(tx) == PackageTx(tx) = tx

\* validateSubmissionEndorsements, with the policy that is now in force.
ValidEndorsements(tx) ==
  /\ \A i \in DOMAIN tx :
       /\ Authenticate(tx[i], SignerOrg[tx[i].signer], FALSE)
       /\ \A j \in DOMAIN tx : tx[i].signer = tx[j].signer => i = j
  /\ Accepts(rule, ProfilesOf(tx), [i \in DOMAIN tx |-> i])

\* The namespace policy is replaced; versions are never used again.
UpdatePolicy ==
  /\ pc = "prepared"
  /\ version' \in Versions \ ({version} \cup {selected[i].version : i \in DOMAIN selected})
  /\ rule' \in Updates
  /\ UNCHANGED <<requested, profile, local, candidates, todo, pc, selected>>

\* Submit up to ordering: it also refuses while the definition the result was
\* produced under is not the active one or is not initialized.
Submit ==
  /\ pc = "prepared"
  /\ \/ Rebuilds(selected) /\ ValidEndorsements(selected) /\ pc' = "submitted"
     \/ pc' = "rejected"
  /\ UNCHANGED <<inputs, candidates, todo, selected>>

Next ==
  \/ Endorse \/ ResolveNamespacePolicy \/ ExecuteLocal \/ EndorseLocal
  \/ Unsatisfied \/ Abort \/ PrepareTransaction \/ UpdatePolicy \/ Submit
  \/ \E e \in Endpoints : RemoteFails(e) \/ \E a \in Answers : EndorseRemote(e, a)

Spec == Init /\ [][Next]_vars

-----------------------------------------------------------------------------
\* The endorsements of a transaction agree: one result, the local one, under
\* the policy version the invocation loaded, from distinct signers; selected
\* automatically they satisfy the policy in the order they are submitted
\* (collectNamespaceEndorsements, assembleSelection, verifySelection).
SelectionIsValid ==
  pc = "endorsed" =>
    /\ selected # <<>>
    /\ \A i \in DOMAIN selected :
         /\ selected[i].result = local /\ selected[i].version = version
         /\ \A j \in DOMAIN selected : selected[i].signer = selected[j].signer => i = j
    /\ requested = {} => Accepts(rule, ProfilesOf(selected), [i \in DOMAIN selected |-> i])

\* A client that names organizations gets exactly one endorsement from each
\* and none from another, though the local organization always executes
\* (assembleSelection's explicit branch).
RequestedOrgsEndorse ==
  pc = "endorsed" /\ requested # {} =>
    /\ {SignerOrg[selected[i].signer] : i \in DOMAIN selected} = requested
    /\ Len(selected) = Cardinality(requested)

\* What Endorse prepared with an automatic selection, Submit accepts as long as
\* the policy is not replaced: packaging keeps the order the order-sensitive
\* policy needs, the envelope rebuilds to itself, and no signature that counted
\* when it was collected fails the check made without an expected MSP
\* (createGatewayTransaction, parseGatewayTransaction,
\* validateSubmissionEndorsements).
PreparedIsSubmittable ==
  pc = "prepared" /\ requested = {} /\ version = selected[1].version =>
    Rebuilds(selected) /\ ValidEndorsements(selected)

\* Nobody else is asked to execute the proposal once the endorsements at hand
\* can satisfy the policy in any order (selectEndorsements' pruned search).
AsksOnlyWhileShort ==
  pc = "collect" /\ requested = {} => ~Satisfiable(rule, ProfilesOf(candidates))

\* "not satisfied by the available distinct signing identities" is true: not
\* even the identities of endpoints that were never asked would help
\* (inspectPrincipal's routing hints).
RefusalIsJustified ==
  pc = "unsatisfied" /\ requested = {} =>
    LET unasked == {Identity[e] : e \in {f \in Endpoints :
                      Host[f] \notin TargetMSPs(rule, requested)}}
        others == SetToSeq({s \in unasked : ~Known(s)})
    IN ~Satisfiable(rule, ProfilesOf(candidates) \o [i \in DOMAIN others |-> profile[others[i]]])
=============================================================================

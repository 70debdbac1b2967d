----------------------- MODULE CommitReadiness_proofs -----------------------
(***************************************************************************)
(* Proofs about CommitReadiness, for any organizations, requests, versions *)
(* and bound on sequences.                                                 *)
(*                                                                         *)
(* A table never moves back, and an organization approves nothing that     *)
(* does not follow its table.  So whoever has answered a readiness request *)
(* for a definition has approved it and is at most one revision short of   *)
(* it, and stays so: Cleared.  The invariant carries this fact along the   *)
(* way of a definition: from the approval to the requests that have asked, *)
(* to the transactions that were sent, to the ledger.                      *)
(***************************************************************************)
EXTENDS CommitReadiness, TLAPS

\* Organization o has approved d and its table is at most one short of it.
Cleared(o, d) == d \in ever[o] /\ d.seq <= table[o] + 1

\* What is approved, or about to be, follows the table.
ApprovalsFollow ==
  \A o \in Static :
    /\ checked[o] # None => checked[o].seq <= table[o] + 1
    /\ \A s \in 1..MaxSeq :
         approval[o][s] # None => Cleared(o, [seq |-> s, ver |-> approval[o][s]])

\* A request has a definition; everybody it need not ask any more is cleared.
RequestCleared(r) ==
  /\ pc[r] # "idle" => want[r] \in Defs
  /\ pc[r] \in {"ask", "tell"} => left[r] \in SUBSET Orgs
  /\ pc[r] = "ask" => \A o \in Static \ left[r] : Cleared(o, want[r])
  /\ pc[r] = "prepare" => \A o \in Static : Cleared(o, want[r])

RequestsCleared == \A r \in Requests : RequestCleared(r)

SentCleared == \A d \in sent, o \in Static : Cleared(o, d)

IInv ==
  /\ TypeOK
  /\ ApprovalsFollow
  /\ RequestsCleared
  /\ SentCleared
  /\ RevisionsApproved
  /\ LagsByAtMostOne
-----------------------------------------------------------------------------
(* What a step that moves tables and histories forward keeps.              *)

(* The organizations a request finds are organizations, and only the own    *)
(* one of those with a static contact may be missing.                       *)
LEMMA PeersFound ==
  \A o \in Orgs : \A P \in RemotePeers(o) :
    P \in SUBSET Orgs /\ Static \ P \subseteq {o}
<1>. SUFFICES ASSUME NEW o \in Orgs, NEW P \in RemotePeers(o)
              PROVE  P \in SUBSET Orgs /\ Static \ P \subseteq {o}
  OBVIOUS
<1>1. PICK Q \in DynamicPeers(o) : P = StaticPeers(o) \cup Q
  BY DEF RemotePeers
<1>. QED  BY <1>1, ReadinessAssumption DEF StaticPeers, DynamicPeers

Forward ==
  \A o \in Static : table[o] <= table'[o] /\ ever[o] \subseteq ever'[o]

\* Cleared is stable.
LEMMA ClearedForward ==
  ASSUME TypeOK, TypeOK', Forward, NEW o \in Static, NEW d \in Defs, Cleared(o, d)
  PROVE  Cleared(o, d)'
<1>1. o \in Orgs
  BY ReadinessAssumption
<1>2. table[o] \in Nat /\ table'[o] \in Nat /\ d.seq \in Nat
  <2>1. table[o] \in 0..Len(ledger) /\ table'[o] \in 0..Len(ledger')
    BY <1>1 DEF TypeOK
  <2>2. Len(ledger) \in Nat /\ Len(ledger') \in Nat
    BY DEF TypeOK
  <2>. QED  BY <2>1, <2>2 DEF Defs
<1>. QED  BY <1>2 DEF Cleared, Forward

\* A request that the step does not touch keeps its part of the invariant.
LEMMA UntouchedRequest ==
  ASSUME IInv, TypeOK', Forward, NEW r \in Requests,
         pc'[r] = pc[r], want'[r] = want[r], left'[r] = left[r]
  PROVE  RequestCleared(r)'
<1>1. RequestCleared(r) /\ TypeOK
  BY DEF IInv, RequestsCleared
<1>2. \A d \in Defs, o \in Static :
        d \in ever[o] /\ d.seq <= table[o] + 1
        => d \in ever'[o] /\ d.seq <= table'[o] + 1
  BY <1>1, ClearedForward DEF Cleared
<1>3. CASE pc[r] = "ask"
  BY <1>1, <1>2, <1>3 DEF RequestCleared, Cleared
<1>4. CASE pc[r] = "prepare"
  BY <1>1, <1>2, <1>4 DEF RequestCleared, Cleared
<1>5. CASE pc[r] \notin {"ask", "prepare"}
  BY <1>1, <1>5 DEF RequestCleared
<1>. QED  BY <1>3, <1>4, <1>5

\* The tables of both states are numbers, and they move forward.
LEMMA TablesForward ==
  ASSUME TypeOK, TypeOK', Forward, NEW o \in Static
  PROVE  /\ o \in Orgs /\ table[o] \in Nat /\ table'[o] \in Nat
         /\ Len(ledger) \in Nat /\ table[o] <= table'[o]
<1>1. Len(ledger) \in Nat /\ Len(ledger') \in Nat
  BY DEF TypeOK
<1>2. o \in Orgs
  BY ReadinessAssumption
<1>3. table[o] \in 0..Len(ledger) /\ table'[o] \in 0..Len(ledger')
  BY <1>2 DEF TypeOK
<1>. QED  BY <1>1, <1>2, <1>3 DEF Forward

\* A step that writes no approval keeps their part of the invariant.
LEMMA UntouchedApprovals ==
  ASSUME IInv, TypeOK', Forward, UNCHANGED <<approval, checked>>
  PROVE  ApprovalsFollow'
<1>1. TypeOK
  BY DEF IInv
<1>. SUFFICES ASSUME NEW o \in Static
              PROVE  /\ checked[o] # None => checked[o].seq <= table'[o] + 1
                     /\ \A s \in 1..MaxSeq : approval[o][s] # None =>
                          Cleared(o, [seq |-> s, ver |-> approval[o][s]])'
  BY DEF ApprovalsFollow, Cleared
<1>2. o \in Orgs /\ table[o] \in Nat /\ table'[o] \in Nat /\ table[o] <= table'[o]
  BY <1>1, TablesForward
<1>3. checked[o] # None => checked[o].seq <= table'[o] + 1
  <2>1. checked[o] # None => checked[o] \in Defs /\ checked[o].seq <= table[o] + 1
    BY <1>1, <1>2 DEF IInv, ApprovalsFollow, TypeOK
  <2>. QED  BY <2>1, <1>2 DEF Defs
<1>4. ASSUME NEW s \in 1..MaxSeq, approval[o][s] # None
      PROVE  Cleared(o, [seq |-> s, ver |-> approval[o][s]])'
  <2> DEFINE d == [seq |-> s, ver |-> approval[o][s]]
  <2>1. approval[o] \in [1..MaxSeq -> Versions \cup {None}]
    BY <1>1, <1>2 DEF TypeOK
  <2>2. d \in Defs
    BY <2>1, <1>4 DEF Defs
  <2>3. d \in ever[o] /\ d.seq <= table[o] + 1
    BY <1>4 DEF IInv, ApprovalsFollow, Cleared
  <2>4. d \in ever'[o] /\ d.seq <= table'[o] + 1
    BY <2>2, <2>3, <1>2 DEF Forward, Defs
  <2>. QED  BY <2>4 DEF Cleared
<1>. QED  BY <1>3, <1>4

\* A step that leaves the ledger and what was sent alone keeps their part.
LEMMA UntouchedLedger ==
  ASSUME IInv, TypeOK', Forward, UNCHANGED <<ledger, sent>>
  PROVE  SentCleared' /\ RevisionsApproved' /\ LagsByAtMostOne'
<1>1. TypeOK
  BY DEF IInv
<1>2. SentCleared'
  <2>. SUFFICES ASSUME NEW d \in sent, NEW o \in Static PROVE Cleared(o, d)'
    BY DEF SentCleared
  <2>1. d \in Defs /\ Cleared(o, d)
    BY <1>1 DEF IInv, TypeOK, SentCleared
  <2>. QED  BY <2>1, <1>1, ClearedForward
<1>3. RevisionsApproved'
  BY DEF IInv, RevisionsApproved, Forward
<1>4. LagsByAtMostOne'
  <2>. SUFFICES ASSUME NEW o \in Static PROVE Len(ledger) <= table'[o] + 1
    BY DEF LagsByAtMostOne
  <2>1. Len(ledger) <= table[o] + 1
    BY DEF IInv, LagsByAtMostOne
  <2>. QED  BY <1>1, <2>1, TablesForward
<1>. QED  BY <1>2, <1>3, <1>4

-----------------------------------------------------------------------------
(* Types.                                                                  *)

LEMMA InitInv == Init => IInv
<1>. SUFFICES ASSUME Init PROVE IInv
  OBVIOUS
<1>1. Len(<<>>) = 0 /\ ledger = <<>>
  BY DEF Init
<1>2. TypeOK
  BY <1>1, ReadinessAssumption DEF Init, TypeOK, NoApprovals, Defs
<1>3. ApprovalsFollow
  BY ReadinessAssumption DEF Init, ApprovalsFollow, NoApprovals
<1>4. RequestsCleared /\ SentCleared
  BY DEF Init, RequestsCleared, RequestCleared, SentCleared
<1>5. RevisionsApproved /\ LagsByAtMostOne
  BY <1>1, ReadinessAssumption DEF Init, RevisionsApproved, LagsByAtMostOne
<1>. QED  BY <1>2, <1>3, <1>4, <1>5 DEF IInv

\* Types of the steps in one organization.
LEMMA TypeOrgStep ==
  ASSUME IInv, NEW o \in Orgs,
         \/ \E d \in Offered[o] : ApproveCheck(o, d)
         \/ ApproveWrite(o) \/ Crash(o) \/ Restart(o)
  PROVE  TypeOK'
<1>1. TypeOK /\ Len(ledger) \in Nat
  BY DEF IInv, TypeOK
<1>2. ASSUME NEW d \in Offered[o], ApproveCheck(o, d) PROVE TypeOK'
  <2>1. d \in Defs
    BY ReadinessAssumption DEF Defs
  <2>. QED  BY <1>1, <1>2, <2>1 DEF TypeOK, ApproveCheck, reqVars
<1>3. CASE ApproveWrite(o)
  <2>1. checked[o] \in Defs
    BY <1>1, <1>3 DEF TypeOK, ApproveWrite
  <2>2. checked[o].seq \in 1..MaxSeq /\ checked[o].ver \in Versions
    BY <2>1 DEF Defs
  <2>3. approval' \in [Orgs -> [1..MaxSeq -> Versions \cup {None}]]
    BY <1>1, <1>3, <2>2 DEF TypeOK, ApproveWrite
  <2>4. ever' \in [Static -> SUBSET Defs]
    BY <1>1, <1>3, <2>1 DEF TypeOK, ApproveWrite
  <2>. QED  BY <1>1, <1>3, <2>3, <2>4 DEF TypeOK, ApproveWrite, reqVars
<1>4. CASE Crash(o)
  BY <1>1, <1>4 DEF TypeOK, Crash, NoApprovals
<1>5. CASE Restart(o)
  BY <1>1, <1>5 DEF TypeOK, Restart, reqVars
<1>. QED  BY <1>2, <1>3, <1>4, <1>5

\* Types of the steps of one request.
LEMMA TypeRequestStep ==
  ASSUME IInv, NEW r \in Requests,
         \/ \E d \in Offered[Home[r]] : Commit(r, d)
         \/ RequestStep(r) \/ Fail(r) \/ Resume(r)
  PROVE  TypeOK'
<1>1. TypeOK /\ RequestCleared(r) /\ Len(ledger) \in Nat /\ Home[r] \in Orgs
  BY ReadinessAssumption DEF IInv, TypeOK, RequestsCleared
<1>2. ASSUME NEW d \in Offered[Home[r]], Commit(r, d) PROVE TypeOK'
  <2>1. d \in Defs
    BY <1>1, ReadinessAssumption DEF Defs
  <2>2. PICK P \in RemotePeers(Home[r]) : left' = [left EXCEPT ![r] = P]
    BY <1>2 DEF Commit
  <2>3. P \in SUBSET Orgs
    BY <1>1, <2>2, PeersFound
  <2>. QED  BY <1>1, <1>2, <2>1, <2>2, <2>3 DEF TypeOK, Commit, Goto, orgVars
<1>3. ASSUME NEW o \in Orgs, Ask(r, o) PROVE TypeOK'
  <2>1. left[r] \in SUBSET Orgs
    BY <1>1, <1>3 DEF RequestCleared, Ask
  <2>. QED  BY <1>1, <1>3, <2>1 DEF TypeOK, Ask, orgVars
<1>4. ASSUME NEW o \in Orgs, Tell(r, o) PROVE TypeOK'
  <2>1. left[r] \in SUBSET Orgs /\ want[r] \in Defs
    BY <1>1, <1>4 DEF RequestCleared, Tell
  <2>2. want[r].seq \in 0..Len(ledger)
    BY <1>1, <1>4 DEF Tell, OnLedger
  <2>3. table' \in [Orgs -> 0..Len(ledger)]
    BY <1>1, <1>4, <2>2 DEF TypeOK, Tell, Later
  <2>. QED  BY <1>1, <1>4, <2>1, <2>3 DEF TypeOK, Tell
<1>5. CASE ValidateCommit(r)
  BY <1>1, <1>5 DEF TypeOK, ValidateCommit, Goto, orgVars
<1>6. CASE Prepare(r)
  <2>1. want[r] \in Defs
    BY <1>1, <1>6 DEF RequestCleared, Prepare
  <2>. QED  BY <1>1, <1>6, <2>1 DEF TypeOK, Prepare, Goto, orgVars
<1>7. CASE WaitFinality(r)
  BY <1>1, <1>7 DEF TypeOK, WaitFinality, Goto, End, orgVars
<1>8. CASE Apply(r)
  <2>1. CASE Len(ledger) > want[r].seq /\ End(r) /\ UNCHANGED table
    BY <1>1, <1>8, <2>1 DEF TypeOK, Apply, End
  <2>2. CASE /\ OnLedger(want[r])
             /\ table' = [table EXCEPT ![Home[r]] = Later(want[r].seq, @)]
             /\ IF left[r] = None
                THEN \E P \in RemotePeers(Home[r]) : left' = [left EXCEPT ![r] = P]
                ELSE UNCHANGED left
             /\ Goto(r, "tell")
             /\ UNCHANGED want
    <3>1. want[r].seq \in 0..Len(ledger)
      BY <1>1, <2>2 DEF OnLedger
    <3>2. table' \in [Orgs -> 0..Len(ledger)]
      BY <1>1, <2>2, <3>1 DEF TypeOK, Later
    <3>3. left' \in [Requests -> (SUBSET Orgs) \cup {None}]
      BY <1>1, <2>2, PeersFound DEF TypeOK
    <3>. QED  BY <1>1, <1>8, <2>2, <3>2, <3>3 DEF TypeOK, Apply, Goto
  <2>. QED  BY <1>8, <2>1, <2>2 DEF Apply
<1>9. CASE Return(r)
  BY <1>1, <1>9 DEF TypeOK, Return, End, orgVars
<1>10. CASE Fail(r)
  BY <1>1, <1>10 DEF TypeOK, Fail, End, Goto, orgVars
<1>11. CASE Resume(r)
  BY <1>1, <1>11 DEF TypeOK, Resume, Goto, orgVars
<1>. QED  BY <1>2, <1>3, <1>4, <1>5, <1>6, <1>7, <1>8, <1>9, <1>10, <1>11
          DEF RequestStep

\* Types of the committer's step.
LEMMA TypeOrder ==
  ASSUME IInv, NEW d \in Defs, Order(d)
  PROVE  TypeOK'
<1>1. TypeOK /\ Len(ledger) \in Nat
  BY DEF IInv, TypeOK
<1>2. d.seq \in 1..MaxSeq /\ d.ver \in Versions
  BY DEF Defs
<1>3. ledger' \in Seq(Versions) /\ Len(ledger') <= MaxSeq /\ Len(ledger) <= Len(ledger')
  BY <1>1, <1>2, ReadinessAssumption DEF Order, TypeOK
<1>4. table' \in [Orgs -> 0..Len(ledger')]
  BY <1>1, <1>3 DEF Order, TypeOK, orgVars
<1>. QED  BY <1>1, <1>3, <1>4 DEF Order, TypeOK, orgVars, reqVars

-----------------------------------------------------------------------------
(* The steps keep the invariant.                                           *)

\* Steps in one organization.
LEMMA OrgStep ==
  ASSUME IInv, NEW o \in Orgs,
         \/ \E d \in Offered[o] : ApproveCheck(o, d)
         \/ ApproveWrite(o) \/ Crash(o) \/ Restart(o)
  PROVE  IInv'
<1>1. TypeOK' /\ TypeOK /\ Len(ledger) \in Nat /\ Static \subseteq Orgs
  BY TypeOrgStep, ReadinessAssumption DEF IInv, TypeOK
<1>2. \A i \in Orgs : table[i] \in Nat /\ table[i] <= Len(ledger)
  BY <1>1 DEF TypeOK
<1>3. ASSUME NEW d \in Offered[o], ApproveCheck(o, d) PROVE IInv'
  <2>1. d \in Defs /\ d.seq \in Nat
    BY ReadinessAssumption DEF Defs
  <2>2. Forward
    BY <1>1, <1>2, <1>3 DEF Forward, ApproveCheck
  <2>3. d.seq <= table[o] + 1
    BY <1>2, <1>3, <2>1 DEF ApproveCheck, Approvable
  <2>4. ApprovalsFollow'
    <3>1. \A i \in Static : checked'[i] # None => checked'[i].seq <= table[i] + 1
      BY <1>1, <1>3, <2>3 DEF IInv, ApprovalsFollow, ApproveCheck, TypeOK
    <3>. QED  BY <1>3, <3>1 DEF IInv, ApprovalsFollow, ApproveCheck, Cleared
  <2>5. RequestsCleared'
    BY <1>1, <1>3, <2>2, UntouchedRequest DEF RequestsCleared, ApproveCheck, reqVars
  <2>6. SentCleared' /\ RevisionsApproved' /\ LagsByAtMostOne'
    BY <1>1, <1>3, <2>2, UntouchedLedger DEF ApproveCheck
  <2>. QED  BY <1>1, <2>4, <2>5, <2>6 DEF IInv
<1>4. CASE ApproveWrite(o)
  <2> DEFINE d == checked[o]
  <2>1. d \in Defs /\ d.seq \in 1..MaxSeq /\ d.ver \in Versions
    BY <1>1, <1>4 DEF TypeOK, ApproveWrite, Defs
  <2>2. Forward
    BY <1>1, <1>2, <1>4 DEF Forward, ApproveWrite, TypeOK
  <2>3. ApprovalsFollow'
    <3>. SUFFICES ASSUME NEW i \in Static
                  PROVE  /\ checked'[i] # None => checked'[i].seq <= table[i] + 1
                         /\ \A s \in 1..MaxSeq : approval'[i][s] # None =>
                              /\ [seq |-> s, ver |-> approval'[i][s]] \in ever'[i]
                              /\ s <= table[i] + 1
      BY <1>4 DEF ApprovalsFollow, ApproveWrite, Cleared
    <3>1. checked'[i] # None => checked'[i].seq <= table[i] + 1
      BY <1>1, <1>4 DEF IInv, ApprovalsFollow, ApproveWrite, TypeOK
    <3>2. ASSUME NEW s \in 1..MaxSeq, approval'[i][s] # None
          PROVE  /\ [seq |-> s, ver |-> approval'[i][s]] \in ever'[i]
                 /\ s <= table[i] + 1
      <4>1. CASE i = o /\ s = d.seq
        <5>1. approval'[i][s] = d.ver
          BY <1>1, <1>4, <4>1 DEF ApproveWrite, TypeOK
        <5>2. [seq |-> s, ver |-> d.ver] = d
          BY <2>1, <4>1 DEF Defs
        <5>3. d \in ever'[i]
          BY <1>1, <1>4, <4>1 DEF ApproveWrite, TypeOK
        <5>4. s <= table[i] + 1
          BY <1>4, <4>1 DEF IInv, ApprovalsFollow, ApproveWrite
        <5>. QED  BY <5>1, <5>2, <5>3, <5>4
      <4>2. CASE ~(i = o /\ s = d.seq)
        <5>1. approval'[i][s] = approval[i][s]
          BY <1>1, <1>4, <4>2 DEF ApproveWrite, TypeOK
        <5>2. /\ [seq |-> s, ver |-> approval[i][s]] \in ever[i]
              /\ s <= table[i] + 1
          BY <3>2, <5>1 DEF IInv, ApprovalsFollow, Cleared
        <5>. QED  BY <5>1, <5>2, <2>2 DEF Forward
      <4>. QED  BY <4>1, <4>2
    <3>. QED  BY <3>1, <3>2
  <2>4. RequestsCleared'
    BY <1>1, <1>4, <2>2, UntouchedRequest DEF RequestsCleared, ApproveWrite, reqVars
  <2>5. SentCleared' /\ RevisionsApproved' /\ LagsByAtMostOne'
    BY <1>1, <1>4, <2>2, UntouchedLedger DEF ApproveWrite
  <2>. QED  BY <1>1, <2>3, <2>4, <2>5 DEF IInv
<1>5. CASE Crash(o)
  <2>1. Forward
    BY <1>1, <1>2, <1>5 DEF Forward, Crash, TypeOK
  <2>2. ApprovalsFollow'
    <3>. SUFFICES ASSUME NEW i \in Static
                  PROVE  /\ checked'[i] # None => checked'[i].seq <= table'[i] + 1
                         /\ \A s \in 1..MaxSeq : approval'[i][s] # None =>
                              /\ [seq |-> s, ver |-> approval'[i][s]] \in ever'[i]
                              /\ s <= table'[i] + 1
      BY DEF ApprovalsFollow, Cleared
    <3>1. CASE i = o
      BY <1>1, <1>5, <3>1 DEF Crash, TypeOK, NoApprovals
    <3>2. CASE i # o
      <4>1. /\ checked'[i] = checked[i] /\ approval'[i] = approval[i]
            /\ table'[i] = table[i] /\ ever' = ever
        BY <1>1, <1>5, <3>2 DEF Crash, TypeOK
      <4>. QED  BY <4>1 DEF IInv, ApprovalsFollow, Cleared
    <3>. QED  BY <3>1, <3>2
  <2>3. RequestsCleared'
    <3>. SUFFICES ASSUME NEW r \in Requests PROVE RequestCleared(r)'
      BY DEF RequestsCleared
    <3>1. CASE Home[r] = o
      BY <1>5, <3>1 DEF Crash, RequestCleared
    <3>2. CASE Home[r] # o
      <4>1. pc'[r] = pc[r] /\ want'[r] = want[r] /\ left'[r] = left[r]
        BY <1>5, <3>2 DEF Crash
      <4>. QED  BY <4>1, <1>1, <2>1, UntouchedRequest
    <3>. QED  BY <3>1, <3>2
  <2>4. SentCleared' /\ RevisionsApproved' /\ LagsByAtMostOne'
    BY <1>1, <1>5, <2>1, UntouchedLedger DEF Crash
  <2>. QED  BY <1>1, <2>2, <2>3, <2>4 DEF IInv
<1>6. CASE Restart(o)
  <2>1. Forward
    BY <1>1, <1>2, <1>6 DEF Forward, Restart, TypeOK
  <2>2. ApprovalsFollow'
    BY <1>1, <1>6, <2>1, UntouchedApprovals DEF Restart
  <2>3. RequestsCleared'
    BY <1>1, <1>6, <2>1, UntouchedRequest DEF RequestsCleared, Restart, reqVars
  <2>4. SentCleared' /\ RevisionsApproved' /\ LagsByAtMostOne'
    BY <1>1, <1>6, <2>1, UntouchedLedger DEF Restart
  <2>. QED  BY <1>1, <2>2, <2>3, <2>4 DEF IInv
<1>. QED  BY <1>3, <1>4, <1>5, <1>6

\* A step of request r that changes no other request keeps the invariant when
\* it keeps what is named below.
LEMMA OneRequest ==
  ASSUME IInv, TypeOK', Forward, NEW r \in Requests,
         \A q \in Requests \ {r} :
           pc'[q] = pc[q] /\ want'[q] = want[q] /\ left'[q] = left[q],
         UNCHANGED <<ledger, approval, checked>>,
         RequestCleared(r)', SentCleared'
  PROVE  IInv'
<1>1. ApprovalsFollow'
  BY UntouchedApprovals
<1>2. RequestsCleared'
  BY UntouchedRequest DEF RequestsCleared
<1>3. RevisionsApproved'
  BY DEF IInv, RevisionsApproved, Forward
<1>4. LagsByAtMostOne'
  <2>. SUFFICES ASSUME NEW o \in Static PROVE Len(ledger) <= table'[o] + 1
    BY DEF LagsByAtMostOne
  <2>1. Len(ledger) <= table[o] + 1 /\ TypeOK
    BY DEF IInv, LagsByAtMostOne
  <2>. QED  BY <2>1, TablesForward
<1>. QED  BY <1>1, <1>2, <1>3, <1>4 DEF IInv

\* Who has a matching approval is cleared.
LEMMA ApprovedIsCleared ==
  ASSUME IInv, NEW o \in Static, NEW d \in Defs, HasMatchingApproval(o, d)
  PROVE  Cleared(o, d)
<1>1. d.seq \in 1..MaxSeq /\ d.ver # None /\ d = [seq |-> d.seq, ver |-> d.ver]
  BY ReadinessAssumption DEF Defs
<1>. QED  BY <1>1 DEF HasMatchingApproval, IInv, ApprovalsFollow

\* Steps of one request.
LEMMA RequestKeeps ==
  ASSUME IInv, NEW r \in Requests,
         \/ \E d \in Offered[Home[r]] : Commit(r, d)
         \/ RequestStep(r) \/ Fail(r) \/ Resume(r)
  PROVE  IInv'
<1>1. /\ TypeOK' /\ TypeOK /\ RequestCleared(r) /\ Len(ledger) \in Nat
      /\ Home[r] \in Orgs /\ Static \subseteq Orgs
  BY TypeRequestStep, ReadinessAssumption DEF IInv, TypeOK, RequestsCleared
<1>2. \A i \in Orgs : table[i] \in Nat /\ table[i] <= Len(ledger)
  BY <1>1 DEF TypeOK
<1>3. ASSUME UNCHANGED <<table, ever>> PROVE Forward
  BY <1>1, <1>2, <1>3 DEF Forward
<1>4. ASSUME Forward, UNCHANGED sent PROVE SentCleared'
  <2>. SUFFICES ASSUME NEW d \in sent, NEW o \in Static PROVE Cleared(o, d)'
    BY <1>4 DEF SentCleared
  <2>1. d \in Defs /\ Cleared(o, d)
    BY <1>1 DEF IInv, TypeOK, SentCleared
  <2>. QED  BY <2>1, <1>1, <1>4, ClearedForward
<1>5. ASSUME NEW d \in Offered[Home[r]], Commit(r, d) PROVE IInv'
  <2>1. d \in Defs
    BY <1>1, ReadinessAssumption DEF Defs
  <2>2. PICK P \in RemotePeers(Home[r]) : left' = [left EXCEPT ![r] = P]
    BY <1>5 DEF Commit
  <2>3. P \in SUBSET Orgs /\ Static \ P \subseteq {Home[r]}
    BY <1>1, <2>2, PeersFound
  <2>4. pc'[r] = "ask" /\ want'[r] = d /\ left'[r] = P
    BY <1>1, <1>5, <2>2 DEF Commit, Goto, TypeOK
  <2>5. \A o \in Static \ P : d \in ever[o] /\ d.seq <= table[o] + 1
    <3>1. HasMatchingApproval(Home[r], d)
      BY <1>5 DEF Commit
    <3>. QED  BY <2>1, <2>3, <3>1, ApprovedIsCleared DEF Cleared
  <2>6. RequestCleared(r)'
    BY <1>5, <2>1, <2>3, <2>4, <2>5 DEF RequestCleared, Cleared, Commit, orgVars
  <2>7. Forward /\ SentCleared'
    BY <1>3, <1>4, <1>5 DEF Commit, orgVars
  <2>. QED  BY <1>1, <1>5, <2>6, <2>7, OneRequest DEF Commit, Goto, TypeOK, orgVars
<1>6. ASSUME NEW o \in Orgs, Ask(r, o) PROVE IInv'
  <2>1. want[r] \in Defs /\ left[r] \in SUBSET Orgs
    BY <1>1, <1>6 DEF RequestCleared, Ask
  <2>2. pc'[r] = "ask" /\ want'[r] = want[r] /\ left'[r] = left[r] \ {o}
    BY <1>1, <1>6 DEF Ask, TypeOK
  <2>3. \A i \in Static \ (left[r] \ {o}) :
          want[r] \in ever[i] /\ want[r].seq <= table[i] + 1
    <3>1. \A i \in Static \ left[r] :
            want[r] \in ever[i] /\ want[r].seq <= table[i] + 1
      BY <1>1, <1>6 DEF RequestCleared, Ask, Cleared
    <3>2. o \in Static => want[r] \in ever[o] /\ want[r].seq <= table[o] + 1
      BY <1>6, <2>1, ApprovedIsCleared DEF Ask, Cleared
    <3>. QED  BY <3>1, <3>2
  <2>4. RequestCleared(r)'
    BY <1>6, <2>1, <2>2, <2>3 DEF RequestCleared, Cleared, Ask, orgVars
  <2>5. Forward /\ SentCleared'
    BY <1>3, <1>4, <1>6 DEF Ask, orgVars
  <2>. QED  BY <1>1, <1>6, <2>4, <2>5, OneRequest DEF Ask, TypeOK, orgVars
<1>7. ASSUME NEW o \in Orgs, Tell(r, o) PROVE IInv'
  <2>1. want[r] \in Defs /\ left[r] \in SUBSET Orgs /\ want[r].seq \in Nat
    BY <1>1, <1>7 DEF RequestCleared, Tell, Defs
  <2>2. pc'[r] = "tell" /\ want'[r] = want[r] /\ left'[r] = left[r] \ {o}
    BY <1>1, <1>7 DEF Tell, TypeOK
  <2>3. RequestCleared(r)'
    BY <2>1, <2>2 DEF RequestCleared
  <2>4. Forward
    BY <1>1, <1>2, <1>7, <2>1 DEF Forward, Tell, Later, TypeOK
  <2>5. SentCleared'
    BY <1>4, <1>7, <2>4 DEF Tell
  <2>. QED  BY <1>1, <1>7, <2>3, <2>4, <2>5, OneRequest DEF Tell, TypeOK
<1>8. CASE ValidateCommit(r)
  <2>1. pc'[r] = "prepare" /\ want'[r] = want[r] /\ left'[r] = {}
    BY <1>1, <1>8 DEF ValidateCommit, Goto, TypeOK
  <2>2. RequestCleared(r)'
    BY <1>1, <1>8, <2>1 DEF RequestCleared, Cleared, ValidateCommit, orgVars
  <2>3. Forward /\ SentCleared'
    BY <1>3, <1>4, <1>8 DEF ValidateCommit, orgVars
  <2>. QED  BY <1>1, <1>8, <2>2, <2>3, OneRequest DEF ValidateCommit, Goto, TypeOK, orgVars
<1>9. CASE Prepare(r)
  <2>1. want[r] \in Defs
    BY <1>1, <1>9 DEF RequestCleared, Prepare
  <2>2. pc'[r] \in {"apply", "wait"} /\ want'[r] = want[r]
    BY <1>1, <1>9 DEF Prepare, Goto, TypeOK
  <2>3. RequestCleared(r)'
    BY <2>1, <2>2 DEF RequestCleared
  <2>4. Forward
    BY <1>3, <1>9 DEF Prepare, orgVars
  <2>5. SentCleared'
    <3>1. \A o \in Static : want[r] \in ever[o] /\ want[r].seq <= table[o] + 1
      BY <1>1, <1>9 DEF RequestCleared, Prepare, Cleared
    <3>. QED  BY <1>9, <3>1 DEF IInv, SentCleared, Cleared, Prepare, orgVars
  <2>. QED  BY <1>1, <1>9, <2>3, <2>4, <2>5, OneRequest DEF Prepare, Goto, TypeOK, orgVars
<1>10. CASE WaitFinality(r)
  <2>1. RequestCleared(r)'
    BY <1>1, <1>10 DEF RequestCleared, WaitFinality, Goto, End, TypeOK
  <2>2. Forward /\ SentCleared'
    BY <1>3, <1>4, <1>10 DEF WaitFinality, orgVars
  <2>. QED  BY <1>1, <1>10, <2>1, <2>2, OneRequest DEF WaitFinality, Goto, End, TypeOK, orgVars
<1>11. CASE Apply(r)
  <2>1. want[r] \in Defs /\ want[r].seq \in Nat
    BY <1>1, <1>11 DEF RequestCleared, Apply, Defs
  <2>2. Forward
    <3>1. \/ table' = table
          \/ table' = [table EXCEPT ![Home[r]] = Later(want[r].seq, @)]
      BY <1>11 DEF Apply
    <3>2. ASSUME NEW i \in Orgs PROVE table[i] <= table'[i]
      <4>1. CASE table' = table
        BY <1>2, <4>1
      <4>2. CASE table' = [table EXCEPT ![Home[r]] = Later(want[r].seq, @)]
        <5>1. table'[i] = IF i = Home[r] THEN Later(want[r].seq, table[i]) ELSE table[i]
          BY <1>1, <4>2 DEF TypeOK
        <5>. QED  BY <1>2, <2>1, <5>1 DEF Later
      <4>. QED  BY <3>1, <4>1, <4>2
    <3>. QED  BY <1>1, <1>11, <3>2 DEF Forward, Apply
  <2>3. RequestCleared(r)'
    <3>1. CASE pc'[r] = "idle"
      BY <3>1 DEF RequestCleared
    <3>2. CASE pc'[r] # "idle"
      <4>1. pc'[r] = "tell" /\ want'[r] = want[r]
        BY <1>1, <1>11, <3>2 DEF Apply, End, Goto, TypeOK
      <4>2. left'[r] \in SUBSET Orgs
        BY <1>1, <1>11, <3>2, PeersFound DEF Apply, End, Goto, TypeOK
      <4>. QED  BY <2>1, <4>1, <4>2 DEF RequestCleared
    <3>. QED  BY <3>1, <3>2
  <2>4. SentCleared'
    BY <1>4, <1>11, <2>2 DEF Apply
  <2>5. \A q \in Requests \ {r} :
          pc'[q] = pc[q] /\ want'[q] = want[q] /\ left'[q] = left[q]
    BY <1>1, <1>11 DEF Apply, End, Goto, TypeOK
  <2>. QED  BY <1>1, <1>11, <2>2, <2>3, <2>4, <2>5, OneRequest DEF Apply
<1>12. CASE Return(r)
  <2>1. RequestCleared(r)'
    BY <1>1, <1>12 DEF RequestCleared, Return, End, TypeOK
  <2>2. Forward /\ SentCleared'
    BY <1>3, <1>4, <1>12 DEF Return, orgVars
  <2>. QED  BY <1>1, <1>12, <2>1, <2>2, OneRequest DEF Return, End, TypeOK, orgVars
<1>13. CASE Fail(r)
  <2>1. RequestCleared(r)'
    BY <1>1, <1>13 DEF RequestCleared, Fail, End, Goto, TypeOK
  <2>2. Forward /\ SentCleared'
    BY <1>3, <1>4, <1>13 DEF Fail, orgVars
  <2>. QED  BY <1>1, <1>13, <2>1, <2>2, OneRequest DEF Fail, End, Goto, TypeOK, orgVars
<1>14. CASE Resume(r)
  <2>1. RequestCleared(r)'
    BY <1>1, <1>14 DEF RequestCleared, Resume, Goto, TypeOK
  <2>2. Forward /\ SentCleared'
    BY <1>3, <1>4, <1>14 DEF Resume, orgVars
  <2>. QED  BY <1>1, <1>14, <2>1, <2>2, OneRequest DEF Resume, Goto, TypeOK, orgVars
<1>. QED  BY <1>5, <1>6, <1>7, <1>8, <1>9, <1>10, <1>11, <1>12, <1>13, <1>14
          DEF RequestStep

\* The committer's step: here a cleared definition becomes a revision.
LEMMA OrderKeeps ==
  ASSUME IInv, NEW d \in Defs, Order(d)
  PROVE  IInv'
<1>1. TypeOK' /\ TypeOK /\ Len(ledger) \in Nat /\ Static \subseteq Orgs
  BY TypeOrder, ReadinessAssumption DEF IInv, TypeOK
<1>2. \A i \in Orgs : table[i] \in Nat
  BY <1>1 DEF TypeOK
<1>3. Forward
  BY <1>1, <1>2 DEF Forward, Order, orgVars
<1>4. ApprovalsFollow' /\ RequestsCleared'
  BY <1>1, <1>3, UntouchedApprovals, UntouchedRequest
     DEF Order, orgVars, reqVars, RequestsCleared
<1>5. SentCleared'
  BY DEF IInv, SentCleared, Order, orgVars, Cleared
<1>6. \A o \in Static : d \in ever[o] /\ d.seq <= table[o] + 1
  BY DEF IInv, SentCleared, Order, Cleared
<1>7. CASE d.seq = Len(ledger) + 1
  <2>1. ledger' = Append(ledger, d.ver) /\ UNCHANGED orgVars
    BY <1>7 DEF Order
  <2>2. /\ Len(ledger') = Len(ledger) + 1 /\ ledger'[Len(ledger) + 1] = d.ver
        /\ \A s \in 1..Len(ledger) : ledger'[s] = ledger[s]
    BY <1>1, <2>1 DEF TypeOK
  <2>3. d = [seq |-> Len(ledger) + 1, ver |-> d.ver]
    BY <1>7 DEF Defs
  <2>4. RevisionsApproved'
    <3>. SUFFICES ASSUME NEW s \in 1..Len(ledger'), NEW o \in Static
                  PROVE  [seq |-> s, ver |-> ledger'[s]] \in ever[o]
      BY <2>1 DEF RevisionsApproved, orgVars
    <3>1. CASE s = Len(ledger) + 1
      BY <1>6, <2>2, <2>3, <3>1
    <3>2. CASE s # Len(ledger) + 1
      <4>1. s \in 1..Len(ledger)
        BY <1>1, <2>2, <3>2
      <4>. QED  BY <2>2, <4>1 DEF IInv, RevisionsApproved
    <3>. QED  BY <3>1, <3>2
  <2>5. LagsByAtMostOne'
    BY <1>6, <1>7, <2>1, <2>2 DEF LagsByAtMostOne, orgVars
  <2>. QED  BY <1>1, <1>4, <1>5, <2>4, <2>5 DEF IInv
<1>8. CASE d.seq # Len(ledger) + 1
  <2>1. UNCHANGED <<ledger, orgVars>>
    BY <1>8 DEF Order
  <2>. QED  BY <1>1, <1>4, <1>5, <2>1 DEF IInv, RevisionsApproved, LagsByAtMostOne, orgVars
<1>. QED  BY <1>7, <1>8

\* Every step keeps the invariant.
LEMMA StepInv == IInv /\ [Next]_vars => IInv'
<1>. SUFFICES ASSUME IInv, [Next]_vars PROVE IInv'
  OBVIOUS
<1>1. CASE UNCHANGED vars
  BY <1>1 DEF vars, orgVars, reqVars, IInv, TypeOK, ApprovalsFollow, RequestsCleared,
              RequestCleared, SentCleared, RevisionsApproved, LagsByAtMostOne, Cleared
<1>2. CASE Next
  BY <1>2, OrgStep, RequestKeeps, OrderKeeps DEF Next
<1>. QED  BY <1>1, <1>2

-----------------------------------------------------------------------------
\* The invariant holds in every reachable state, for any organizations,
\* requests and definitions.
THEOREM Invariance == Spec => []IInv
  BY InitInv, StepInv, PTL DEF Spec

\* Types; in particular no table is ahead of the ledger, whatever it is told
\* (applyLedgerDefinition).
THEOREM TypeCorrect == Spec => []TypeOK
<1>1. IInv => TypeOK
  BY DEF IInv
<1>. QED  BY <1>1, Invariance, PTL

\* Every revision of the ledger was approved, as it is, by every organization
\* that can always be found (checkCommitReadiness).
THEOREM RevisionsWereApproved == Spec => []RevisionsApproved
<1>1. IInv => RevisionsApproved
  BY DEF IInv
<1>. QED  BY <1>1, Invariance, PTL

\* Such an organization misses at most one revision (validateNextSequence).
THEOREM BoundedLag == Spec => []LagsByAtMostOne
<1>1. IInv => LagsByAtMostOne
  BY DEF IInv
<1>. QED  BY <1>1, Invariance, PTL
=============================================================================

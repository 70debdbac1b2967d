--------------------------- MODULE EvaluateRouting ---------------------------
(***************************************************************************)
(* Where a Gateway Evaluate request runs (orchestrator/service.go Evaluate,*)
(* execution.go evaluate and evaluateRemote, and Resolve of                *)
(* remote_resolver.go).                                                    *)
(*                                                                         *)
(* The orchestrator the client calls runs the chaincode itself or forwards *)
(* the request to the organizations the client names, one contact after    *)
(* another.  Contacts come from configuration and from an external         *)
(* resolver, so one may belong to another organization than it is listed   *)
(* for.  A forwarded request meets the same handler, calls are lost        *)
(* without the caller knowing whether they ran, and contexts expire.       *)
(***************************************************************************)
EXTENDS Naturals, Sequences, FiniteSets, SequencesExt

CONSTANTS Msps,           \* MSP IDs
          Orchestrators,  \* orchestrators, also as contacts
          Org,            \* Org[p]: the organization p really belongs to
          Static,         \* Static[t]: the configured contacts of t, in order
          Located,        \* Located[t]: contacts the external resolver may name
          TargetLists,    \* the organization lists clients send
          Nothing         \* no request, no reply

VARIABLES request,  \* what the client asked: [entry, targets]
          calls,    \* the handlers waiting for each other, the client's first
          orphans,  \* handlers whose caller no longer waits
          reply,    \* the reply on its way to the last of calls, or the client
          ran,      \* orchestrators that executed the proposal
          asked,    \* orchestrators the client's handler has called
          heard     \* the replies it got, in order

routing == <<request, calls, orphans, reply, ran, asked, heard>>

\* A call that starts in Evaluate.
Handler(p, ts, restricted) ==
  [at |-> p, targets |-> ts, localOnly |-> restricted,
   stage |-> "arrived", todo |-> <<>>, visited |-> {}, contacts |-> <<>>]

\* Replies: a result; a signature, authorization, lifecycle or chaincode error;
\* Unavailable, Aborted or Unimplemented; an ended context.
Retryable == {"unavailable", "expired"}
Replies == {"ok", "refused"} \cup Retryable

\* What configuration and requests are made of.  Contacts may be wrong, and a
\* client may name an organization twice, or none.
WellConfigured ==
  /\ Org \in [Orchestrators -> Msps]
  /\ Static \in [Msps -> Seq(Orchestrators)]
  /\ Located \in [Msps -> SUBSET Orchestrators]
  /\ \A t \in Msps : IsFiniteSet(Located[t])
  /\ TargetLists \subseteq Seq(Msps)
  /\ Nothing \notin Replies
  /\ Nothing \notin [entry : Orchestrators, targets : TargetLists]

ASSUME RoutingAssumption == WellConfigured

RoutingInit ==
  /\ request = Nothing
  /\ calls = <<>>
  /\ orphans = {}
  /\ reply = Nothing
  /\ ran = {}
  /\ asked = {}
  /\ heard = <<>>

-----------------------------------------------------------------------------
Top == Last(calls)

At(stage) == calls # <<>> /\ reply = Nothing /\ Top.stage = stage

\* The last handler changes, or returns to the one that called it.
Becomes(h) == calls' = Append(Front(calls), h)

Answer(code) == calls' = Front(calls) /\ reply' = code

\* The client's call; it may set the routing restriction itself.
StartEvaluate(p, ts, restricted) ==
  /\ request = Nothing
  /\ request' = [entry |-> p, targets |-> ts]
  /\ calls' = <<Handler(p, ts, restricted)>>
  /\ UNCHANGED <<orphans, reply, ran, asked, heard>>

\* The proposal, the init gate, the restriction or a target is invalid, or the
\* context has ended.
Reject ==
  /\ At("arrived")
  /\ Answer("refused") \/ Answer("expired")
  /\ UNCHANGED <<request, orphans, ran, asked, heard>>

Runs(h) == h.targets = <<>> \/ Contains(h.targets, Org[h.at])

\* evaluate: any reply is possible, also before the chaincode ran.
RunLocal ==
  /\ At("arrived")
  /\ Runs(Top)
  /\ \E code \in Replies :
       /\ Answer(code)
       /\ \/ ran' = ran \cup {Top.at}
          \/ code # "ok" /\ UNCHANGED ran
  /\ UNCHANGED <<request, orphans, asked, heard>>

\* A request under the restriction is not forwarded.
RefuseForwarded ==
  /\ At("arrived")
  /\ ~Runs(Top) /\ Top.localOnly
  /\ Answer("refused")
  /\ UNCHANGED <<request, orphans, ran, asked, heard>>

StartRouting ==
  /\ At("arrived")
  /\ ~Runs(Top) /\ ~Top.localOnly
  /\ Becomes([Top EXCEPT !.stage = "route", !.todo = Top.targets])
  /\ UNCHANGED <<request, orphans, reply, ran, asked, heard>>

\* The contacts made of the external resolver's candidates.  One without
\* address, or said to be of another MSP, voids the whole answer.
Candidates(t) == SetToAllKPermutations(Located[t])

\* The external resolver may also fail, or know none.
DynamicResolve(t) == {<<>>} \cup Candidates(t)

\* Resolve: the static contacts if there are any.
ContactLists(t) == IF Static[t] # <<>> THEN {Static[t]} ELSE DynamicResolve(t)

\* The next organization, each one once; one without contacts is passed over.
NextTarget ==
  /\ At("route")
  /\ Top.todo # <<>>
  /\ LET t == Head(Top.todo)
         seen == [Top EXCEPT !.visited = @ \cup {t}]
     IN \/ t \in Top.visited /\ Becomes([Top EXCEPT !.todo = Tail(@)])
        \/ /\ t \notin Top.visited
           /\ \E cs \in ContactLists(t) :
                Becomes(IF cs = <<>> THEN [seen EXCEPT !.todo = Tail(@)]
                        ELSE [seen EXCEPT !.stage = "calling", !.contacts = cs])
  /\ UNCHANGED <<request, orphans, reply, ran, asked, heard>>

\* Mutant of Forwarded: the list of organizations is not passed on.
ForwardedAnywhere(h) == Handler(Head(h.contacts), <<>>, TRUE)

\* The request a contact gets: this organization only, and no further.
Forwarded(h) == Handler(Head(h.contacts), <<Head(h.todo)>>, TRUE)

Forward ==
  /\ At("calling")
  /\ Top.contacts # <<>>
  /\ calls' = Front(calls) \o <<[Top EXCEPT !.contacts = Tail(@)], Forwarded(Top)>>
  /\ asked' = IF Len(calls) = 1 THEN asked \cup {Head(Top.contacts)} ELSE asked
  /\ UNCHANGED <<request, orphans, reply, ran, heard>>

\* No contact of this organization could evaluate.
TargetDone ==
  /\ At("calling")
  /\ Top.contacts = <<>>
  /\ Becomes([Top EXCEPT !.stage = "route", !.todo = Tail(@)])
  /\ UNCHANGED <<request, orphans, reply, ran, asked, heard>>

\* No organization could.
Exhausted ==
  /\ At("route")
  /\ Top.todo = <<>>
  /\ Answer("unavailable")
  /\ UNCHANGED <<request, orphans, ran, asked, heard>>

\* The context of a routing handler ends.
Expire ==
  /\ At("route") \/ At("calling")
  /\ Answer("expired")
  /\ UNCHANGED <<request, orphans, ran, asked, heard>>

\* Mutant of Retry: every error is a reason to ask the next one.
RetryAny(code) == code # "ok"

\* The errors after which the next contact is tried.
Retry(code) == code \in Retryable

\* The reply of a contact: it is passed on, or the next contact is tried; an
\* answer without a result, or with a failing status, is refused, and after an
\* error the own context may have ended.
TakeReply ==
  /\ calls # <<>> /\ reply # Nothing
  /\ heard' = IF Len(calls) = 1 THEN Append(heard, reply) ELSE heard
  /\ \/ Retry(reply) /\ reply' = Nothing /\ UNCHANGED calls
     \/ ~Retry(reply) /\ Answer(reply)
     \/ reply = "ok" /\ Answer("refused")
     \/ reply # "ok" /\ Answer("expired")
  /\ UNCHANGED <<request, orphans, ran, asked>>

\* The connection breaks while the contact works: its caller sees Unavailable.
Lose ==
  /\ Len(calls) > 1 /\ reply = Nothing
  /\ calls' = Front(calls)
  /\ reply' = "unavailable"
  /\ orphans' = orphans \cup {Top}
  /\ UNCHANGED <<request, ran, asked, heard>>

\* A handler nobody waits for ends, and may have executed the proposal.
OrphanEnds(h) ==
  /\ h \in orphans
  /\ orphans' = orphans \ {h}
  /\ \/ Runs(h) /\ ran' = ran \cup {h.at}
     \/ UNCHANGED ran
  /\ UNCHANGED <<request, calls, reply, asked, heard>>

RoutingNext ==
  \/ \E p \in Orchestrators, ts \in TargetLists, restricted \in BOOLEAN :
       StartEvaluate(p, ts, restricted)
  \/ Reject \/ RunLocal \/ RefuseForwarded \/ StartRouting \/ NextTarget
  \/ Forward \/ TargetDone \/ Exhausted \/ Expire \/ TakeReply \/ Lose
  \/ \E h \in orphans : OrphanEnds(h)

RoutingSpec == RoutingInit /\ [][RoutingNext]_routing

-----------------------------------------------------------------------------
\* A proposal is executed only by an organization its client named, or by the
\* orchestrator the client called when it named none; and it is forwarded once
\* at most, although contacts may be wrong, handlers forward by themselves and
\* lost calls keep running (gatewayEvaluateLocalOnly, evaluateRemote).
RunsWhereAsked ==
  /\ request # Nothing =>
       \A p \in ran : IF request.targets = <<>> THEN p = request.entry
                      ELSE Contains(request.targets, Org[p])
  /\ Len(calls) <= 2

\* The first definite answer of a contact ends the search and nobody else is
\* asked; and Unavailable means that every configured contact of every named
\* organization was tried, whatever failed before ("not reasons to silently run
\* the client's proposal somewhere else", execution.go).
FirstAnswerCounts ==
  /\ \A i \in DOMAIN heard : heard[i] \notin Retryable =>
       /\ i = Len(heard)
       /\ calls = <<>> /\ reply # "unavailable" /\ (reply = "ok" => heard[i] = "ok")
  /\ calls = <<>> /\ reply = "unavailable" /\ request.targets # <<>>
       /\ ~Contains(request.targets, Org[request.entry]) =>
       \A i \in DOMAIN request.targets : ToSet(Static[request.targets[i]]) \subseteq asked
=============================================================================

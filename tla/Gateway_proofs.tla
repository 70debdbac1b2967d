---------------------------- MODULE Gateway_proofs ----------------------------
(***************************************************************************)
(* Proofs about Gateway, for any organizations, signers, contacts and      *)
(* policies.  The first part is about EvaluateRouting: a proposal runs only*)
(* where its client asked, and the first definite answer ends the search.  *)
(* The second is about EndorsementSelection: an order is found whenever    *)
(* there is one.  The third is about EndorsementCollect: what is selected, *)
(* prepared and refused.                                                   *)
(*                                                                         *)
(* RInv describes the at most two Evaluate handlers that wait for each     *)
(* other, CInv what is known of an Endorse at each stage.                  *)
(***************************************************************************)
EXTENDS Gateway, SequenceTheorems, FiniteSetTheorems, WellFoundedInduction, TLAPS

Asked == [entry : Orchestrators, targets : TargetLists]

Handlers ==
  [at : Orchestrators, targets : Seq(Msps), localOnly : BOOLEAN,
   stage : {"arrived", "route", "calling"}, todo : Seq(Msps),
   visited : SUBSET Msps, contacts : Seq(Orchestrators)]

\* Every configured contact of the organization was called.
Tried(t) == ToSet(Static[t]) \subseteq asked

\* The client's handler: what it has visited was tried, and what it has not
\* visited is still to do.
Searching(h) ==
  /\ h.at = request.entry /\ h.targets = request.targets
  /\ ToSet(h.todo) \subseteq ToSet(request.targets)
  /\ h.stage = "arrived" => h.visited = {}
  /\ h.stage = "route" => \A t \in h.visited : Tried(t)
  /\ h.stage = "calling" =>
       /\ h.todo # <<>>
       /\ Head(h.todo) \in h.visited
       /\ \A t \in h.visited : t = Head(h.todo) \/ Tried(t)
       /\ ToSet(Static[Head(h.todo)]) \subseteq asked \cup ToSet(h.contacts)
  /\ h.stage # "arrived" =>
       ToSet(request.targets) \subseteq ToSet(h.todo) \cup h.visited

\* A handler that was forwarded to: for one organization, and no further.
Restricted(g) ==
  /\ g \in Handlers
  /\ g.stage = "arrived" /\ g.localOnly
  /\ \E t \in ToSet(request.targets) : g.targets = <<t>>

\* Where the proposal may run.
Allowed(p) ==
  IF request.targets = <<>> THEN p = request.entry
  ELSE Contains(request.targets, Org[p])

Waiting ==
  /\ calls \in Seq(Handlers)
  /\ Len(calls) <= 2
  /\ Len(calls) >= 1 => Searching(calls[1])
  /\ Len(calls) = 2 => calls[1].stage = "calling" /\ Restricted(calls[2]) /\ reply = Nothing
  /\ calls # <<>> /\ reply # Nothing => calls[1].stage = "calling"
  /\ \A g \in orphans : Restricted(g)

Answered ==
  /\ reply = Nothing \/ reply \in Replies
  /\ calls = <<>> => reply # Nothing
  /\ heard \in Seq(Replies)
  /\ calls # <<>> => \A i \in 1..Len(heard) : heard[i] \in Retryable

Started ==
  /\ request \in Asked
  /\ Waiting
  /\ Answered
  /\ \A p \in ran : Allowed(p)
  /\ FirstAnswerCounts

RInv == (request = Nothing /\ RoutingInit) \/ (request # Nothing /\ Started)

(* Sequences of one and two.                                               *)

LEMMA One ==
  ASSUME NEW S, NEW h \in S
  PROVE  /\ <<h>> \in Seq(S) /\ Len(<<h>>) = 1 /\ <<h>>[1] = h /\ <<h>> # <<>>
         /\ Front(<<h>>) = <<>> /\ Last(<<h>>) = h
         /\ ToSet(<<h>>) = {h}
         /\ \A x : Append(Front(<<h>>), x) = <<x>>
<1>1. <<h>> \in Seq(S) /\ Len(<<h>>) = 1 /\ <<h>>[1] = h /\ <<h>> # <<>>
  OBVIOUS
<1>2. Front(<<h>>) = <<>>
  BY <1>1, SubSeqEmpty DEF Front
<1>3. Last(<<h>>) = h
  BY <1>1 DEF Last
<1>4. ToSet(<<h>>) = {h}
  BY DEF ToSet
<1>5. \A x : Append(<<>>, x) = <<x>>
  OBVIOUS
<1>. QED  BY <1>1, <1>2, <1>3, <1>4, <1>5

LEMMA Two ==
  ASSUME NEW S, NEW h \in S, NEW g \in S
  PROVE  /\ <<h, g>> \in Seq(S) /\ Len(<<h, g>>) = 2 /\ <<h, g>> # <<>>
         /\ <<h, g>>[1] = h /\ <<h, g>>[2] = g
         /\ Front(<<h, g>>) = <<h>> /\ Last(<<h, g>>) = g
<1>1. /\ <<h, g>> \in Seq(S) /\ Len(<<h, g>>) = 2 /\ <<h, g>> # <<>>
      /\ <<h, g>>[1] = h /\ <<h, g>>[2] = g
  OBVIOUS
<1>2. PICK s \in Seq(S) : s = <<h, g>>
  BY <1>1
<1>3. /\ SubSeq(s, 1, 1) \in Seq(S) /\ Len(SubSeq(s, 1, 1)) = 1
      /\ SubSeq(s, 1, 1)[1] = s[1]
  BY <1>1, <1>2, SubSeqProperties
<1>4. SubSeq(s, 1, 1) = <<h>>
  <2>1. <<h>> \in Seq(S) /\ Len(<<h>>) = 1 /\ <<h>>[1] = h
    BY One
  <2>2. \A i \in 1..1 : SubSeq(s, 1, 1)[i] = <<h>>[i]
    BY <1>1, <1>2, <1>3, <2>1
  <2>. QED  BY <1>3, <2>1, <2>2, SeqEqual
<1>5. Front(<<h, g>>) = <<h>>
  BY <1>1, <1>2, <1>4 DEF Front
<1>. QED  BY <1>1, <1>5 DEF Last

LEMMA IsOne ==
  ASSUME NEW S, NEW s \in Seq(S), Len(s) = 1
  PROVE  s[1] \in S /\ s = <<s[1]>>
<1>1. s[1] \in S
  BY ElementOfSeq
<1>. QED  BY <1>1, One, SeqEqual

LEMMA IsTwo ==
  ASSUME NEW S, NEW s \in Seq(S), Len(s) = 2
  PROVE  s[1] \in S /\ s[2] \in S /\ s = <<s[1], s[2]>>
<1>1. s[1] \in S /\ s[2] \in S
  BY ElementOfSeq
<1>2. \A i \in 1..2 : s[i] = <<s[1], s[2]>>[i]
  BY <1>1
<1>. QED  BY <1>1, <1>2, Two, SeqEqual

LEMMA HeadAndTail ==
  ASSUME NEW S, NEW s \in Seq(S), s # <<>>
  PROVE  /\ Head(s) \in S /\ Tail(s) \in Seq(S)
         /\ ToSet(s) = {Head(s)} \cup ToSet(Tail(s))
<1>1. /\ Head(s) \in S /\ Tail(s) \in Seq(S) /\ Len(Tail(s)) = Len(s) - 1
      /\ \A i \in 1..Len(Tail(s)) : Tail(s)[i] = s[i + 1]
  BY HeadTailProperties
<1>2. Len(s) \in Nat /\ Len(s) > 0 /\ DOMAIN s = 1..Len(s) /\ Head(s) = s[1]
  BY EmptySeq, LenProperties
<1>3. DOMAIN Tail(s) = 1..(Len(s) - 1)
  BY <1>1, LenProperties
<1>4. ASSUME NEW x \in ToSet(s) PROVE x \in {Head(s)} \cup ToSet(Tail(s))
  <2>1. PICK i \in 1..Len(s) : x = s[i]
    BY <1>2 DEF ToSet
  <2>2. CASE i = 1
    BY <1>2, <2>1, <2>2
  <2>3. CASE i # 1
    <3>1. (i - 1) \in 1..(Len(s) - 1) /\ (i - 1) + 1 = i
      BY <1>2, <2>3
    <3>2. Tail(s)[i - 1] = x
      BY <1>1, <2>1, <3>1
    <3>. QED  BY <1>3, <3>1, <3>2 DEF ToSet
  <2>. QED  BY <2>2, <2>3
<1>5. ASSUME NEW x \in {Head(s)} \cup ToSet(Tail(s)) PROVE x \in ToSet(s)
  <2>1. CASE x = Head(s)
    BY <1>2, <2>1 DEF ToSet
  <2>2. CASE x \in ToSet(Tail(s))
    <3>1. PICK i \in 1..(Len(s) - 1) : x = Tail(s)[i]
      BY <1>3, <2>2 DEF ToSet
    <3>2. x = s[i + 1] /\ i + 1 \in 1..Len(s)
      BY <1>1, <1>2, <3>1
    <3>. QED  BY <1>2, <3>2 DEF ToSet
  <2>. QED  BY <2>1, <2>2
<1>. QED  BY <1>1, <1>4, <1>5

LEMMA NoElements == ToSet(<<>>) = {}
BY DEF ToSet

LEMMA ContainsIsMember ==
  ASSUME NEW S, NEW s \in Seq(S), NEW e
  PROVE  Contains(s, e) <=> e \in ToSet(s)
<1>1. DOMAIN s = 1..Len(s)
  BY LenProperties
<1>. QED  BY <1>1 DEF Contains, ToSet

(* The contacts of an organization.                                        *)
LEMMA ContactsTyped ==
  ASSUME WellConfigured, NEW t \in Msps, NEW cs \in ContactLists(t)
  PROVE  /\ cs \in Seq(Orchestrators)
         /\ cs = Static[t] \/ Static[t] = <<>>
<1>1. CASE Static[t] # <<>>
  BY <1>1 DEF ContactLists, WellConfigured
<1>2. CASE Static[t] = <<>>
  <2>1. cs = <<>> \/ \E s \in SUBSET Located[t] : cs \in SetToSeqs(s)
    BY <1>2 DEF ContactLists, DynamicResolve, Candidates, SetToAllKPermutations
  <2>2. ASSUME NEW s \in SUBSET Located[t], cs \in SetToSeqs(s)
        PROVE  cs \in Seq(Orchestrators)
    <3>1. IsFiniteSet(s) /\ s \subseteq Orchestrators
      BY FS_Subset DEF WellConfigured
    <3>2. Cardinality(s) \in Nat
      BY <3>1, FS_CardinalityType
    <3>3. cs \in [1..Cardinality(s) -> s]
      BY <2>2 DEF SetToSeqs
    <3>4. cs \in [1..Cardinality(s) -> Orchestrators]
      BY <3>1, <3>3
    <3>. QED  BY <3>2, <3>4, SeqDef
  <2>3. <<>> \in Seq(Orchestrators)
    BY EmptySeq
  <2>. QED  BY <1>2, <2>1, <2>2, <2>3
<1>. QED  BY <1>1, <1>2

(* The handlers as the steps see them.                                     *)

LEMMA Shapes ==
  ASSUME Started
  PROVE  \/ calls = <<>>
         \/ \E h \in Handlers :
              calls = <<h>> /\ Searching(h) /\ (reply # Nothing => h.stage = "calling")
         \/ \E h, g \in Handlers :
              /\ calls = <<h, g>> /\ Searching(h) /\ h.stage = "calling"
              /\ Restricted(g) /\ reply = Nothing
<1>1. calls \in Seq(Handlers) /\ Len(calls) <= 2 /\ Len(calls) \in Nat
  BY LenProperties DEF Started, Waiting
<1>2. CASE Len(calls) = 0
  BY <1>1, <1>2, EmptySeq
<1>3. CASE Len(calls) = 1
  <2>1. calls[1] \in Handlers /\ calls = <<calls[1]>>
    BY <1>1, <1>3, IsOne
  <2>2. calls # <<>>
    BY <1>3, EmptySeq
  <2>3. PICK h \in Handlers : h = calls[1]
    BY <2>1
  <2>4. calls = <<h>> /\ Searching(h) /\ (reply # Nothing => h.stage = "calling")
    BY <1>3, <2>1, <2>2, <2>3 DEF Started, Waiting
  <2>. QED  BY <2>4
<1>4. CASE Len(calls) = 2
  <2>1. calls[1] \in Handlers /\ calls[2] \in Handlers /\ calls = <<calls[1], calls[2]>>
    BY <1>1, <1>4, IsTwo
  <2>2. PICK h \in Handlers, g \in Handlers : h = calls[1] /\ g = calls[2]
    BY <2>1
  <2>3. /\ calls = <<h, g>> /\ Searching(h) /\ h.stage = "calling"
        /\ Restricted(g) /\ reply = Nothing
    BY <1>4, <2>1, <2>2 DEF Started, Waiting
  <2>. QED  BY <2>3
<1>5. Len(calls) \in {0, 1, 2}
  <2>1. \A n \in Nat : n <= 2 => n \in {0, 1, 2}
    OBVIOUS
  <2>. QED  BY <1>1, <2>1, Zenon
<1>. QED  BY <1>2, <1>3, <1>4, <1>5

\* What is asked of the client's handler survives more calls being made.
LEMMA SearchStays ==
  ASSUME NEW h, Searching(h), request' = request, asked \subseteq asked'
  PROVE  Searching(h)'
BY DEF Searching, Tried

LEMMA RestrictedStays ==
  ASSUME NEW g, Restricted(g), request' = request
  PROVE  Restricted(g)'
BY DEF Restricted

LEMMA OrphansStay ==
  ASSUME Started, request' = request, orphans' \subseteq orphans
  PROVE  \A g \in orphans' : Restricted(g)'
BY RestrictedStays DEF Started, Waiting

LEMMA WaitsAlone ==
  ASSUME NEW h \in Handlers, calls' = <<h>>, Searching(h)',
         reply' # Nothing => h.stage = "calling",
         \A g \in orphans' : Restricted(g)'
  PROVE  Waiting'
<1>1. calls' \in Seq(Handlers) /\ Len(calls') = 1 /\ calls'[1] = h
  BY One
<1>. QED  BY <1>1 DEF Waiting

LEMMA WaitsForOther ==
  ASSUME NEW h \in Handlers, NEW g \in Handlers, calls' = <<h, g>>, Searching(h)',
         h.stage = "calling", Restricted(g)', reply' = Nothing,
         \A o \in orphans' : Restricted(o)'
  PROVE  Waiting'
<1>1. calls' \in Seq(Handlers) /\ Len(calls') = 2 /\ calls'[1] = h /\ calls'[2] = g
  BY Two
<1>. QED  BY <1>1 DEF Waiting

LEMMA NobodyWaits ==
  ASSUME calls' = <<>>, \A g \in orphans' : Restricted(g)'
  PROVE  Waiting'
<1>1. calls' \in Seq(Handlers) /\ Len(calls') = 0
  BY EmptySeq
<1>. QED  BY <1>1 DEF Waiting

\* The client's handler alone, and with the one it called.
Alone(h) ==
  /\ h \in Handlers /\ calls = <<h>> /\ Searching(h)
  /\ reply # Nothing => h.stage = "calling"

Paired(h, g) ==
  /\ h \in Handlers /\ g \in Handlers /\ calls = <<h, g>>
  /\ Searching(h) /\ h.stage = "calling" /\ Restricted(g) /\ reply = Nothing

LEMMA TopAlone ==
  ASSUME NEW h, Alone(h)
  PROVE  /\ Top = h /\ Front(calls) = <<>> /\ calls # <<>> /\ Len(calls) = 1
         /\ \A x : Becomes(x) => calls' = <<x>>
         /\ \A c : Answer(c) => calls' = <<>> /\ reply' = c
BY One DEF Alone, Top, Becomes, Answer

LEMMA TopPaired ==
  ASSUME NEW h, NEW g, Paired(h, g)
  PROVE  /\ Top = g /\ Front(calls) = <<h>> /\ calls # <<>> /\ Len(calls) = 2
         /\ \A c : Answer(c) => calls' = <<h>> /\ reply' = c
BY Two DEF Paired, Top, Answer

\* While somebody waits, every answer heard was a reason to go on.
LEMMA StillOpen ==
  ASSUME calls' # <<>>, heard' \in Seq(Replies),
         \A i \in 1..Len(heard') : heard'[i] \in Retryable,
         reply' = Nothing \/ reply' \in Replies
  PROVE  Answered' /\ FirstAnswerCounts'
<1>1. DOMAIN heard' = 1..Len(heard')
  BY LenProperties
<1>2. FirstAnswerCounts'
  BY <1>1 DEF FirstAnswerCounts
<1>3. Answered'
  BY DEF Answered
<1>. QED  BY <1>2, <1>3

\* A reply to the client that needs no more than what was tried.
Founded ==
  reply' = "unavailable" =>
    \/ request.targets = <<>>
    \/ Contains(request.targets, Org[request.entry])
    \/ \A t \in ToSet(request.targets) : Tried(t)

LEMMA ReturnsToClient ==
  ASSUME WellConfigured, Started, NEW h, Alone(h), UNCHANGED <<request, asked, heard, orphans>>,
         calls' = <<>>, reply' \in Replies, Founded, \A p \in ran' : Allowed(p)
  PROVE  Started'
<1>1. Waiting'
  BY OrphansStay, NobodyWaits
<1>2. heard \in Seq(Replies) /\ (\A i \in 1..Len(heard) : heard[i] \in Retryable)
  BY TopAlone DEF Started, Answered
<1>3. Answered'
  BY <1>2 DEF Answered, WellConfigured
<1>4. FirstAnswerCounts'
  <2>1. \A i \in DOMAIN heard : heard[i] \in Retryable
    BY <1>2, LenProperties
  <2>2. \A i \in DOMAIN request.targets : request.targets[i] \in ToSet(request.targets)
    BY DEF ToSet
  <2>3. reply' = "unavailable" /\ request.targets # <<>>
          /\ ~Contains(request.targets, Org[request.entry]) =>
          \A i \in DOMAIN request.targets : ToSet(Static[request.targets[i]]) \subseteq asked
    BY <2>2 DEF Founded, Tried
  <2>. QED  BY <2>1, <2>3 DEF FirstAnswerCounts
<1>5. request' \in Asked /\ \A p \in ran' : Allowed(p)'
  BY DEF Started, Allowed
<1>. QED  BY <1>1, <1>3, <1>4, <1>5 DEF Started

LEMMA ReturnsToHandler ==
  ASSUME WellConfigured, Started, NEW h, NEW g, Paired(h, g),
         UNCHANGED <<request, asked, heard>>, calls' = <<h>>, reply' \in Replies,
         orphans' \subseteq orphans \cup {g}, \A p \in ran' : Allowed(p)
  PROVE  Started'
<1>1. \A o \in orphans' : Restricted(o)'
  BY RestrictedStays DEF Started, Waiting, Paired
<1>2. Searching(h)' /\ h \in Handlers /\ h.stage = "calling"
  BY SearchStays DEF Paired
<1>3. Waiting'
  BY <1>1, <1>2, WaitsAlone
<1>4. heard \in Seq(Replies) /\ (\A i \in 1..Len(heard) : heard[i] \in Retryable)
  BY TopPaired DEF Started, Answered
<1>5. calls' # <<>>
  BY <1>2, One
<1>6. Answered' /\ FirstAnswerCounts'
  BY <1>4, <1>5, StillOpen
<1>7. request' \in Asked /\ \A p \in ran' : Allowed(p)'
  BY DEF Started, Allowed
<1>. QED  BY <1>3, <1>6, <1>7 DEF Started

\* The client's handler goes on with its search.
LEMMA GoesOn ==
  ASSUME WellConfigured, Started, NEW h, Alone(h), NEW n \in Handlers, calls' = <<n>>,
         Searching(n)', UNCHANGED <<request, orphans, ran>>, reply' = Nothing,
         heard' \in Seq(Replies), \A i \in 1..Len(heard') : heard'[i] \in Retryable
  PROVE  Started'
<1>1. Waiting'
  BY OrphansStay, WaitsAlone
<1>2. calls' # <<>>
  BY One
<1>3. Answered' /\ FirstAnswerCounts'
  BY <1>2, StillOpen
<1>4. request' \in Asked /\ \A p \in ran' : Allowed(p)'
  BY DEF Started, Allowed
<1>. QED  BY <1>1, <1>3, <1>4 DEF Started

\* Who may run a proposal.
LEMMA SearchingRuns ==
  ASSUME NEW h, Searching(h), Runs(h)
  PROVE  /\ Allowed(h.at)
         /\ request.targets = <<>> \/ Contains(request.targets, Org[request.entry])
BY DEF Searching, Runs, Allowed

LEMMA RestrictedRuns ==
  ASSUME WellConfigured, request \in Asked, NEW g, Restricted(g), Runs(g)
  PROVE  Allowed(g.at)
<1>1. PICK t \in ToSet(request.targets) : g.targets = <<t>>
  BY DEF Restricted
<1>2. request.targets \in Seq(Msps)
  BY DEF WellConfigured, Asked
<1>3. <<t>> # <<>> /\ request.targets # <<>>
  BY <1>1, One, NoElements
<1>4. Contains(<<t>>, Org[g.at])
  BY <1>1, <1>3 DEF Runs
<1>5. Org[g.at] = t
  BY <1>4 DEF Contains
<1>6. Contains(request.targets, t)
  BY <1>2, ContainsIsMember
<1>. QED  BY <1>3, <1>5, <1>6 DEF Allowed

(* The steps.                                                              *)

\* Evaluate, and every answer the client gets without asking others, or after
\* asking them all.
LEMMA AnswersAlone ==
  ASSUME WellConfigured, Started, NEW h, Alone(h),
         Reject \/ RunLocal \/ RefuseForwarded \/ Exhausted \/ Expire
  PROVE  Started'
<1>1. Top = h
  BY TopAlone
<1>2. UNCHANGED <<request, asked, heard, orphans>>
  BY DEF Reject, RunLocal, RefuseForwarded, Exhausted, Expire
<1>3. PICK code \in Replies : Answer(code)
  BY DEF Reject, RunLocal, RefuseForwarded, Exhausted, Expire, Replies, Retryable
<1>4. calls' = <<>> /\ reply' = code
  BY <1>3, TopAlone
<1>5. \A p \in ran' : Allowed(p)
  <2>1. CASE RunLocal
    <3>1. Runs(h) /\ (ran' = ran \cup {h.at} \/ ran' = ran)
      BY <1>1, <2>1 DEF RunLocal
    <3>2. Allowed(h.at)
      BY <3>1, SearchingRuns DEF Alone
    <3>. QED  BY <3>1, <3>2 DEF Started
  <2>2. CASE Reject \/ RefuseForwarded \/ Exhausted \/ Expire
    BY <2>2 DEF Reject, RefuseForwarded, Exhausted, Expire, Started
  <2>. QED  BY <2>1, <2>2
<1>6. Founded
  <2>1. CASE RunLocal
    BY <1>1, <2>1, SearchingRuns DEF RunLocal, Alone, Founded
  <2>2. CASE Exhausted
    <3>1. h.stage = "route" /\ h.todo = <<>>
      BY <1>1, <2>2 DEF Exhausted, At
    <3>2. \A t \in ToSet(request.targets) : t \in h.visited
      BY <3>1, NoElements DEF Alone, Searching
    <3>. QED  BY <3>1, <3>2 DEF Alone, Searching, Founded
  <2>3. CASE Reject \/ RefuseForwarded \/ Expire
    BY <2>3 DEF Reject, RefuseForwarded, Expire, Answer, Founded
  <2>. QED  BY <2>1, <2>2, <2>3
<1>. QED  BY <1>2, <1>4, <1>5, <1>6, ReturnsToClient

\* What a forwarded request does: it answers its caller.
LEMMA AnswersPaired ==
  ASSUME WellConfigured, Started, NEW h, NEW g, Paired(h, g),
         Reject \/ RunLocal \/ RefuseForwarded \/ Lose
  PROVE  Started'
<1>1. Top = g /\ Restricted(g)
  BY TopPaired DEF Paired
<1>2. UNCHANGED <<request, asked, heard>> /\ orphans' \subseteq orphans \cup {g}
  BY <1>1 DEF Reject, RunLocal, RefuseForwarded, Lose
<1>3. calls' = <<h>> /\ reply' \in Replies
  <2>1. CASE Lose
    BY <2>1, TopPaired DEF Lose, Replies, Retryable
  <2>2. CASE Reject \/ RunLocal \/ RefuseForwarded
    <3>1. PICK code \in Replies : Answer(code)
      BY <2>2 DEF Reject, RunLocal, RefuseForwarded, Replies, Retryable
    <3>. QED  BY <3>1, TopPaired
  <2>. QED  BY <2>1, <2>2
<1>4. \A p \in ran' : Allowed(p)
  <2>1. CASE RunLocal
    <3>1. Runs(g) /\ (ran' = ran \cup {g.at} \/ ran' = ran)
      BY <1>1, <2>1 DEF RunLocal
    <3>2. Allowed(g.at)
      BY <1>1, <3>1, RestrictedRuns DEF Started
    <3>. QED  BY <3>1, <3>2 DEF Started
  <2>2. CASE Reject \/ RefuseForwarded \/ Lose
    BY <2>2 DEF Reject, RefuseForwarded, Lose, Started
  <2>. QED  BY <2>1, <2>2
<1>. QED  BY <1>2, <1>3, <1>4, ReturnsToHandler

\* A forwarded request is not routed further.
LEMMA NoSecondHop ==
  ASSUME NEW h, NEW g, Paired(h, g)
  PROVE  ~(\/ StartRouting \/ NextTarget \/ Forward \/ TargetDone \/ Exhausted
           \/ Expire \/ TakeReply)
<1>1. Top = g /\ g.stage = "arrived" /\ g.localOnly /\ reply = Nothing
  BY TopPaired DEF Paired, Restricted
<1>. QED  BY <1>1 DEF StartRouting, NextTarget, Forward, TargetDone, Exhausted,
                      Expire, TakeReply, At

\* What was heard while the client's handler is alone.
LEMMA OpenAlone ==
  ASSUME Started, NEW h, Alone(h)
  PROVE  heard \in Seq(Replies) /\ \A i \in 1..Len(heard) : heard[i] \in Retryable
BY TopAlone DEF Started, Answered

\* The client's handler turns to the next organization.
LEMMA RoutesAlone ==
  ASSUME WellConfigured, Started, NEW h, Alone(h), StartRouting \/ NextTarget \/ TargetDone
  PROVE  Started'
<1>1. Top = h /\ h \in Handlers /\ Searching(h) /\ (\A x : Becomes(x) => calls' = <<x>>)
  BY TopAlone DEF Alone
<1>2. UNCHANGED <<request, orphans, ran, asked, heard>> /\ reply' = Nothing
  BY DEF StartRouting, NextTarget, TargetDone, At
<1>3. request.targets \in Seq(Msps)
  BY DEF Started, Asked, WellConfigured
<1>4. SUFFICES \E n \in Handlers : calls' = <<n>> /\ Searching(n)
  BY <1>2, GoesOn, OpenAlone, SearchStays
<1>5. CASE StartRouting
  <2>1. h.stage = "arrived" /\ Becomes([h EXCEPT !.stage = "route", !.todo = h.targets])
    BY <1>1, <1>5 DEF StartRouting, At
  <2>. DEFINE n == [h EXCEPT !.stage = "route", !.todo = h.targets]
  <2>2. n \in Handlers
    BY <1>1 DEF Handlers
  <2>3. /\ n.at = h.at /\ n.targets = h.targets /\ n.stage = "route"
        /\ n.todo = h.targets /\ n.visited = h.visited
    BY <1>1 DEF Handlers
  <2>4. Searching(n)
    BY <1>1, <2>1, <2>3 DEF Searching
  <2>. QED  BY <1>1, <2>1, <2>2, <2>4
<1>6. CASE NextTarget
  <2>. DEFINE t == Head(h.todo)
              seen == [h EXCEPT !.visited = @ \cup {t}]
              skip == [h EXCEPT !.todo = Tail(@)]
              pass == [seen EXCEPT !.todo = Tail(@)]
              try(cs) == [seen EXCEPT !.stage = "calling", !.contacts = cs]
  <2>1. h.stage = "route" /\ h.todo # <<>>
    BY <1>1, <1>6 DEF NextTarget, At
  <2>2. /\ t \in Msps /\ Tail(h.todo) \in Seq(Msps)
        /\ ToSet(h.todo) = {t} \cup ToSet(Tail(h.todo))
    BY <1>1, <2>1, HeadAndTail DEF Handlers
  <2>3. \/ t \in h.visited /\ Becomes(skip)
        \/ \E cs \in ContactLists(t) : Becomes(IF cs = <<>> THEN pass ELSE try(cs))
    BY <1>1, <1>6 DEF NextTarget
  <2>4. CASE t \in h.visited /\ Becomes(skip)
    <3>1. skip \in Handlers
      BY <1>1, <2>2 DEF Handlers
    <3>2. /\ skip.at = h.at /\ skip.targets = h.targets /\ skip.stage = "route"
          /\ skip.todo = Tail(h.todo) /\ skip.visited = h.visited
      BY <1>1, <2>1 DEF Handlers
    <3>3. Searching(skip)
      BY <1>1, <2>1, <2>2, <2>4, <3>2 DEF Searching
    <3>. QED  BY <1>1, <2>4, <3>1, <3>3
  <2>5. ASSUME NEW cs \in ContactLists(t), Becomes(IF cs = <<>> THEN pass ELSE try(cs))
        PROVE  \E n \in Handlers : calls' = <<n>> /\ Searching(n)
    <3>1. cs \in Seq(Orchestrators) /\ (cs = Static[t] \/ Static[t] = <<>>)
      BY <2>2, ContactsTyped
    <3>2. CASE cs = <<>>
      <4>1. pass \in Handlers
        BY <1>1, <2>2 DEF Handlers
      <4>2. /\ pass.at = h.at /\ pass.targets = h.targets /\ pass.stage = "route"
            /\ pass.todo = Tail(h.todo) /\ pass.visited = h.visited \cup {t}
        BY <1>1, <2>1 DEF Handlers
      <4>3. Tried(t)
        BY <3>1, <3>2, NoElements DEF Tried
      <4>4. Searching(pass)
        BY <1>1, <2>1, <2>2, <4>2, <4>3 DEF Searching
      <4>. QED  BY <1>1, <2>5, <3>2, <4>1, <4>4
    <3>3. CASE cs # <<>>
      <4>1. try(cs) \in Handlers
        BY <1>1, <2>2, <3>1 DEF Handlers
      <4>2. /\ try(cs).at = h.at /\ try(cs).targets = h.targets
            /\ try(cs).stage = "calling" /\ try(cs).contacts = cs
            /\ try(cs).todo = h.todo /\ try(cs).visited = h.visited \cup {t}
        BY <1>1 DEF Handlers
      <4>3. ToSet(Static[t]) \subseteq asked \cup ToSet(cs)
        BY <3>1, NoElements
      <4>4. Searching(try(cs))
        BY <1>1, <2>1, <2>2, <4>2, <4>3 DEF Searching
      <4>. QED  BY <1>1, <2>5, <3>3, <4>1, <4>4
    <3>. QED  BY <3>2, <3>3
  <2>. QED  BY <2>3, <2>4, <2>5
<1>7. CASE TargetDone
  <2>. DEFINE n == [h EXCEPT !.stage = "route", !.todo = Tail(@)]
  <2>1. h.stage = "calling" /\ h.contacts = <<>> /\ Becomes(n)
    BY <1>1, <1>7 DEF TargetDone, At
  <2>2. /\ Tail(h.todo) \in Seq(Msps)
        /\ ToSet(h.todo) = {Head(h.todo)} \cup ToSet(Tail(h.todo))
    BY <1>1, <2>1, HeadAndTail DEF Handlers, Searching
  <2>3. n \in Handlers
    BY <1>1, <2>2 DEF Handlers
  <2>4. /\ n.at = h.at /\ n.targets = h.targets /\ n.stage = "route"
        /\ n.todo = Tail(h.todo) /\ n.visited = h.visited
    BY <1>1 DEF Handlers
  <2>5. Tried(Head(h.todo)) /\ Head(h.todo) \in h.visited
    BY <1>1, <2>1, NoElements DEF Searching, Tried
  <2>6. Searching(n)
    BY <1>1, <2>1, <2>2, <2>4, <2>5 DEF Searching
  <2>. QED  BY <1>1, <2>1, <2>3, <2>6
<1>. QED  BY <1>5, <1>6, <1>7

\* The client's handler calls a contact.
LEMMA ForwardsAlone ==
  ASSUME WellConfigured, Started, NEW h, Alone(h), Forward
  PROVE  Started'
<1>. DEFINE n == [h EXCEPT !.contacts = Tail(@)]
            g == Forwarded(h)
<1>1. Top = h /\ h \in Handlers /\ Searching(h) /\ Len(calls) = 1 /\ calls = <<h>>
  BY TopAlone DEF Alone
<1>2. /\ h.stage = "calling" /\ h.contacts # <<>> /\ reply = Nothing
      /\ calls' = Front(calls) \o <<n, g>> /\ asked' = asked \cup {Head(h.contacts)}
      /\ UNCHANGED <<request, orphans, reply, ran, heard>>
  BY <1>1 DEF Forward, At
<1>3. calls' = <<n, g>>
  <2>1. Front(calls) = <<>>
    BY TopAlone
  <2>2. \A x, y : <<>> \o <<x, y>> = <<x, y>>
    OBVIOUS
  <2>3. calls' = <<>> \o <<n, g>>
    BY <1>2, <2>1, Zenon
  <2>4. <<>> \o <<n, g>> = <<n, g>>
    BY <2>2, Zenon
  <2>. QED  BY <2>3, <2>4, Zenon
<1>4. /\ Head(h.contacts) \in Orchestrators /\ Tail(h.contacts) \in Seq(Orchestrators)
      /\ ToSet(h.contacts) = {Head(h.contacts)} \cup ToSet(Tail(h.contacts))
  BY <1>1, <1>2, HeadAndTail DEF Handlers
<1>5. /\ Head(h.todo) \in Msps
      /\ ToSet(h.todo) = {Head(h.todo)} \cup ToSet(Tail(h.todo))
  BY <1>1, <1>2, HeadAndTail DEF Handlers, Searching
<1>6. n \in Handlers
  BY <1>1, <1>4 DEF Handlers
<1>7. /\ n.at = h.at /\ n.targets = h.targets /\ n.stage = "calling"
      /\ n.todo = h.todo /\ n.visited = h.visited /\ n.contacts = Tail(h.contacts)
  BY <1>1, <1>2 DEF Handlers
<1>8. Searching(n)'
  <2>1. Searching(h)'
    BY <1>1, <1>2, SearchStays
  <2>2. ToSet(Static[Head(h.todo)]) \subseteq asked' \cup ToSet(Tail(h.contacts))
    BY <1>1, <1>2, <1>4 DEF Searching
  <2>. QED  BY <1>2, <1>7, <2>1, <2>2 DEF Searching
<1>9. Restricted(g)'
  <2>1. <<Head(h.todo)>> \in Seq(Msps) /\ <<>> \in Seq(Msps) /\ <<>> \in Seq(Orchestrators)
    BY <1>5, One, EmptySeq
  <2>2. g \in Handlers
    BY <1>4, <2>1 DEF Forwarded, Handler, Handlers
  <2>3. Head(h.todo) \in ToSet(request.targets)
    BY <1>1, <1>5 DEF Searching
  <2>4. g.stage = "arrived" /\ g.localOnly /\ g.targets = <<Head(h.todo)>>
    BY DEF Forwarded, Handler
  <2>. QED  BY <1>2, <2>2, <2>3, <2>4 DEF Restricted
<1>10. g \in Handlers
  BY <1>9 DEF Restricted
<1>11. Waiting'
  BY <1>2, <1>3, <1>6, <1>7, <1>8, <1>9, <1>10, OrphansStay, WaitsForOther
<1>12. Answered' /\ FirstAnswerCounts'
  <2>1. calls' # <<>>
    BY <1>3, <1>6, <1>10, Two
  <2>. QED  BY <1>2, <2>1, OpenAlone, StillOpen
<1>13. request' \in Asked /\ \A p \in ran' : Allowed(p)'
  BY <1>2 DEF Started, Allowed
<1>. QED  BY <1>11, <1>12, <1>13 DEF Started

\* The client's handler takes a contact's reply: it goes on, or returns.
LEMMA TakesReplyAlone ==
  ASSUME WellConfigured, Started, NEW h, Alone(h), TakeReply
  PROVE  Started'
<1>1. h \in Handlers /\ Searching(h) /\ Len(calls) = 1 /\ calls = <<h>>
      /\ (\A c : Answer(c) => calls' = <<>> /\ reply' = c)
  BY TopAlone DEF Alone
<1>2. /\ reply # Nothing /\ heard' = Append(heard, reply)
      /\ UNCHANGED <<request, orphans, ran, asked>>
  BY <1>1 DEF TakeReply
<1>3. reply \in Replies
  BY <1>2 DEF Started, Answered
<1>4. heard \in Seq(Replies) /\ \A i \in 1..Len(heard) : heard[i] \in Retryable
  BY OpenAlone
<1>5. /\ heard' \in Seq(Replies) /\ Len(heard') = Len(heard) + 1
      /\ heard'[Len(heard) + 1] = reply /\ Len(heard) \in Nat
      /\ \A i \in 1..Len(heard) : heard'[i] = heard[i]
  BY <1>2, <1>3, <1>4, AppendProperties, LenProperties
<1>6. \A i \in 1..Len(heard') : i \in 1..Len(heard) \/ i = Len(heard) + 1
  BY <1>5
<1>7. CASE Retry(reply) /\ reply' = Nothing /\ UNCHANGED calls
  <2>1. \A i \in 1..Len(heard') : heard'[i] \in Retryable
    BY <1>4, <1>5, <1>6, <1>7 DEF Retry
  <2>2. Searching(h)'
    BY <1>1, <1>2, SearchStays
  <2>. QED  BY <1>1, <1>2, <1>5, <1>7, <2>1, <2>2, GoesOn
<1>8. CASE \/ ~Retry(reply) /\ Answer(reply)
           \/ reply = "ok" /\ Answer("refused")
           \/ reply # "ok" /\ Answer("expired")
  <2>1. /\ calls' = <<>> /\ reply' \in Replies /\ reply' # "unavailable"
        /\ reply' = "ok" => reply = "ok"
    BY <1>1, <1>3, <1>8 DEF Retry, Replies, Retryable
  <2>2. Waiting'
    BY <1>2, <2>1, OrphansStay, NobodyWaits
  <2>3. Answered'
    BY <1>5, <2>1 DEF Answered, WellConfigured
  <2>4. FirstAnswerCounts'
    <3>1. DOMAIN heard' = 1..Len(heard')
      BY <1>5, LenProperties
    <3>2. ASSUME NEW i \in DOMAIN heard', heard'[i] \notin Retryable
          PROVE  i = Len(heard') /\ heard'[i] = reply
      BY <1>4, <1>5, <1>6, <3>1, <3>2
    <3>. QED  BY <2>1, <3>2 DEF FirstAnswerCounts
  <2>5. request' \in Asked /\ \A p \in ran' : Allowed(p)'
    BY <1>2 DEF Started, Allowed
  <2>. QED  BY <2>2, <2>3, <2>4, <2>5 DEF Started
<1>. QED  BY <1>7, <1>8 DEF TakeReply

\* A handler nobody waits for ends, whoever still waits or returned.
LEMMA OrphanMayRun ==
  ASSUME WellConfigured, Started, NEW g \in orphans, OrphanEnds(g)
  PROVE  Started'
<1>1. /\ orphans' \subseteq orphans /\ UNCHANGED <<request, calls, reply, asked, heard>>
      /\ ran' = ran \/ (Runs(g) /\ ran' = ran \cup {g.at})
  BY DEF OrphanEnds
<1>2. Restricted(g) /\ request \in Asked
  BY DEF Started, Waiting
<1>3. \A p \in ran' : Allowed(p)
  BY <1>1, <1>2, RestrictedRuns DEF Started
<1>4. \A o \in orphans' : Restricted(o)'
  BY <1>1, OrphansStay
<1>5. \A h : Searching(h) => Searching(h)'
  BY <1>1, SearchStays
<1>6. Restricted(calls[2]) => Restricted(calls[2])'
  BY <1>1, RestrictedStays
<1>7. Waiting'
  BY <1>1, <1>4, <1>5, <1>6 DEF Started, Waiting
<1>8. Answered' /\ FirstAnswerCounts'
  BY <1>1 DEF Started, Answered, FirstAnswerCounts
<1>9. request' \in Asked /\ \A p \in ran' : Allowed(p)'
  BY <1>1, <1>3 DEF Started, Allowed
<1>. QED  BY <1>7, <1>8, <1>9 DEF Started

\* The client's call.
LEMMA StartsEvaluate ==
  ASSUME WellConfigured, RoutingInit, NEW p \in Orchestrators, NEW ts \in TargetLists,
         NEW restricted \in BOOLEAN, StartEvaluate(p, ts, restricted)
  PROVE  Started'
<1>. DEFINE h == Handler(p, ts, restricted)
<1>1. /\ request' = [entry |-> p, targets |-> ts] /\ calls' = <<h>>
      /\ orphans' = {} /\ reply' = Nothing /\ ran' = {} /\ asked' = {} /\ heard' = <<>>
  BY DEF RoutingInit, StartEvaluate
<1>2. request' \in Asked /\ request'.entry = p /\ request'.targets = ts
  BY <1>1 DEF Asked
<1>3. /\ ts \in Seq(Msps) /\ <<>> \in Seq(Msps) /\ <<>> \in Seq(Orchestrators)
      /\ <<>> \in Seq(Replies) /\ Len(<<>>) = 0
  BY EmptySeq DEF WellConfigured
<1>4. h \in Handlers
  BY <1>3 DEF Handler, Handlers
<1>5. Searching(h)'
  <2>1. /\ h.at = p /\ h.targets = ts /\ h.stage = "arrived" /\ h.todo = <<>>
        /\ h.visited = {}
    BY DEF Handler
  <2>. QED  BY <1>2, <2>1, NoElements DEF Searching
<1>6. Waiting'
  BY <1>1, <1>4, <1>5, WaitsAlone
<1>7. calls' # <<>>
  BY <1>1, <1>4, One
<1>8. Answered' /\ FirstAnswerCounts'
  BY <1>1, <1>3, <1>7, StillOpen
<1>. QED  BY <1>1, <1>2, <1>6, <1>8 DEF Started

LEMMA RInvInit == RoutingInit => RInv
BY DEF RoutingInit, RInv

LEMMA Unnamed ==
  ASSUME WellConfigured, Started'
  PROVE  RInv'
BY DEF WellConfigured, Started, Asked, RInv

\* Nothing is left to do for a client that was answered.
LEMMA Returned ==
  ASSUME calls = <<>>
  PROVE  ~(\/ Reject \/ RunLocal \/ RefuseForwarded \/ StartRouting \/ NextTarget
           \/ Forward \/ TargetDone \/ Exhausted \/ Expire \/ TakeReply \/ Lose)
<1>1. ~(Len(calls) > 1)
  BY EmptySeq
<1>. QED  BY <1>1 DEF Reject, RunLocal, RefuseForwarded, StartRouting, NextTarget, Forward,
                      TargetDone, Exhausted, Expire, TakeReply, Lose, At

LEMMA RInvNext ==
  ASSUME WellConfigured, RInv, [RoutingNext]_routing
  PROVE  RInv'
<1>1. CASE UNCHANGED routing
  BY <1>1 DEF routing, RInv, RoutingInit, Started, Waiting, Answered, FirstAnswerCounts, Searching,
              Restricted, Tried, Allowed
<1>2. CASE RoutingNext /\ request = Nothing
  <2>1. RoutingInit
    BY <1>2 DEF RInv
  <2>2. calls = <<>> /\ orphans = {}
    BY <2>1 DEF RoutingInit
  <2>3. \E p \in Orchestrators, ts \in TargetLists, restricted \in BOOLEAN :
          StartEvaluate(p, ts, restricted)
    BY <1>2, <2>2, Returned DEF RoutingNext
  <2>. QED  BY <2>1, <2>3, StartsEvaluate, Unnamed
<1>3. CASE RoutingNext /\ request # Nothing
  <2>1. Started
    BY <1>3 DEF RInv
  <2>2. SUFFICES Started'
    BY Unnamed
  <2>3. ASSUME NEW g \in orphans, OrphanEnds(g) PROVE Started'
    BY <2>1, <2>3, OrphanMayRun
  <2>4. CASE \/ Reject \/ RunLocal \/ RefuseForwarded \/ StartRouting \/ NextTarget
             \/ Forward \/ TargetDone \/ Exhausted \/ Expire \/ TakeReply \/ Lose
    <3>1. ASSUME NEW h \in Handlers, Alone(h) PROVE Started'
      <4>1. CASE Reject \/ RunLocal \/ RefuseForwarded \/ Exhausted \/ Expire
        BY <2>1, <3>1, <4>1, AnswersAlone
      <4>2. CASE StartRouting \/ NextTarget \/ TargetDone
        BY <2>1, <3>1, <4>2, RoutesAlone
      <4>3. CASE Forward
        BY <2>1, <3>1, <4>3, ForwardsAlone
      <4>4. CASE TakeReply
        BY <2>1, <3>1, <4>4, TakesReplyAlone
      <4>5. ~Lose
        <5>1. Len(calls) = 1
          BY <3>1, TopAlone
        <5>. QED  BY <5>1 DEF Lose
      <4>. QED  BY <2>4, <4>1, <4>2, <4>3, <4>4, <4>5
    <3>2. ASSUME NEW h \in Handlers, NEW g \in Handlers, Paired(h, g) PROVE Started'
      <4>1. CASE Reject \/ RunLocal \/ RefuseForwarded \/ Lose
        BY <2>1, <3>2, <4>1, AnswersPaired
      <4>. QED  BY <2>4, <3>2, <4>1, NoSecondHop
    <3>3. CASE calls = <<>>
      BY <2>4, <3>3, Returned
    <3>4. \/ calls = <<>>
          \/ \E h \in Handlers : Alone(h)
          \/ \E h, g \in Handlers : Paired(h, g)
      BY <2>1, Shapes DEF Alone, Paired
    <3>. QED  BY <3>1, <3>2, <3>3, <3>4
  <2>5. ASSUME NEW p \in Orchestrators, NEW ts \in TargetLists, NEW restricted \in BOOLEAN
        PROVE  ~StartEvaluate(p, ts, restricted)
    BY <1>3 DEF StartEvaluate
  <2>. QED  BY <1>3, <2>3, <2>4, <2>5 DEF RoutingNext
<1>. QED  BY <1>1, <1>2, <1>3

-----------------------------------------------------------------------------
(* Orders of signers.                                                      *)

\* A nonempty set of numbers has a least one.
LEMMA LeastNat ==
  ASSUME NEW T \in SUBSET Nat, T # {}
  PROVE  \E n \in T : \A m \in T : n <= m
<1>1. IsWellFoundedOn(OpToRel(<, Nat), Nat)
  BY NatLessThanWellFounded
<1>2. PICK n \in T : \A m \in T : ~(<<m, n>> \in OpToRel(<, Nat))
  BY <1>1, WFMin
<1>3. \A m \in T : ~(m < n)
  BY <1>2 DEF OpToRel
<1>. QED  BY <1>3

LEMMA CountTo ==
  ASSUME NEW n \in Nat
  PROVE  IsFiniteSet(1..n) /\ Cardinality(1..n) = n
<1>1. IsFiniteSet(1..n) /\ Cardinality(1..n) = IF 1 > n THEN 0 ELSE n - 1 + 1
  BY FS_Interval
<1>. QED  BY <1>1

LEMMA FunctionIsSeq ==
  ASSUME NEW S, NEW n \in Nat, NEW f \in [1..n -> S]
  PROVE  f \in Seq(S) /\ Len(f) = n
<1>1. f \in Seq(S)
  BY SeqDef
<1>2. DOMAIN f = 1..n /\ DOMAIN f = 1..Len(f) /\ Len(f) \in Nat
  BY <1>1, LenProperties
<1>3. Len(f) = n
  BY <1>2
<1>. QED  BY <1>1, <1>3

LEMMA RemovedAt ==
  ASSUME NEW S, NEW s \in Seq(S), NEW i \in 1..Len(s)
  PROVE  /\ RemoveAt(s, i) \in Seq(S)
         /\ Len(RemoveAt(s, i)) = Len(s) - 1
         /\ \A k \in 1..(Len(s) - 1) : RemoveAt(s, i)[k] = IF k < i THEN s[k] ELSE s[k + 1]
<1>1. Len(s) \in Nat /\ \A j \in 1..Len(s) : s[j] \in S
  BY LenProperties, ElementOfSeq
<1>. DEFINE a == SubSeq(s, 1, i - 1)
            b == SubSeq(s, i + 1, Len(s))
<1>2. /\ a \in Seq(S) /\ Len(a) = i - 1
      /\ \A k \in 1..(i - 1) : a[k] = s[k]
  <2>1. \A j \in 1..(i - 1) : s[j] \in S
    BY <1>1
  <2>2. /\ a \in Seq(S) /\ Len(a) = IF 1 <= i - 1 THEN (i - 1) - 1 + 1 ELSE 0
        /\ \A k \in 1..((i - 1) - 1 + 1) : a[k] = s[1 + k - 1]
    BY <1>1, <2>1, SubSeqProperties
  <2>. QED  BY <1>1, <2>2
<1>3. /\ b \in Seq(S) /\ Len(b) = Len(s) - i
      /\ \A k \in 1..(Len(s) - i) : b[k] = s[k + i]
  <2>1. \A j \in (i + 1)..Len(s) : s[j] \in S
    BY <1>1
  <2>2. /\ b \in Seq(S) /\ Len(b) = IF i + 1 <= Len(s) THEN Len(s) - (i + 1) + 1 ELSE 0
        /\ \A k \in 1..(Len(s) - (i + 1) + 1) : b[k] = s[(i + 1) + k - 1]
    BY <1>1, <2>1, SubSeqProperties
  <2>. QED  BY <1>1, <2>2
<1>. HIDE DEF a, b
<1>4. /\ a \o b \in Seq(S) /\ Len(a \o b) = Len(a) + Len(b)
      /\ \A k \in 1..(Len(a) + Len(b)) :
           (a \o b)[k] = IF k <= Len(a) THEN a[k] ELSE b[k - Len(a)]
  BY <1>2, <1>3, ConcatProperties
<1>5. Len(a) + Len(b) = Len(s) - 1
  BY <1>1, <1>2, <1>3
<1>6. ASSUME NEW k \in 1..(Len(s) - 1)
      PROVE  (a \o b)[k] = IF k < i THEN s[k] ELSE s[k + 1]
  <2>1. CASE k < i
    <3>1. k \in 1..(i - 1) /\ k <= Len(a) /\ k \in 1..(Len(a) + Len(b))
      BY <1>1, <1>2, <1>5, <2>1
    <3>. QED  BY <1>2, <1>4, <2>1, <3>1
  <2>2. CASE ~(k < i)
    <3>1. /\ k - Len(a) \in 1..(Len(s) - i) /\ ~(k <= Len(a)) /\ k \in 1..(Len(a) + Len(b))
          /\ (k - Len(a)) + i = k + 1
      BY <1>1, <1>2, <1>5, <2>2
    <3>. QED  BY <1>3, <1>4, <2>2, <3>1
  <2>. QED  BY <2>1, <2>2
<1>. QED  BY <1>4, <1>5, <1>6 DEF RemoveAt, a, b

LEMMA ListTyped ==
  ASSUME NEW ids \in ProfileLists
  PROVE  /\ ids \in Seq(SUBSET Principals) /\ Len(ids) \in 0..Cardinality(Signers)
         /\ Len(ids) \in Nat /\ DOMAIN ids = 1..Len(ids)
<1>1. PICK n \in 0..Cardinality(Signers) : ids \in [1..n -> SUBSET Principals]
  BY DEF ProfileLists
<1>2. Cardinality(Signers) \in Nat
  BY PolicyAssumption, FS_CardinalityType
<1>3. n \in Nat
  BY <1>2
<1>4. ids \in Seq(SUBSET Principals) /\ Len(ids) = n
  BY <1>1, <1>3, FunctionIsSeq
<1>. QED  BY <1>1, <1>3, <1>4

LEMMA IsList ==
  ASSUME NEW ids \in Seq(SUBSET Principals), Len(ids) <= Cardinality(Signers)
  PROVE  ids \in ProfileLists
<1>1. Len(ids) \in Nat /\ ids \in [1..Len(ids) -> SUBSET Principals]
  BY LenProperties
<1>2. Cardinality(Signers) \in Nat
  BY PolicyAssumption, FS_CardinalityType
<1>3. Len(ids) \in 0..Cardinality(Signers)
  BY <1>1, <1>2
<1>. QED  BY <1>1, <1>3 DEF ProfileLists

LEMMA OrderTyped ==
  ASSUME NEW ids \in ProfileLists, NEW o, IsOrder(o, ids)
  PROVE  /\ o \in Seq(1..Len(ids)) /\ Len(o) \in Nat /\ DOMAIN o = 1..Len(o)
         /\ \A i \in 1..Len(o) : o[i] \in 1..Len(ids)
         /\ \A i, j \in 1..Len(o) : o[i] = o[j] => i = j
         /\ Len(o) <= Len(ids)
<1>1. /\ o \in Seq(1..Len(ids)) /\ Len(o) \in Nat /\ DOMAIN o = 1..Len(o)
      /\ o \in [1..Len(o) -> 1..Len(ids)]
  BY ListTyped, LenProperties DEF IsOrder
<1>2. \A i, j \in 1..Len(o) : o[i] = o[j] => i = j
  BY <1>1 DEF IsOrder, IsInjective
<1>3. o \in Injection(1..Len(o), 1..Len(ids))
  BY <1>1, <1>2 DEF Injection, IsInjective
<1>4. /\ IsFiniteSet(1..Len(ids)) /\ Cardinality(1..Len(ids)) = Len(ids)
      /\ Cardinality(1..Len(o)) = Len(o)
  BY <1>1, ListTyped, CountTo
<1>5. Len(o) <= Len(ids)
  BY <1>3, <1>4, FS_Injection
<1>. QED  BY <1>1, <1>2, <1>5

LEMMA ChosenTyped ==
  ASSUME NEW ids \in ProfileLists, NEW o, IsOrder(o, ids)
  PROVE  /\ Chosen(ids, o) \in ProfileLists /\ Len(Chosen(ids, o)) = Len(o)
         /\ \A i \in 1..Len(o) : Chosen(ids, o)[i] = ids[o[i]]
<1>1. /\ Len(o) \in Nat /\ DOMAIN o = 1..Len(o) /\ Len(o) <= Len(ids)
      /\ \A i \in 1..Len(o) : o[i] \in 1..Len(ids)
  BY OrderTyped
<1>2. /\ \A i \in 1..Len(ids) : ids[i] \in SUBSET Principals
      /\ Len(ids) \in 0..Cardinality(Signers)
  BY ListTyped, ElementOfSeq
<1>3. Chosen(ids, o) \in [1..Len(o) -> SUBSET Principals]
  BY <1>1, <1>2 DEF Chosen
<1>4. Chosen(ids, o) \in Seq(SUBSET Principals) /\ Len(Chosen(ids, o)) = Len(o)
  BY <1>1, <1>3, FunctionIsSeq
<1>5. Len(o) <= Cardinality(Signers)
  <2>1. Cardinality(Signers) \in Nat
    BY PolicyAssumption, FS_CardinalityType
  <2>. QED  BY <1>1, <1>2, <2>1
<1>. QED  BY <1>1, <1>4, <1>5, IsList DEF Chosen

\* A signer is left out of an order.
LEMMA Dropped ==
  ASSUME NEW ids \in ProfileLists, NEW o, IsOrder(o, ids), NEW i \in 1..Len(o)
  PROVE  /\ IsOrder(RemoveAt(o, i), ids) /\ Len(RemoveAt(o, i)) = Len(o) - 1
         /\ Chosen(ids, RemoveAt(o, i)) = RemoveAt(Chosen(ids, o), i)
<1>. DEFINE q == RemoveAt(o, i)
            c == Chosen(ids, o)
<1>1. /\ o \in Seq(1..Len(ids)) /\ Len(o) \in Nat
      /\ \A j, k \in 1..Len(o) : o[j] = o[k] => j = k
  BY OrderTyped
<1>2. /\ q \in Seq(1..Len(ids)) /\ Len(q) = Len(o) - 1
      /\ \A k \in 1..(Len(o) - 1) : q[k] = IF k < i THEN o[k] ELSE o[k + 1]
  BY <1>1, RemovedAt
<1>. HIDE DEF q, c
<1>3. DOMAIN q = 1..(Len(o) - 1)
  BY <1>2, LenProperties
<1>4. IsInjective(q)
  <2>1. \A j, k \in 1..(Len(o) - 1) : q[j] = q[k] => j = k
    <3>. SUFFICES ASSUME NEW j \in 1..(Len(o) - 1), NEW k \in 1..(Len(o) - 1), j < k
                  PROVE  q[j] # q[k]
      BY <1>1
    <3>1. /\ q[j] = o[j] \/ (q[j] = o[j + 1] /\ i <= j)
          /\ (q[k] = o[k] /\ k < i) \/ q[k] = o[k + 1]
      <4>1. /\ q[j] = IF j < i THEN o[j] ELSE o[j + 1]
            /\ q[k] = IF k < i THEN o[k] ELSE o[k + 1]
        BY <1>2
      <4>. QED  BY <4>1
    <3>2. j \in 1..Len(o) /\ k \in 1..Len(o) /\ j + 1 \in 1..Len(o) /\ k + 1 \in 1..Len(o)
      BY <1>1
    <3>3. o[j] # o[k] /\ o[j] # o[k + 1] /\ o[j + 1] # o[k + 1]
      BY <1>1, <3>2
    <3>. QED  BY <1>1, <3>1, <3>3
  <2>. QED  BY <1>3, <2>1 DEF IsInjective
<1>5. IsOrder(q, ids)
  BY <1>2, <1>4, ListTyped DEF IsOrder
<1>6. /\ c \in Seq(SUBSET Principals) /\ Len(c) = Len(o)
      /\ \A k \in 1..Len(o) : c[k] = ids[o[k]]
  BY ChosenTyped, ListTyped DEF c
<1>7. /\ RemoveAt(c, i) \in Seq(SUBSET Principals) /\ Len(RemoveAt(c, i)) = Len(o) - 1
      /\ \A k \in 1..(Len(o) - 1) : RemoveAt(c, i)[k] = IF k < i THEN c[k] ELSE c[k + 1]
  BY <1>6, RemovedAt
<1>8. /\ Chosen(ids, q) \in Seq(SUBSET Principals) /\ Len(Chosen(ids, q)) = Len(o) - 1
      /\ \A k \in 1..(Len(o) - 1) : Chosen(ids, q)[k] = ids[q[k]]
  BY <1>2, <1>5, ChosenTyped, ListTyped
<1>9. \A k \in 1..(Len(o) - 1) : Chosen(ids, q)[k] = RemoveAt(c, i)[k]
  <2>. TAKE k \in 1..(Len(o) - 1)
  <2>1. k \in 1..Len(o) /\ k + 1 \in 1..Len(o)
    BY <1>1
  <2>2. CASE k < i
    <3>1. q[k] = o[k] /\ RemoveAt(c, i)[k] = c[k]
      BY <1>2, <1>7, <2>2
    <3>. QED  BY <1>6, <1>8, <2>1, <3>1
  <2>3. CASE ~(k < i)
    <3>1. q[k] = o[k + 1] /\ RemoveAt(c, i)[k] = c[k + 1]
      BY <1>2, <1>7, <2>3
    <3>. QED  BY <1>6, <1>8, <2>1, <3>1
  <2>. QED  BY <2>2, <2>3
<1>10. Chosen(ids, q) = RemoveAt(c, i)
  BY <1>7, <1>8, <1>9, SeqEqual
<1>. QED  BY <1>2, <1>5, <1>10 DEF q, c

\* The shortest accepted order has only signers the rule asks for.
LEMMA Shortest ==
  ASSUME NEW r \in MspRules, NEW ids \in ProfileLists, NEW o, IsOrder(o, ids),
         Accepts(r, ids, o)
  PROVE  \E m : /\ IsOrder(m, ids) /\ Accepts(r, ids, m)
                /\ \A i \in 1..Len(m) : ids[m[i]] \cap Leaves(r) # {}
<1>. DEFINE Good == {q \in Seq(DOMAIN ids) : IsInjective(q) /\ Accepts(r, ids, q)}
            Lengths == {Len(q) : q \in Good}
<1>1. o \in Good /\ \A q : q \in Good <=> IsOrder(q, ids) /\ Accepts(r, ids, q)
  BY DEF IsOrder
<1>2. Lengths \in SUBSET Nat /\ Lengths # {}
  <2>1. \A q \in Good : Len(q) \in Nat
    BY LenProperties
  <2>. QED  BY <1>1, <2>1
<1>3. PICK m \in Good : \A q \in Good : Len(m) <= Len(q)
  <2>. HIDE DEF Good
  <2>1. PICK n \in Lengths : \A k \in Lengths : n <= k
    <3>. HIDE DEF Lengths
    <3>. QED  BY <1>2, LeastNat
  <2>2. PICK m \in Good : n = Len(m)
    BY <2>1
  <2>. QED  BY <2>1, <2>2
<1>4. IsOrder(m, ids) /\ Accepts(r, ids, m)
  BY <1>1
<1>5. ASSUME NEW i \in 1..Len(m), ids[m[i]] \cap Leaves(r) = {}
      PROVE  FALSE
  <2>1. /\ IsOrder(RemoveAt(m, i), ids) /\ Len(RemoveAt(m, i)) = Len(m) - 1
        /\ Chosen(ids, RemoveAt(m, i)) = RemoveAt(Chosen(ids, m), i)
    BY <1>4, Dropped
  <2>2. /\ Chosen(ids, m) \in ProfileLists /\ Len(Chosen(ids, m)) = Len(m)
        /\ Chosen(ids, m)[i] = ids[m[i]]
    BY <1>4, ChosenTyped
  <2>3. i \in DOMAIN Chosen(ids, m)
    BY <2>2, ListTyped
  <2>4. EvaluateIdentities(r, Chosen(ids, m))
    BY <1>4 DEF Accepts
  <2>5. EvaluateIdentities(r, RemoveAt(Chosen(ids, m), i))
    BY <1>5, <2>2, <2>3, <2>4, PolicyAssumption
  <2>6. RemoveAt(m, i) \in Good
    BY <1>1, <2>1, <2>5 DEF Accepts
  <2>7. Len(m) \in Nat /\ Len(m) <= Len(m) - 1
    BY <1>3, <1>4, <2>1, <2>6, OrderTyped
  <2>. QED  BY <2>7
<1>. QED  BY <1>4, <1>5

\* Signers not used in g that match exactly what the next one of o matches.
LEMMA Unused ==
  ASSUME NEW ids \in ProfileLists, NEW o, IsOrder(o, ids),
         NEW k \in Nat, k + 1 <= Len(o), NEW g \in [1..k -> 1..Len(ids)],
         \A j \in 1..k : ids[g[j]] = ids[o[j]]
  PROVE  \E x \in 1..Len(ids) : ids[x] = ids[o[k + 1]] /\ \A j \in 1..k : g[j] # x
<1>1. SUFFICES ASSUME \A x \in 1..Len(ids) : ids[x] = ids[o[k + 1]] => \E j \in 1..k : g[j] = x
               PROVE  FALSE
  OBVIOUS
<1>2. /\ Len(o) \in Nat /\ \A i \in 1..Len(o) : o[i] \in 1..Len(ids)
      /\ \A i, j \in 1..Len(o) : o[i] = o[j] => i = j
  BY OrderTyped
<1>. DEFINE S == {j \in 1..k : ids[o[j]] = ids[o[k + 1]]}
            S1 == S \cup {k + 1}
            f == [j \in S1 |-> CHOOSE l \in S : g[l] = o[j]]
<1>3. S1 \subseteq 1..Len(o) /\ \A j \in S1 : ids[o[j]] = ids[o[k + 1]]
  BY <1>2
<1>4. ASSUME NEW j \in S1 PROVE \E l \in S : g[l] = o[j]
  <2>1. j \in 1..Len(o) /\ ids[o[j]] = ids[o[k + 1]] /\ o[j] \in 1..Len(ids)
    BY <1>2, <1>3
  <2>2. PICK l \in 1..k : g[l] = o[j]
    BY <1>1, <2>1
  <2>3. l \in S
    BY <2>1, <2>2
  <2>. QED  BY <2>2, <2>3
<1>5. IsFiniteSet(S) /\ k + 1 \notin S
  <2>1. IsFiniteSet(1..k)
    BY CountTo
  <2>. QED  BY <2>1, FS_Subset
<1>6. IsFiniteSet(S1) /\ Cardinality(S1) = Cardinality(S) + 1 /\ Cardinality(S) \in Nat
  <2>. HIDE DEF S
  <2>. QED  BY <1>5, FS_AddElement, FS_CardinalityType
<1>7. f \in [S1 -> S] /\ \A j \in S1 : g[f[j]] = o[j]
  <2>. HIDE DEF S, S1
  <2>. QED  BY <1>4
<1>8. PICK x \in S1, y \in S1 : x # y /\ f[x] = f[y]
  <2>. HIDE DEF S, S1, f
  <2>. QED  BY <1>5, <1>6, <1>7, FS_PigeonHole
<1>9. o[x] = o[y]
  <2>. HIDE DEF S, S1, f
  <2>. QED  BY <1>7, <1>8
<1>. QED  BY <1>2, <1>3, <1>8, <1>9

\* The j-th signer of g is one the search would take next.
Fresh(ids, g, j) ==
  /\ ids[g[j]] # {}
  /\ \A l \in 1..(j - 1) : g[l] # g[j]
  /\ \A x \in 1..(g[j] - 1) : (\A l \in 1..(j - 1) : g[l] # x) => ids[x] # ids[g[j]]

LEMMA FreshIsNext ==
  ASSUME NEW ids \in ProfileLists, NEW k \in Nat, NEW g \in [1..k -> 1..Len(ids)],
         NEW j \in 1..k
  PROVE  g[j] \in NextSigners(ids, SubSeq(g, 1, j - 1)) <=> Fresh(ids, g, j)
<1>. DEFINE p == SubSeq(g, 1, j - 1)
<1>1. DOMAIN ids = 1..Len(ids) /\ g[j] \in 1..Len(ids) /\ \A l \in 1..(j - 1) : g[l] \in 1..Len(ids)
  BY ListTyped
<1>2. /\ p \in Seq(1..Len(ids)) /\ Len(p) = j - 1
      /\ \A l \in 1..(j - 1) : p[l] = g[l]
  <2>1. /\ p \in Seq(1..Len(ids)) /\ Len(p) = IF 1 <= j - 1 THEN (j - 1) - 1 + 1 ELSE 0
        /\ \A l \in 1..((j - 1) - 1 + 1) : p[l] = g[1 + l - 1]
    BY <1>1, SubSeqProperties
  <2>. QED  BY <2>1
<1>. HIDE DEF p
<1>3. DOMAIN p = 1..(j - 1)
  BY <1>2, LenProperties
<1>4. \A x : x \in ToSet(p) <=> \E l \in 1..(j - 1) : g[l] = x
  BY <1>2, <1>3 DEF ToSet
<1>5. g[j] \in NextSigners(ids, p) <=> Fresh(ids, g, j)
  BY <1>1, <1>4 DEF NextSigners, Fresh
<1>. QED  BY <1>5 DEF p

\* g goes the search's way and matches what the first k of o match.
Follows(ids, o, g, k) ==
  /\ g \in [1..k -> 1..Len(ids)]
  /\ \A j \in 1..k : ids[g[j]] = ids[o[j]] /\ Fresh(ids, g, j)

LEMMA FollowsOn ==
  ASSUME NEW ids \in ProfileLists, NEW o, IsOrder(o, ids),
         \A i \in 1..Len(o) : ids[o[i]] # {},
         NEW k \in Nat, k + 1 <= Len(o), NEW g, Follows(ids, o, g, k)
  PROVE  \E h : Follows(ids, o, h, k + 1)
<1>1. g \in [1..k -> 1..Len(ids)] /\ Len(ids) \in Nat /\ Len(o) \in Nat
  BY ListTyped, OrderTyped DEF Follows
<1>. DEFINE Free == {x \in 1..Len(ids) : ids[x] = ids[o[k + 1]] /\ \A j \in 1..k : g[j] # x}
<1>2. Free \in SUBSET Nat /\ Free # {}
  <2>1. \E x \in 1..Len(ids) : ids[x] = ids[o[k + 1]] /\ \A j \in 1..k : g[j] # x
    BY Unused DEF Follows
  <2>. QED  BY <1>1, <2>1
<1>3. PICK x \in Free : \A y \in Free : x <= y
  <2>. HIDE DEF Free
  <2>. QED  BY <1>2, LeastNat
<1>. DEFINE h == [j \in 1..(k + 1) |-> IF j = k + 1 THEN x ELSE g[j]]
<1>4. h \in [1..(k + 1) -> 1..Len(ids)] /\ h[k + 1] = x /\ \A j \in 1..k : h[j] = g[j]
  BY <1>1, <1>3
<1>5. k + 1 \in 1..Len(o) /\ \A j \in 1..(k + 1) : j \in 1..k \/ j = k + 1
  BY <1>1
<1>6. ids[x] = ids[o[k + 1]] /\ ids[x] # {} /\ x \in 1..Len(ids) /\ \A j \in 1..k : g[j] # x
  BY <1>3, <1>5
<1>7. ASSUME NEW j \in 1..k PROVE ids[h[j]] = ids[o[j]] /\ Fresh(ids, h, j)
  <2>1. h[j] = g[j] /\ \A l \in 1..(j - 1) : h[l] = g[l]
    BY <1>4
  <2>2. ids[g[j]] = ids[o[j]] /\ Fresh(ids, g, j)
    BY DEF Follows
  <2>. HIDE DEF h
  <2>. QED  BY <2>1, <2>2 DEF Fresh
<1>8. ids[h[k + 1]] = ids[o[k + 1]] /\ Fresh(ids, h, k + 1)
  <2>1. \A l \in 1..((k + 1) - 1) : l \in 1..k /\ h[l] = g[l]
    BY <1>4
  <2>2. ASSUME NEW y \in 1..(x - 1), \A l \in 1..((k + 1) - 1) : h[l] # y
        PROVE  ids[y] # ids[x]
    <3>1. y \in 1..Len(ids) /\ y < x /\ \A l \in 1..k : g[l] # y
      <4>1. y \in 1..Len(ids) /\ y < x
        BY <1>1, <1>6
      <4>2. \A l \in 1..k : l \in 1..((k + 1) - 1)
        OBVIOUS
      <4>. HIDE DEF h
      <4>3. \A l \in 1..k : g[l] # y
        BY <1>4, <2>2, <4>2
      <4>. QED  BY <4>1, <4>3
    <3>2. y \notin Free
      BY <1>1, <1>3, <3>1
    <3>. QED  BY <1>6, <3>1, <3>2
  <2>. HIDE DEF h, Free
  <2>. QED  BY <1>4, <1>6, <2>1, <2>2 DEF Fresh
<1>9. Follows(ids, o, h, k + 1)
  <2>. HIDE DEF h
  <2>. QED  BY <1>4, <1>5, <1>7, <1>8 DEF Follows
<1>. QED  BY <1>9

\* Every order whose signers all match something is followed to its end.
LEMMA FollowsAll ==
  ASSUME NEW ids \in ProfileLists, NEW o, IsOrder(o, ids),
         \A i \in 1..Len(o) : ids[o[i]] # {}
  PROVE  \E g : Follows(ids, o, g, Len(o))
<1>. DEFINE Short == {k \in 0..Len(o) : ~\E g : Follows(ids, o, g, k)}
<1>1. Len(o) \in Nat
  BY OrderTyped
<1>2. SUFFICES ASSUME Short # {} PROVE FALSE
  BY <1>1
<1>3. Short \in SUBSET Nat
  BY <1>1
<1>4. PICK n \in Short : \A m \in Short : n <= m
  <2>. HIDE DEF Short
  <2>. QED  BY <1>2, <1>3, LeastNat
<1>5. n # 0
  <2>1. \E g : g \in [1..0 -> 1..Len(ids)]
    <3>1. [j \in 1..0 |-> 1] \in [1..0 -> 1..Len(ids)]
      OBVIOUS
    <3>. QED  BY <3>1
  <2>2. \E g : Follows(ids, o, g, 0)
    <3>1. PICK g : g \in [1..0 -> 1..Len(ids)]
      BY <2>1
    <3>2. \A j \in 1..0 : ids[g[j]] = ids[o[j]] /\ Fresh(ids, g, j)
      OBVIOUS
    <3>3. Follows(ids, o, g, 0)
      BY <3>1, <3>2 DEF Follows
    <3>. QED  BY <3>3
  <2>. QED  BY <1>4, <2>2
<1>6. n - 1 \in Nat /\ (n - 1) + 1 = n /\ n <= Len(o) /\ n - 1 \in 0..Len(o)
  BY <1>1, <1>4, <1>5
<1>7. n - 1 \notin Short
  BY <1>4, <1>6
<1>8. PICK g : Follows(ids, o, g, n - 1)
  BY <1>6, <1>7
<1>9. \E h : Follows(ids, o, h, n)
  <2>. DEFINE k == n - 1
  <2>1. k \in Nat /\ k + 1 = n /\ k + 1 <= Len(o) /\ Follows(ids, o, g, k)
    BY <1>6, <1>8
  <2>. HIDE DEF k
  <2>2. \E h : Follows(ids, o, h, k + 1)
    BY <2>1, FollowsOn
  <2>. QED  BY <2>1, <2>2
<1>. QED  BY <1>4, <1>9

\* All candidates, in the order they came.
LEMMA AllInOrder ==
  ASSUME NEW ids \in ProfileLists
  PROVE  LET all == [i \in DOMAIN ids |-> i]
         IN  /\ IsOrder(all, ids) /\ Len(all) = Len(ids)
             /\ Chosen(ids, all) = ids
<1>. DEFINE all == [i \in DOMAIN ids |-> i]
<1>1. DOMAIN ids = 1..Len(ids) /\ Len(ids) \in Nat /\ ids \in Seq(SUBSET Principals)
  BY ListTyped
<1>2. all \in [1..Len(ids) -> 1..Len(ids)] /\ \A i \in 1..Len(ids) : all[i] = i
  BY <1>1
<1>3. all \in Seq(1..Len(ids)) /\ Len(all) = Len(ids)
  <2>. HIDE DEF all
  <2>. QED  BY <1>1, <1>2, FunctionIsSeq
<1>4. IsInjective(all) /\ IsOrder(all, ids)
  BY <1>1, <1>2, <1>3 DEF IsInjective, IsOrder
<1>5. Chosen(ids, all) = ids
  <2>. HIDE DEF all
  <2>1. Chosen(ids, all) \in ProfileLists /\ Len(Chosen(ids, all)) = Len(ids)
        /\ \A i \in 1..Len(ids) : Chosen(ids, all)[i] = ids[all[i]]
    BY <1>3, <1>4, ChosenTyped
  <2>2. Chosen(ids, all) \in Seq(SUBSET Principals)
    BY <2>1, ListTyped
  <2>. QED  BY <1>1, <1>2, <2>1, <2>2, SeqEqual
<1>. QED  BY <1>3, <1>4, <1>5

LEMMA Prefix ==
  ASSUME NEW S, NEW n \in Nat, NEW g \in [1..n -> S], NEW k \in 0..n
  PROVE  /\ SubSeq(g, 1, k) \in Seq(S) /\ Len(SubSeq(g, 1, k)) = k
         /\ SubSeq(g, 1, k) \in [1..k -> S]
         /\ \A i \in 1..k : SubSeq(g, 1, k)[i] = g[i]
<1>1. \A i \in 1..k : g[i] \in S
  OBVIOUS
<1>2. /\ SubSeq(g, 1, k) \in Seq(S)
      /\ Len(SubSeq(g, 1, k)) = IF 1 <= k THEN k - 1 + 1 ELSE 0
      /\ \A i \in 1..(k - 1 + 1) : SubSeq(g, 1, k)[i] = g[1 + i - 1]
  BY <1>1, SubSeqProperties
<1>. DEFINE p == SubSeq(g, 1, k)
<1>3. p \in Seq(S) /\ Len(p) = k /\ \A i \in 1..k : p[i] = g[i]
  BY <1>2
<1>4. p \in [1..k -> S]
  <2>. HIDE DEF p
  <2>. QED  BY <1>3, LenProperties
<1>. QED  BY <1>3, <1>4

LEMMA PrefixOfPrefix ==
  ASSUME NEW S, NEW n \in Nat, NEW g \in [1..n -> S], NEW m \in 0..n, NEW k \in 0..m
  PROVE  SubSeq(SubSeq(g, 1, m), 1, k) = SubSeq(g, 1, k)
<1>. DEFINE p == SubSeq(g, 1, m)
<1>1. p \in [1..m -> S] /\ m \in Nat /\ \A i \in 1..m : p[i] = g[i]
  BY Prefix
<1>2. k \in 0..n
  OBVIOUS
<1>. HIDE DEF p
<1>3. /\ SubSeq(p, 1, k) \in Seq(S) /\ Len(SubSeq(p, 1, k)) = k
      /\ \A i \in 1..k : SubSeq(p, 1, k)[i] = p[i]
  BY <1>1, Prefix
<1>4. /\ SubSeq(g, 1, k) \in Seq(S) /\ Len(SubSeq(g, 1, k)) = k
      /\ \A i \in 1..k : SubSeq(g, 1, k)[i] = g[i]
  BY <1>2, Prefix
<1>5. \A i \in 1..k : i \in 1..m
  OBVIOUS
<1>6. \A i \in 1..k : SubSeq(p, 1, k)[i] = SubSeq(g, 1, k)[i]
  BY <1>1, <1>3, <1>4, <1>5
<1>7. SubSeq(p, 1, k) = SubSeq(g, 1, k)
  BY <1>3, <1>4, <1>6, SeqEqual
<1>. QED  BY <1>7 DEF p

\* The orders searchSignatureOrders tries are orders, and those it ends with
\* are accepted.
LEMMA SearchSound ==
  ASSUME NEW r, NEW ids \in ProfileLists, NEW o \in SearchSignatureOrders(r, ids)
  PROVE  IsOrder(o, ids) /\ o # <<>> /\ Accepts(r, ids, o)
<1>1. DOMAIN ids = 1..Len(ids) /\ Len(ids) \in Nat
  BY ListTyped
<1>2. PICK n \in 1..Len(ids) : o \in [1..n -> 1..Len(ids)]
  BY <1>1 DEF SearchSignatureOrders
<1>3. n \in Nat /\ n >= 1
  BY <1>1
<1>4. o \in Seq(1..Len(ids)) /\ Len(o) = n /\ DOMAIN o = 1..n
  BY <1>2, <1>3, FunctionIsSeq
<1>5. \A k \in 1..n : Fresh(ids, o, k)
  <2>1. \A k \in 1..n : o[k] \in NextSigners(ids, SubSeq(o, 1, k - 1))
    BY <1>4 DEF SearchSignatureOrders
  <2>. QED  BY <1>2, <1>3, <2>1, FreshIsNext
<1>6. IsInjective(o)
  <2>1. ASSUME NEW j \in 1..n, NEW k \in 1..n, j < k PROVE o[j] # o[k]
    <3>1. j \in 1..(k - 1)
      BY <1>3, <2>1
    <3>. QED  BY <1>5, <3>1 DEF Fresh
  <2>2. \A j, k \in 1..n : o[j] = o[k] => j = k
    BY <1>3, <2>1
  <2>. QED  BY <1>4, <2>2 DEF IsInjective
<1>7. SubSeq(o, 1, n) = o /\ n \in DOMAIN o
  BY <1>3, <1>4, SubSeqFull
<1>8. Accepts(r, ids, SubSeq(o, 1, n)) <=> n = Len(o)
  BY <1>7 DEF SearchSignatureOrders
<1>9. o # <<>>
  BY <1>3, <1>4, EmptySeq
<1>. QED  BY <1>1, <1>4, <1>6, <1>7, <1>8, <1>9 DEF IsOrder

LEMMA SatisfiableIsOrder ==
  ASSUME NEW r, NEW ids \in ProfileLists
  PROVE  Satisfiable(r, ids) <=> \E o : IsOrder(o, ids) /\ o # <<>> /\ Accepts(r, ids, o)
<1>1. DOMAIN ids = 1..Len(ids) /\ Len(ids) \in Nat
  BY ListTyped
<1>2. ASSUME Satisfiable(r, ids)
      PROVE  \E o : IsOrder(o, ids) /\ o # <<>> /\ Accepts(r, ids, o)
  <2>1. PICK n \in 1..Len(ids) : \E order \in [1..n -> DOMAIN ids] :
               IsInjective(order) /\ Accepts(r, ids, order)
    BY <1>2 DEF Satisfiable
  <2>2. PICK o \in [1..n -> DOMAIN ids] : IsInjective(o) /\ Accepts(r, ids, o)
    BY <2>1
  <2>3. n \in Nat /\ n >= 1
    BY <1>1
  <2>4. o \in Seq(DOMAIN ids) /\ Len(o) = n
    BY <2>2, <2>3, FunctionIsSeq
  <2>5. o # <<>>
    BY <2>3, <2>4, EmptySeq
  <2>. QED  BY <2>2, <2>4, <2>5 DEF IsOrder
<1>3. ASSUME NEW o, IsOrder(o, ids), o # <<>>, Accepts(r, ids, o)
      PROVE  Satisfiable(r, ids)
  <2>1. o \in Seq(DOMAIN ids) /\ IsInjective(o)
    BY <1>3 DEF IsOrder
  <2>2. Len(o) \in Nat \ {0} /\ o \in [1..Len(o) -> DOMAIN ids]
    BY <1>3, <2>1, EmptySeq, LenProperties
  <2>3. Len(o) <= Len(ids)
    BY <1>3, OrderTyped
  <2>4. Len(o) \in 1..Len(ids)
    BY <1>1, <2>2, <2>3
  <2>. QED  BY <1>3, <2>1, <2>2, <2>4 DEF Satisfiable
<1>. QED  BY <1>2, <1>3

\* A rule that accepts nobody's signature accepts all candidates.
LEMMA EmptyAccepted ==
  ASSUME NEW r \in MspRules, NEW ids \in ProfileLists, NEW m, IsOrder(m, ids), m = <<>>,
         Accepts(r, ids, m)
  PROVE  EvaluateIdentities(r, ids)
<1>1. Chosen(ids, m) = <<>>
  <2>1. Len(Chosen(ids, m)) = 0 /\ Chosen(ids, m) \in Seq(SUBSET Principals)
    BY ChosenTyped, ListTyped, EmptySeq
  <2>. QED  BY <2>1, EmptySeq
<1>. QED  BY <1>1, PolicyAssumption DEF Accepts

\* searchSignatureOrders leaves out signers that match nothing and tries one
\* signer of each profile only; it still finds an order if there is one.
LEMMA SearchComplete ==
  ASSUME NEW r \in MspRules, NEW ids \in ProfileLists, Satisfiable(r, ids),
         ~EvaluateIdentities(r, ids)
  PROVE  SearchSignatureOrders(r, ids) # {}
<1>1. PICK o : IsOrder(o, ids) /\ Accepts(r, ids, o)
  BY SatisfiableIsOrder
<1>2. PICK m : /\ IsOrder(m, ids) /\ Accepts(r, ids, m)
               /\ \A i \in 1..Len(m) : ids[m[i]] \cap Leaves(r) # {}
  BY <1>1, Shortest
<1>3. m # <<>>
  BY <1>2, EmptyAccepted
<1>4. /\ Len(m) \in Nat /\ Len(m) <= Len(ids) /\ Len(m) >= 1
      /\ DOMAIN ids = 1..Len(ids) /\ Len(ids) \in Nat
  <2>1. m \in Seq(1..Len(ids)) /\ Len(m) <= Len(ids)
    BY <1>2, OrderTyped
  <2>2. Len(m) \in Nat \ {0}
    BY <1>3, <2>1, EmptySeq
  <2>. QED  BY <2>1, <2>2, ListTyped
<1>5. \A i \in 1..Len(m) : ids[m[i]] # {}
  BY <1>2
<1>6. PICK g : Follows(ids, m, g, Len(m))
  BY <1>2, <1>5, FollowsAll
<1>7. /\ g \in [1..Len(m) -> 1..Len(ids)]
      /\ \A j \in 1..Len(m) : ids[g[j]] = ids[m[j]] /\ Fresh(ids, g, j)
  BY <1>6 DEF Follows
<1>8. Accepts(r, ids, g)
  <2>1. DOMAIN g = 1..Len(m) /\ DOMAIN m = 1..Len(m)
    BY <1>2, <1>7, OrderTyped
  <2>2. Chosen(ids, g) = Chosen(ids, m)
    BY <1>7, <2>1 DEF Chosen
  <2>. QED  BY <1>2, <2>2 DEF Accepts
<1>. DEFINE Ends == {k \in 1..Len(m) : Accepts(r, ids, SubSeq(g, 1, k))}
<1>9. Ends \in SUBSET Nat /\ Ends # {}
  <2>1. g \in Seq(1..Len(ids)) /\ Len(g) = Len(m)
    BY <1>4, <1>7, FunctionIsSeq
  <2>2. SubSeq(g, 1, Len(m)) = g
    BY <2>1, SubSeqFull
  <2>3. Len(m) \in Ends
    <3>1. Len(m) \in 1..Len(m)
      BY <1>4
    <3>2. Accepts(r, ids, SubSeq(g, 1, Len(m)))
      BY <1>8, <2>2, Zenon
    <3>. QED  BY <3>1, <3>2, Zenon
  <2>. QED  BY <1>4, <2>3
<1>10. PICK n \in Ends : \A k \in Ends : n <= k
  <2>. HIDE DEF Ends
  <2>. QED  BY <1>9, LeastNat
<1>11. n \in 1..Len(m) /\ n \in Nat /\ n \in 0..Len(m) /\ n \in 1..Len(ids)
  BY <1>4, <1>10
<1>12. \A k \in 1..n : Accepts(r, ids, SubSeq(g, 1, k)) <=> k = n
  <2>. TAKE k \in 1..n
  <2>1. k \in 1..Len(m)
    BY <1>4, <1>11
  <2>2. CASE k = n
    BY <1>10, <2>2
  <2>3. CASE k # n
    <3>1. ~(n <= k)
      BY <1>11, <2>3
    <3>2. k \notin Ends
      <4>. HIDE DEF Ends
      <4>. QED  BY <1>10, <3>1
    <3>. QED  BY <2>1, <2>3, <3>2
  <2>. QED  BY <2>2, <2>3
<1>. DEFINE q == SubSeq(g, 1, n)
<1>13. /\ q \in [1..n -> 1..Len(ids)] /\ Len(q) = n
       /\ \A k \in 0..n : SubSeq(q, 1, k) = SubSeq(g, 1, k)
       /\ \A k \in 1..n : q[k] = g[k]
  <2>1. /\ q \in [1..n -> 1..Len(ids)] /\ Len(q) = n
        /\ \A k \in 1..n : q[k] = g[k]
    <3>1. /\ SubSeq(g, 1, n) \in [1..n -> 1..Len(ids)] /\ Len(SubSeq(g, 1, n)) = n
          /\ \A k \in 1..n : SubSeq(g, 1, n)[k] = g[k]
      <4>. DEFINE S == 1..Len(ids)
      <4>1. g \in [1..Len(m) -> S] /\ Len(m) \in Nat /\ n \in 0..Len(m)
        BY <1>4, <1>7, <1>11
      <4>. HIDE DEF S, Ends
      <4>2. /\ SubSeq(g, 1, n) \in [1..n -> S] /\ Len(SubSeq(g, 1, n)) = n
            /\ \A k \in 1..n : SubSeq(g, 1, n)[k] = g[k]
        BY <4>1, Prefix
      <4>. QED  BY <4>2 DEF S
    <3>. QED  BY <3>1, Zenon
  <2>2. ASSUME NEW k \in 0..n PROVE SubSeq(q, 1, k) = SubSeq(g, 1, k)
    BY <1>4, <1>7, <1>11, PrefixOfPrefix
  <2>. QED  BY <2>1, <2>2
<1>14. ASSUME NEW k \in 1..n
       PROVE  /\ q[k] \in NextSigners(ids, SubSeq(q, 1, k - 1))
              /\ Accepts(r, ids, SubSeq(q, 1, k)) <=> k = Len(q)
  <2>1. k \in 1..Len(m) /\ k \in 0..n /\ k - 1 \in 0..n
    BY <1>4, <1>11
  <2>2. g[k] \in NextSigners(ids, SubSeq(g, 1, k - 1))
    BY <1>4, <1>7, <2>1, FreshIsNext
  <2>. HIDE DEF q
  <2>. QED  BY <1>12, <1>13, <2>1, <2>2
<1>15. q \in SearchSignatureOrders(r, ids)
  <2>. HIDE DEF q
  <2>1. DOMAIN q = 1..n /\ q \in UNION {[1..k -> DOMAIN ids] : k \in 1..Len(ids)}
    BY <1>4, <1>11, <1>13
  <2>. QED  BY <1>14, <2>1 DEF SearchSignatureOrders
<1>. QED  BY <1>15

\* selectEndorsements: an order it returns is accepted and uses nobody twice,
\* and it returns none only if no order of the candidates is accepted.
THEOREM SelectionComplete ==
  ASSUME NEW r \in MspRules, NEW ids \in ProfileLists, ids # <<>>
  PROVE  LET order == SelectEndorsements(r, ids)
         IN  /\ order # <<>> => IsOrder(order, ids) /\ Accepts(r, ids, order)
             /\ order = <<>> <=> ~Satisfiable(r, ids)
<1>. DEFINE all == [i \in DOMAIN ids |-> i]
            submitted == {IF o = <<>> THEN <<1>> ELSE o : o \in Witnesses(r, ids)}
            accepted == {o \in submitted : Accepts(r, ids, o)}
            found == SearchSignatureOrders(r, ids)
            order == SelectEndorsements(r, ids)
<1>1. r.type # "threshold"
  BY DEF MspRules
<1>2. Len(ids) \in Nat /\ Len(ids) >= 1 /\ DOMAIN ids = 1..Len(ids)
  <2>1. ids \in Seq(SUBSET Principals)
    BY ListTyped
  <2>2. Len(ids) \in Nat \ {0}
    BY <2>1, EmptySeq
  <2>. QED  BY <2>2, ListTyped
<1>3. IsOrder(<<1>>, ids) /\ <<1>> # <<>>
  <2>1. <<1>> \in Seq(DOMAIN ids) /\ DOMAIN <<1>> = {1}
    BY <1>2
  <2>. QED  BY <2>1 DEF IsOrder, IsInjective
<1>4. \A o \in accepted : IsOrder(o, ids) /\ o # <<>> /\ Accepts(r, ids, o)
  BY <1>3, PolicyAssumption
<1>5. IsOrder(all, ids) /\ all # <<>> /\ Chosen(ids, all) = ids
  <2>1. IsOrder(all, ids) /\ Len(all) = Len(ids) /\ Chosen(ids, all) = ids
    BY AllInOrder
  <2>. HIDE DEF all
  <2>. QED  BY <1>2, <2>1, EmptySeq
<1>6. \A o \in found : IsOrder(o, ids) /\ o # <<>> /\ Accepts(r, ids, o)
  BY SearchSound
<1>7. order = IF accepted # {} THEN AnyOf(accepted)
              ELSE IF Accepts(r, ids, all) THEN all
              ELSE IF submitted = {} THEN <<>> ELSE AnyOf(found)
  BY <1>1 DEF SelectEndorsements
<1>8. \A X : X # {} => AnyOf(X) \in X
  BY DEF AnyOf
<1>9. AnyOf({}) = <<>>
  BY DEF AnyOf
<1>10. submitted = {} => Witnesses(r, ids) = {}
  OBVIOUS
<1>. HIDE DEF all, accepted, submitted, found, order
<1>11. order # <<>> => IsOrder(order, ids) /\ Accepts(r, ids, order)
  BY <1>4, <1>5, <1>6, <1>7, <1>8, <1>9
<1>12. ASSUME order = <<>> PROVE ~Satisfiable(r, ids)
  <2>1. accepted = {} /\ ~Accepts(r, ids, all) /\ (submitted = {} \/ found = {})
    BY <1>4, <1>5, <1>6, <1>7, <1>8, <1>12
  <2>2. CASE submitted = {}
    BY <1>10, <2>2, PolicyAssumption
  <2>3. CASE found = {}
    <3>1. ~EvaluateIdentities(r, ids)
      BY <1>5, <2>1 DEF Accepts
    <3>. QED  BY <2>3, <3>1, SearchComplete DEF found
  <2>. QED  BY <2>1, <2>2, <2>3
<1>13. ASSUME order # <<>> PROVE Satisfiable(r, ids)
  BY <1>11, <1>13, SatisfiableIsOrder
<1>. QED  BY <1>11, <1>12, <1>13 DEF order

-----------------------------------------------------------------------------
(* EndorsementCollect.                                                     *)

DistinctSigners(cs) ==
  \A i, j \in 1..Len(cs) : cs[i].signer = cs[j].signer => i = j

\* What the candidates have in common.
Gathered(cs) ==
  /\ cs \in Seq(Answers) /\ cs # <<>>
  /\ \A i \in 1..Len(cs) : cs[i].result = local /\ cs[i].version = version
  /\ DistinctSigners(cs)

\* No order of the candidates is accepted.
Insufficient(cs) ==
  requested = {} => rule.type # "threshold" /\ ~Satisfiable(rule, ProfilesOf(cs))

\* The policy accepts the endorsements as they are submitted.
Satisfying(s) == Accepts(rule, ProfilesOf(s), [i \in DOMAIN s |-> i])

SelectedSound ==
  /\ selected \in Seq(Answers)
  /\ SelectionIsValid
  /\ RequestedOrgsEndorse

PreparedSound ==
  requested = {} =>
    /\ selected \in Seq(Answers) /\ selected # <<>>
    /\ DistinctSigners(selected)
    /\ \A i \in 1..Len(selected) : selected[i].version = selected[1].version
    /\ version = selected[1].version => Satisfying(selected)

CInv ==
  /\ pc \in {"policy", "execute", "local", "collect", "unsatisfied", "endorsed", "prepared"} =>
       profile \in Profiles
  /\ pc \in {"execute", "local", "collect", "unsatisfied"} => rule \in Rules /\ version \in Versions
  /\ pc \in {"local", "collect", "unsatisfied"} => local \in Results
  /\ pc \in {"collect", "unsatisfied"} =>
       Compiles(rule) /\ Gathered(candidates) /\ Insufficient(candidates)
  /\ pc = "endorsed" => SelectedSound
  /\ pc = "prepared" => PreparedSound

(* What is merged from the candidates.                                     *)

LEMMA ProfileTyped ==
  ASSUME profile \in Profiles, NEW s \in Signers
  PROVE  /\ profile[s] \in SUBSET Principals
         /\ \A p \in profile[s] : Scope[p] \in {SignerOrg[s], Unscoped}
  BY DEF Profiles

LEMMA SignerList ==
  ASSUME profile \in Profiles, NEW n \in Nat, NEW ss \in [1..n -> Signers],
         \A i, j \in 1..n : ss[i] = ss[j] => i = j
  PROVE  LET ids == [i \in 1..n |-> profile[ss[i]]]
         IN  ids \in ProfileLists /\ Len(ids) = n
<1>. DEFINE ids == [i \in 1..n |-> profile[ss[i]]]
<1>1. ids \in [1..n -> SUBSET Principals]
  BY ProfileTyped
<1>2. ids \in Seq(SUBSET Principals) /\ Len(ids) = n
  <2>. HIDE DEF ids
  <2>. QED  BY <1>1, FunctionIsSeq
<1>3. n <= Cardinality(Signers)
  <2>1. ss \in Injection(1..n, Signers)
    BY DEF Injection, IsInjective
  <2>2. Cardinality(1..n) <= Cardinality(Signers)
    BY <2>1, PolicyAssumption, FS_Injection
  <2>. QED  BY <2>2, CountTo
<1>4. ids \in ProfileLists
  <2>. HIDE DEF ids
  <2>. QED  BY <1>2, <1>3, IsList
<1>. QED  BY <1>2, <1>4

LEMMA AnswersTyped ==
  ASSUME NEW cs \in Seq(Answers)
  PROVE  /\ Len(cs) \in Nat /\ DOMAIN cs = 1..Len(cs)
         /\ \A i \in 1..Len(cs) : cs[i] \in Answers /\ cs[i].signer \in Signers
<1>1. Len(cs) \in Nat /\ DOMAIN cs = 1..Len(cs) /\ \A i \in 1..Len(cs) : cs[i] \in Answers
  BY LenProperties, ElementOfSeq
<1>. QED  BY <1>1 DEF Answers

LEMMA CandidateList ==
  ASSUME profile \in Profiles, NEW cs \in Seq(Answers), DistinctSigners(cs)
  PROVE  /\ ProfilesOf(cs) \in ProfileLists /\ Len(ProfilesOf(cs)) = Len(cs)
         /\ DOMAIN ProfilesOf(cs) = 1..Len(cs)
         /\ \A i \in 1..Len(cs) : ProfilesOf(cs)[i] = profile[cs[i].signer]
<1>. DEFINE ss == [i \in 1..Len(cs) |-> cs[i].signer]
<1>1. Len(cs) \in Nat /\ DOMAIN cs = 1..Len(cs) /\ \A i \in 1..Len(cs) : cs[i].signer \in Signers
  BY AnswersTyped
<1>2. ss \in [1..Len(cs) -> Signers] /\ \A i \in 1..Len(cs) : ss[i] = cs[i].signer
  BY <1>1
<1>3. \A i, j \in 1..Len(cs) : ss[i] = ss[j] => i = j
  BY <1>2 DEF DistinctSigners
<1>4. [i \in 1..Len(cs) |-> profile[ss[i]]] \in ProfileLists
      /\ Len([i \in 1..Len(cs) |-> profile[ss[i]]]) = Len(cs)
  <2>. HIDE DEF ss
  <2>. QED  BY <1>1, <1>2, <1>3, SignerList
<1>5. ProfilesOf(cs) = [i \in 1..Len(cs) |-> profile[ss[i]]]
  BY <1>1, <1>2 DEF ProfilesOf
<1>. QED  BY <1>1, <1>4, <1>5 DEF ProfilesOf

LEMMA Merged ==
  ASSUME NEW cs \in Seq(Answers), DistinctSigners(cs),
         NEW o \in Seq(1..Len(cs)), \A i, j \in 1..Len(o) : o[i] = o[j] => i = j
  PROVE  LET m == MergeEndorsements(cs, o)
         IN  /\ m \in Seq(Answers) /\ Len(m) = Len(o) /\ DistinctSigners(m)
             /\ \A i \in 1..Len(o) : o[i] \in 1..Len(cs) /\ m[i] = cs[o[i]]
<1>. DEFINE m == MergeEndorsements(cs, o)
<1>1. Len(o) \in Nat /\ DOMAIN o = 1..Len(o) /\ \A i \in 1..Len(o) : o[i] \in 1..Len(cs)
  BY LenProperties, ElementOfSeq
<1>2. m \in [1..Len(o) -> Answers] /\ \A i \in 1..Len(o) : m[i] = cs[o[i]]
  BY <1>1, AnswersTyped DEF MergeEndorsements
<1>3. m \in Seq(Answers) /\ Len(m) = Len(o)
  <2>. HIDE DEF m
  <2>. QED  BY <1>1, <1>2, FunctionIsSeq
<1>4. DistinctSigners(m)
  <2>. HIDE DEF m
  <2>. QED  BY <1>1, <1>2, <1>3 DEF DistinctSigners
<1>. QED  BY <1>1, <1>2, <1>3, <1>4

\* The evaluator judges what is merged as it judged the order.
LEMMA MergedSatisfies ==
  ASSUME profile \in Profiles, NEW cs \in Seq(Answers), DistinctSigners(cs),
         NEW o, IsOrder(o, ProfilesOf(cs)), Accepts(rule, ProfilesOf(cs), o)
  PROVE  Satisfying(MergeEndorsements(cs, o))
<1>. DEFINE m == MergeEndorsements(cs, o)
            ids == ProfilesOf(cs)
<1>1. /\ ids \in ProfileLists /\ Len(ids) = Len(cs) /\ DOMAIN ids = 1..Len(cs)
      /\ \A i \in 1..Len(cs) : ids[i] = profile[cs[i].signer]
  BY CandidateList
<1>2. /\ o \in Seq(1..Len(cs)) /\ DOMAIN o = 1..Len(o)
      /\ \A i, j \in 1..Len(o) : o[i] = o[j] => i = j
  <2>. HIDE DEF ids
  <2>1. IsOrder(o, ids)
    BY DEF ids
  <2>. QED  BY <1>1, <2>1, OrderTyped
<1>3. /\ m \in Seq(Answers) /\ Len(m) = Len(o) /\ DistinctSigners(m)
      /\ \A i \in 1..Len(o) : o[i] \in 1..Len(cs) /\ m[i] = cs[o[i]]
  BY <1>2, Merged
<1>. HIDE DEF m
<1>4. /\ ProfilesOf(m) \in ProfileLists /\ DOMAIN ProfilesOf(m) = 1..Len(o) /\ DOMAIN m = 1..Len(o)
      /\ \A i \in 1..Len(o) : ProfilesOf(m)[i] = profile[m[i].signer]
  BY <1>3, CandidateList, AnswersTyped
<1>5. ProfilesOf(m) = Chosen(ids, o)
  <2>1. ProfilesOf(m) = [i \in 1..Len(o) |-> profile[m[i].signer]]
    BY <1>4 DEF ProfilesOf
  <2>2. \A i \in 1..Len(o) : profile[m[i].signer] = ids[o[i]]
    BY <1>1, <1>3
  <2>. QED  BY <1>2, <2>1, <2>2 DEF Chosen
<1>6. Chosen(ProfilesOf(m), [i \in DOMAIN m |-> i]) = ProfilesOf(m)
  <2>1. [i \in DOMAIN m |-> i] = [i \in DOMAIN ProfilesOf(m) |-> i]
    BY <1>4
  <2>. QED  BY <1>4, <2>1, AllInOrder
<1>7. EvaluateIdentities(rule, ProfilesOf(m))
  BY <1>5 DEF Accepts
<1>. QED  BY <1>6, <1>7 DEF Satisfying, Accepts, m

LEMMA FirstTyped ==
  ASSUME NEW cs \in Seq(Answers), NEW org, FirstOf(cs, org) # 0
  PROVE  FirstOf(cs, org) \in 1..Len(cs) /\ SignerOrg[cs[FirstOf(cs, org)].signer] = org
<1>. DEFINE I == {i \in 1..Len(cs) : SignerOrg[cs[i].signer] = org}
<1>1. FirstOf(cs, org) = IF I # {} THEN Min(I) ELSE 0
  BY DEF FirstOf, SelectInSeq
<1>2. I # {} /\ I \in SUBSET Nat
  BY <1>1, AnswersTyped
<1>3. Min(I) \in I
  <2>. HIDE DEF I
  <2>1. \E x \in I : \A y \in I : x <= y
    BY <1>2, LeastNat
  <2>. QED  BY <2>1 DEF Min
<1>. QED  BY <1>1, <1>2, <1>3

\* With requested organizations: one candidate of each, and of no other.
LEMMA RequestedTyped ==
  ASSUME NEW cs \in Seq(Answers), requested # {}, NEW o \in RequestedOrders(cs)
  PROVE  /\ o \in Seq(1..Len(cs)) /\ o # <<>> /\ Len(o) = Cardinality(requested)
         /\ \A i, j \in 1..Len(o) : o[i] = o[j] => i = j
         /\ {SignerOrg[cs[o[i]].signer] : i \in 1..Len(o)} = requested
<1>. DEFINE K == {FirstOf(cs, org) : org \in requested}
            f == [org \in requested |-> FirstOf(cs, org)]
<1>1. o \in SetToSeqs(K) /\ \A org \in requested : FirstOf(cs, org) # 0
  BY DEF RequestedOrders
<1>2. \A org \in requested : FirstOf(cs, org) \in 1..Len(cs)
                             /\ SignerOrg[cs[FirstOf(cs, org)].signer] = org
  BY <1>1, FirstTyped
<1>3. K \subseteq 1..Len(cs) /\ IsFiniteSet(K) /\ Cardinality(K) \in Nat
  <2>1. K \subseteq 1..Len(cs) /\ Len(cs) \in Nat
    BY <1>2, AnswersTyped
  <2>. HIDE DEF K
  <2>2. IsFiniteSet(K)
    BY <2>1, CountTo, FS_Subset
  <2>. QED  BY <2>1, <2>2, FS_CardinalityType
<1>4. Cardinality(requested) = Cardinality(K) /\ Cardinality(K) # 0
  <2>1. f \in [requested -> K] /\ \A x \in requested : f[x] = FirstOf(cs, x)
    OBVIOUS
  <2>2. \A x \in requested, y \in requested : f[x] = f[y] => x = y
    <3>. HIDE DEF f, K
    <3>. QED  BY <1>2, <2>1
  <2>3. \A k \in K : \E x \in requested : f[x] = k
    OBVIOUS
  <2>4. K # {}
    OBVIOUS
  <2>. HIDE DEF f, K
  <2>5. f \in Injection(requested, K) /\ f \in Surjection(requested, K)
    BY <2>1, <2>2, <2>3 DEF Injection, IsInjective, Surjection
  <2>. QED  BY <1>3, <2>4, <2>5, FS_Injection, FS_EmptySet
<1>5. /\ o \in [1..Cardinality(K) -> K]
      /\ \A i, j \in 1..Cardinality(K) : i # j => o[i] # o[j]
  <2>. HIDE DEF K
  <2>. QED  BY <1>1 DEF SetToSeqs
<1>. HIDE DEF f
<1>6. \A k \in K : \E i \in 1..Cardinality(K) : o[i] = k
  <2>. HIDE DEF K
  <2>1. o \in Injection(1..Cardinality(K), K)
    BY <1>5 DEF Injection, IsInjective
  <2>2. o \in Surjection(1..Cardinality(K), K)
    BY <1>3, <2>1, CountTo, FS_Injection
  <2>. QED  BY <2>2 DEF Surjection
<1>7. o \in Seq(1..Len(cs)) /\ Len(o) = Cardinality(K) /\ o # <<>>
  <2>. HIDE DEF K
  <2>1. o \in [1..Cardinality(K) -> 1..Len(cs)]
    BY <1>3, <1>5
  <2>2. o \in Seq(1..Len(cs)) /\ Len(o) = Cardinality(K)
    BY <1>3, <2>1, FunctionIsSeq
  <2>. QED  BY <1>4, <2>2, EmptySeq
<1>8. {SignerOrg[cs[o[i]].signer] : i \in 1..Len(o)} = requested
  <2>1. ASSUME NEW i \in 1..Len(o) PROVE SignerOrg[cs[o[i]].signer] \in requested
    <3>1. PICK org \in requested : o[i] = FirstOf(cs, org)
      BY <1>5, <1>7
    <3>. QED  BY <1>2, <3>1
  <2>2. ASSUME NEW org \in requested
        PROVE  \E i \in 1..Len(o) : SignerOrg[cs[o[i]].signer] = org
    <3>1. PICK i \in 1..Len(o) : o[i] = FirstOf(cs, org)
      BY <1>6, <1>7
    <3>. QED  BY <1>2, <3>1
  <2>. QED  BY <2>1, <2>2
<1>. QED  BY <1>4, <1>5, <1>7, <1>8

LEMMA AloneGathered ==
  ASSUME NEW s \in Signers, local \in Results, version \in Versions
  PROVE  Gathered(<<[signer |-> s, result |-> local, version |-> version]>>)
<1>. DEFINE own == [signer |-> s, result |-> local, version |-> version]
<1>1. own \in Answers /\ own.result = local /\ own.version = version
  BY DEF Answers
<1>. HIDE DEF own
<1>2. <<own>> \in Seq(Answers) /\ Len(<<own>>) = 1 /\ <<own>>[1] = own /\ <<own>> # <<>>
  BY <1>1
<1>3. \A i \in 1..Len(<<own>>) : i = 1
  BY <1>2
<1>4. Gathered(<<own>>)
  BY <1>1, <1>2, <1>3 DEF Gathered, DistinctSigners
<1>. QED  BY <1>4 DEF own

LEMMA OneMoreGathered ==
  ASSUME NEW cs, Gathered(cs), NEW a \in Answers, a.result = local, a.version = version,
         \A i \in DOMAIN cs : cs[i].signer # a.signer
  PROVE  Gathered(Append(cs, a))
<1>. DEFINE d == Append(cs, a)
<1>1. cs \in Seq(Answers) /\ Len(cs) \in Nat /\ DOMAIN cs = 1..Len(cs)
  BY AnswersTyped DEF Gathered
<1>2. /\ d \in Seq(Answers) /\ Len(d) = Len(cs) + 1 /\ d[Len(cs) + 1] = a
      /\ \A i \in 1..Len(cs) : d[i] = cs[i]
  BY <1>1, AppendProperties
<1>. HIDE DEF d
<1>3. \A i \in 1..Len(d) : i \in 1..Len(cs) \/ i = Len(cs) + 1
  BY <1>1, <1>2
<1>4. \A i \in 1..Len(d) : d[i].result = local /\ d[i].version = version
  BY <1>2, <1>3 DEF Gathered
<1>5. DistinctSigners(d)
  <2>. SUFFICES ASSUME NEW i \in 1..Len(d), NEW j \in 1..Len(d), d[i].signer = d[j].signer
                PROVE  i = j
    BY DEF DistinctSigners
  <2>1. CASE i \in 1..Len(cs) /\ j \in 1..Len(cs)
    BY <1>2, <2>1 DEF Gathered, DistinctSigners
  <2>2. CASE i = Len(cs) + 1 /\ j \in 1..Len(cs)
    BY <1>1, <1>2, <2>2
  <2>3. CASE i \in 1..Len(cs) /\ j = Len(cs) + 1
    BY <1>1, <1>2, <2>3
  <2>. QED  BY <1>3, <2>1, <2>2, <2>3
<1>6. d # <<>>
  <2>1. Len(d) # 0
    BY <1>1, <1>2
  <2>. QED  BY <1>2, <2>1, EmptySeq
<1>7. Gathered(d)
  BY <1>2, <1>4, <1>5, <1>6 DEF Gathered
<1>. QED  BY <1>7 DEF d

\* Packaging leaves endorsements of distinct endorsers as they are.
LEMMA PackagedAsIs ==
  ASSUME NEW s \in Seq(Answers), DistinctSigners(s)
  PROVE  PackageTx(s) = s
<1>1. Len(s) \in Nat /\ DOMAIN s = 1..Len(s)
  BY AnswersTyped
<1>2. Firsts(s) = 1..Len(s)
  <2>1. ASSUME NEW i \in 1..Len(s), NEW j \in 1..(i - 1) PROVE s[j].signer # s[i].signer
    <3>1. j \in 1..Len(s) /\ j # i
      BY <1>1
    <3>. QED  BY <3>1 DEF DistinctSigners
  <2>. QED  BY <1>1, <2>1 DEF Firsts
<1>3. Cardinality(Firsts(s)) = Len(s)
  BY <1>1, <1>2, CountTo
<1>4. \A i \in 1..Len(s) : Cardinality({j \in 1..Len(s) : j <= i}) = i
  <2>. TAKE i \in 1..Len(s)
  <2>1. {j \in 1..Len(s) : j <= i} = 1..i /\ i \in Nat
    BY <1>1
  <2>. QED  BY <2>1, CountTo
<1>5. ASSUME NEW k \in 1..Len(s)
      PROVE  (CHOOSE i \in 1..Len(s) : Cardinality({j \in 1..Len(s) : j <= i}) = k) = k
  BY <1>4
<1>. DEFINE F == Firsts(s)
            nth(k) == CHOOSE i \in F : Cardinality({j \in F : j <= i}) = k
<1>6. PackageTx(s) = [k \in 1..Len(s) |-> s[k]]
  <2>1. PackageTx(s) = [k \in 1..Cardinality(F) |-> s[nth(k)]]
    BY DEF PackageTx
  <2>2. \A k \in 1..Len(s) : nth(k) = k
    BY <1>2, <1>5
  <2>. HIDE DEF F, nth
  <2>3. Cardinality(F) = Len(s)
    BY <1>3 DEF F
  <2>. QED  BY <2>1, <2>2, <2>3
<1>7. s \in [1..Len(s) -> Answers]
  BY <1>1, LenProperties
<1>. QED  BY <1>6, <1>7

\* What may be merged from the candidates has all a selection promises.
LEMMA MergedSound ==
  ASSUME NEW cs, Gathered(cs), profile \in Profiles,
         NEW o \in Seq(1..Len(cs)), o # <<>>, \A i, j \in 1..Len(o) : o[i] = o[j] => i = j,
         requested = {} => Satisfying(MergeEndorsements(cs, o)),
         requested # {} => /\ {SignerOrg[cs[o[i]].signer] : i \in 1..Len(o)} = requested
                           /\ Len(o) = Cardinality(requested),
         UNCHANGED inputs, pc' = "endorsed", selected' = MergeEndorsements(cs, o)
  PROVE  SelectedSound'
<1>. DEFINE m == MergeEndorsements(cs, o)
<1>1. /\ m \in Seq(Answers) /\ Len(m) = Len(o) /\ DistinctSigners(m)
      /\ \A i \in 1..Len(o) : o[i] \in 1..Len(cs) /\ m[i] = cs[o[i]]
  BY Merged DEF Gathered
<1>2. DOMAIN m = 1..Len(o) /\ m # <<>>
  <2>. HIDE DEF m
  <2>1. Len(o) # 0
    BY EmptySeq
  <2>. QED  BY <1>1, <2>1, AnswersTyped, EmptySeq
<1>3. \A i \in 1..Len(o) : m[i].result = local /\ m[i].version = version
  BY <1>1 DEF Gathered
<1>4. {SignerOrg[m[i].signer] : i \in 1..Len(o)} = {SignerOrg[cs[o[i]].signer] : i \in 1..Len(o)}
  <2>. HIDE DEF m
  <2>1. \A i \in 1..Len(o) : SignerOrg[m[i].signer] = SignerOrg[cs[o[i]].signer]
    BY <1>1
  <2>. DEFINE f(i) == SignerOrg[m[i].signer]
              g(i) == SignerOrg[cs[o[i]].signer]
  <2>2. \A i \in 1..Len(o) : f(i) = g(i)
    BY <2>1
  <2>. HIDE DEF f, g
  <2>3. {f(i) : i \in 1..Len(o)} = {g(i) : i \in 1..Len(o)}
    BY <2>2
  <2>. QED  BY <2>3 DEF f, g
<1>5. selected' = m /\ UNCHANGED <<rule, version, requested, profile, local>>
  BY DEF inputs, policy
<1>. HIDE DEF m
<1>6. SelectionIsValid'
  <2>1. \A i, j \in 1..Len(o) : m[i].signer = m[j].signer => i = j
    BY <1>1 DEF DistinctSigners
  <2>2. requested = {} => Accepts(rule, ProfilesOf(m), [i \in DOMAIN m |-> i])
    BY DEF Satisfying, m
  <2>. QED  BY <1>2, <1>3, <1>5, <2>1, <2>2 DEF SelectionIsValid, ProfilesOf, Accepts
<1>7. RequestedOrgsEndorse'
  <2>1. {SignerOrg[m[i].signer] : i \in DOMAIN m} = {SignerOrg[m[i].signer] : i \in 1..Len(o)}
    BY <1>2
  <2>2. requested # {} => /\ {SignerOrg[m[i].signer] : i \in DOMAIN m} = requested
                          /\ Len(m) = Cardinality(requested)
    BY <1>1, <1>4, <2>1
  <2>. QED  BY <1>5, <2>2 DEF RequestedOrgsEndorse
<1>. QED  BY <1>1, <1>5, <1>6, <1>7 DEF SelectedSound

\* assembleSelection: what it returns is sound, and without a selection no
\* order of the candidates satisfies the policy.
LEMMA AssembleSound ==
  ASSUME NEW cs, Gathered(cs), rule \in Rules, Compiles(rule), profile \in Profiles,
         UNCHANGED inputs, NEW otherwise, Assemble(cs, otherwise)
  PROVE  \/ pc' = otherwise /\ Insufficient(cs)
         \/ pc' = "aborted"
         \/ pc' = "endorsed" /\ SelectedSound'
<1>. DEFINE ids == ProfilesOf(cs)
            best == SelectEndorsements(rule, ids)
<1>1. /\ ids \in ProfileLists /\ Len(ids) = Len(cs) /\ DOMAIN ids = 1..Len(cs) /\ ids # <<>>
      /\ Len(cs) \in Nat /\ Len(cs) # 0
  <2>1. cs \in Seq(Answers) /\ cs # <<>> /\ DistinctSigners(cs)
    BY DEF Gathered
  <2>2. ids \in ProfileLists /\ Len(ids) = Len(cs) /\ DOMAIN ids = 1..Len(cs)
    BY <2>1, CandidateList
  <2>3. Len(cs) \in Nat \ {0}
    BY <2>1, EmptySeq
  <2>. QED  BY <2>2, <2>3, ListTyped, EmptySeq
<1>2. requested = {} => Selections(cs) = {best} \ {<<>>}
  BY DEF Selections
<1>3. ASSUME rule.type = "threshold" PROVE best = <<1>> /\ IsOrder(best, ids) /\ best # <<>>
  <2>1. best = <<1>>
    BY <1>3 DEF SelectEndorsements
  <2>2. <<1>> \in Seq(DOMAIN ids) /\ DOMAIN <<1>> = {1} /\ <<1>> # <<>>
    BY <1>1
  <2>3. IsOrder(<<1>>, ids)
    BY <2>2 DEF IsOrder, IsInjective
  <2>. QED  BY <2>1, <2>2, <2>3
<1>4. ASSUME rule.type # "threshold"
      PROVE  (best # <<>> => IsOrder(best, ids)) /\ (best = <<>> <=> ~Satisfiable(rule, ids))
  <2>1. rule \in MspRules
    BY <1>4 DEF MspRules, Compiles
  <2>. HIDE DEF ids
  <2>. QED  BY <1>1, <2>1, SelectionComplete
<1>. HIDE DEF best
<1>5. CASE Selections(cs) = {}
  <2>1. pc' = otherwise
    BY <1>5 DEF Assemble
  <2>2. ASSUME requested = {} PROVE rule.type # "threshold" /\ ~Satisfiable(rule, ids)
    <3>1. best = <<>>
      BY <1>2, <1>5, <2>2
    <3>. QED  BY <1>3, <1>4, <3>1
  <2>. QED  BY <2>1, <2>2 DEF Insufficient
<1>6. CASE Selections(cs) # {}
  <2>1. PICK o \in Selections(cs) :
          IF Verified(cs, o)
          THEN pc' = "endorsed" /\ selected' = MergeEndorsements(cs, o)
          ELSE pc' = "aborted" /\ UNCHANGED selected
    BY <1>6 DEF Assemble
  <2>2. CASE ~Verified(cs, o)
    BY <2>1, <2>2
  <2>3. CASE Verified(cs, o) /\ requested = {}
    <3>1. o = best /\ best # <<>>
      BY <1>2, <2>3
    <3>2. IsOrder(o, ids) /\ Accepts(rule, ids, o)
      BY <1>3, <1>4, <2>3, <3>1 DEF Verified
    <3>3. o \in Seq(1..Len(cs)) /\ \A i, j \in 1..Len(o) : o[i] = o[j] => i = j
      <4>. HIDE DEF ids
      <4>. QED  BY <1>1, <3>2, OrderTyped
    <3>4. Satisfying(MergeEndorsements(cs, o))
      BY <3>2, MergedSatisfies DEF Gathered
    <3>. QED  BY <2>1, <2>3, <3>1, <3>3, <3>4, MergedSound
  <2>4. CASE Verified(cs, o) /\ requested # {}
    <3>1. o \in RequestedOrders(cs)
      BY <2>4 DEF Selections
    <3>2. /\ o \in Seq(1..Len(cs)) /\ o # <<>> /\ Len(o) = Cardinality(requested)
          /\ \A i, j \in 1..Len(o) : o[i] = o[j] => i = j
          /\ {SignerOrg[cs[o[i]].signer] : i \in 1..Len(o)} = requested
      BY <2>4, <3>1, RequestedTyped DEF Gathered
    <3>. QED  BY <2>1, <2>4, <3>2, MergedSound
  <2>. QED  BY <2>2, <2>3, <2>4
<1>. QED  BY <1>5, <1>6

(* The steps of an invocation.                                             *)

LEMMA EndedCollected ==
  ASSUME pc' \in {"idle", "aborted", "submitted", "rejected"}
  PROVE  CInv'
  BY DEF CInv

\* With a selection from the candidates, or without one for now.
LEMMA AssembledCollected ==
  ASSUME CInv, Gathered(candidates'), rule \in Rules, version \in Versions, Compiles(rule),
         profile \in Profiles, local \in Results, UNCHANGED inputs,
         NEW otherwise \in {"collect", "aborted"}, Assemble(candidates', otherwise)
  PROVE  CInv'
<1>1. \/ pc' = otherwise /\ Insufficient(candidates')
      \/ pc' = "aborted"
      \/ pc' = "endorsed" /\ SelectedSound'
  BY AssembleSound
<1>2. UNCHANGED <<rule, version, requested, profile, local>>
  BY DEF inputs, policy
<1>3. CASE pc' = "collect" /\ Insufficient(candidates')
  <2>1. Gathered(candidates)'
    BY <1>2 DEF Gathered, DistinctSigners
  <2>2. Insufficient(candidates)'
    BY <1>2, <1>3 DEF Insufficient, ProfilesOf
  <2>. QED  BY <1>2, <1>3, <2>1, <2>2 DEF CInv, Compiles
<1>4. CASE pc' = "endorsed" /\ SelectedSound'
  BY <1>2, <1>4 DEF CInv
<1>5. CASE pc' = "aborted"
  BY <1>5, EndedCollected
<1>. QED  BY <1>1, <1>3, <1>4, <1>5

LEMMA EndorseCollected == ASSUME Endorse PROVE CInv'
  BY DEF Endorse, CInv

LEMMA ResolvedCollected == ASSUME CInv, ResolveNamespacePolicy PROVE CInv'
  BY DEF ResolveNamespacePolicy, CInv

LEMMA ExecutedCollected == ASSUME CInv, ExecuteLocal PROVE CInv'
  BY DEF ExecuteLocal, CInv, policy

LEMMA EndorsedLocally ==
  ASSUME CInv, EndorseLocal
  PROVE  CInv'
<1>. DEFINE own == [signer |-> LocalSigner, result |-> local, version |-> version]
<1>1. /\ Compiles(rule) /\ candidates' = <<own>> /\ UNCHANGED inputs
      /\ Assemble(candidates', "collect") \/ Assemble(candidates', "aborted")
  BY DEF EndorseLocal
<1>2. profile \in Profiles /\ rule \in Rules /\ version \in Versions /\ local \in Results
  BY DEF EndorseLocal, CInv
<1>3. Gathered(candidates')
  BY <1>1, <1>2, AloneGathered, CollectAssumption
<1>. QED  BY <1>1, <1>2, <1>3, AssembledCollected

LEMMA CollectsOn ==
  ASSUME CInv, pc = "collect", UNCHANGED <<inputs, candidates>>, pc' \in {"collect", "unsatisfied"}
  PROVE  CInv'
<1>1. UNCHANGED <<rule, version, requested, profile, local, candidates>>
  BY DEF inputs, policy
<1>2. Gathered(candidates)' /\ Insufficient(candidates)'
  BY <1>1 DEF CInv, Gathered, DistinctSigners, Insufficient, ProfilesOf
<1>. QED  BY <1>1, <1>2 DEF CInv, Compiles

LEMMA EndorsedRemotely ==
  ASSUME CInv, NEW e \in Endpoints, NEW a \in Answers, EndorseRemote(e, a)
  PROVE  CInv'
<1>1. pc = "collect" /\ UNCHANGED inputs
  BY DEF EndorseRemote
<1>2. CASE UNCHANGED <<candidates, pc, selected>>
  BY <1>1, <1>2, CollectsOn
<1>3. CASE pc' = "aborted"
  BY <1>3, EndedCollected
<1>4. CASE /\ Authenticate(a, Host[e], requested # {}) /\ SameResult(a) /\ ~Known(a.signer)
           /\ candidates' = Append(candidates, a)
           /\ Assemble(candidates', "collect")
  <2>1. /\ profile \in Profiles /\ rule \in Rules /\ version \in Versions /\ local \in Results
        /\ Compiles(rule) /\ Gathered(candidates)
    BY <1>1 DEF CInv
  <2>2. a.result = local /\ a.version = version
        /\ \A i \in DOMAIN candidates : candidates[i].signer # a.signer
    BY <1>4 DEF Authenticate, SameResult, Known
  <2>3. Gathered(candidates')
    BY <1>4, <2>1, <2>2, OneMoreGathered
  <2>. QED  BY <1>1, <1>4, <2>1, <2>3, AssembledCollected
<1>5. \/ UNCHANGED <<candidates, pc, selected>>
      \/ pc' = "aborted"
      \/ /\ Authenticate(a, Host[e], requested # {}) /\ SameResult(a) /\ ~Known(a.signer)
         /\ candidates' = Append(candidates, a)
         /\ Assemble(candidates', "collect")
  <2>1. CASE ~Authenticate(a, Host[e], requested # {})
    BY <2>1 DEF EndorseRemote
  <2>2. CASE Authenticate(a, Host[e], requested # {}) /\ ~SameResult(a)
    BY <2>2 DEF EndorseRemote
  <2>3. CASE Authenticate(a, Host[e], requested # {}) /\ SameResult(a) /\ Known(a.signer)
    BY <2>3 DEF EndorseRemote
  <2>4. CASE Authenticate(a, Host[e], requested # {}) /\ SameResult(a) /\ ~Known(a.signer)
    BY <2>4 DEF EndorseRemote
  <2>. QED  BY <2>1, <2>2, <2>3, <2>4
<1>. QED  BY <1>2, <1>3, <1>4, <1>5

LEMMA FailedRemotely ==
  ASSUME CInv, NEW e \in Endpoints, RemoteFails(e)
  PROVE  CInv'
  BY CollectsOn DEF RemoteFails

LEMMA UnsatisfiedCollected == ASSUME CInv, Unsatisfied PROVE CInv'
  BY CollectsOn DEF Unsatisfied

\* Packaging changes nothing of a sound selection.
LEMMA PreparedCollected ==
  ASSUME CInv, PrepareTransaction
  PROVE  CInv'
<1>1. pc = "endorsed" /\ SelectedSound /\ profile \in Profiles
      /\ UNCHANGED <<rule, version, requested, profile, local>>
  BY DEF PrepareTransaction, CInv, inputs, policy
<1>2. CASE pc' = "aborted"
  BY <1>2, EndedCollected
<1>3. CASE pc' = "prepared" /\ selected' = PackageTx(selected)
  <2>1. /\ selected \in Seq(Answers) /\ selected # <<>> /\ DOMAIN selected = 1..Len(selected)
        /\ Len(selected) \in Nat \ {0}
    BY <1>1, AnswersTyped, EmptySeq DEF SelectedSound, SelectionIsValid
  <2>2. /\ DistinctSigners(selected)
        /\ \A i \in 1..Len(selected) : selected[i].version = version
    BY <1>1, <2>1 DEF SelectedSound, SelectionIsValid, DistinctSigners
  <2>3. selected' = selected
    BY <1>3, <2>1, <2>2, PackagedAsIs
  <2>4. requested = {} => Satisfying(selected)
    BY <1>1 DEF SelectedSound, SelectionIsValid, Satisfying
  <2>5. \A i \in 1..Len(selected) : selected[i].version = selected[1].version
    BY <2>1, <2>2
  <2>6. (requested = {} => Satisfying(selected))'
    BY <1>1, <2>3, <2>4 DEF Satisfying, Accepts, ProfilesOf
  <2>7. PreparedSound'
    BY <1>1, <2>1, <2>2, <2>3, <2>5, <2>6 DEF PreparedSound, DistinctSigners
  <2>. QED  BY <1>1, <1>3, <2>7 DEF CInv
<1>. QED  BY <1>2, <1>3 DEF PrepareTransaction

\* An update makes the endorsements those of an earlier version.
LEMMA UpdatedCollected ==
  ASSUME CInv, UpdatePolicy
  PROVE  CInv'
<1>1. /\ pc = "prepared" /\ PreparedSound /\ profile \in Profiles
      /\ UNCHANGED <<requested, profile, pc, selected>>
      /\ \A i \in DOMAIN selected : version' # selected[i].version
  BY DEF UpdatePolicy, CInv
<1>2. ASSUME requested = {} PROVE version' # selected[1].version
  <2>1. selected \in Seq(Answers) /\ selected # <<>>
    BY <1>1, <1>2 DEF PreparedSound
  <2>2. 1 \in DOMAIN selected
    BY <2>1, AnswersTyped, EmptySeq
  <2>. QED  BY <1>1, <2>2
<1>3. PreparedSound'
  BY <1>1, <1>2 DEF PreparedSound, DistinctSigners
<1>. QED  BY <1>1, <1>3 DEF CInv

LEMMA UnchangedCollected ==
  ASSUME CInv, UNCHANGED vars
  PROVE  CInv'
<1>1. UNCHANGED <<rule, version, requested, profile, local, candidates, pc, selected>>
  BY DEF vars
<1>2. /\ Gathered(candidates)' <=> Gathered(candidates)
      /\ Insufficient(candidates)' <=> Insufficient(candidates)
  BY <1>1 DEF Gathered, DistinctSigners, Insufficient, ProfilesOf
<1>3. SelectedSound' <=> SelectedSound
  BY <1>1 DEF SelectedSound, SelectionIsValid, RequestedOrgsEndorse, Accepts, ProfilesOf
<1>4. PreparedSound' <=> PreparedSound
  BY <1>1 DEF PreparedSound, DistinctSigners, Satisfying, Accepts, ProfilesOf
<1>. QED  BY <1>1, <1>2, <1>3, <1>4 DEF CInv, Compiles

LEMMA CInvNext ==
  ASSUME CInv, [Next]_vars
  PROVE  CInv'
<1>1. CASE Endorse
  BY <1>1, EndorseCollected
<1>2. CASE ResolveNamespacePolicy
  BY <1>2, ResolvedCollected
<1>3. CASE ExecuteLocal
  BY <1>3, ExecutedCollected
<1>4. CASE EndorseLocal
  BY <1>4, EndorsedLocally
<1>5. CASE Unsatisfied
  BY <1>5, UnsatisfiedCollected
<1>6. CASE Abort \/ Submit
  BY <1>6, EndedCollected DEF Abort, Submit
<1>7. CASE PrepareTransaction
  BY <1>7, PreparedCollected
<1>8. CASE UpdatePolicy
  BY <1>8, UpdatedCollected
<1>9. ASSUME NEW e \in Endpoints, RemoteFails(e) PROVE CInv'
  BY <1>9, FailedRemotely
<1>10. ASSUME NEW e \in Endpoints, NEW a \in Answers, EndorseRemote(e, a) PROVE CInv'
  BY <1>10, EndorsedRemotely
<1>11. CASE UNCHANGED vars
  BY <1>11, UnchangedCollected
<1>. QED  BY <1>1, <1>2, <1>3, <1>4, <1>5, <1>6, <1>7, <1>8, <1>9, <1>10, <1>11 DEF Next

LEMMA CInvInit == Init => CInv
  BY DEF Init, CInv

(* Who is left out of the targets would not help.                          *)

LEMMA SetListed ==
  ASSUME NEW K, IsFiniteSet(K)
  PROVE  LET s == SetToSeq(K)
         IN  /\ s \in [1..Cardinality(K) -> K] /\ Cardinality(K) \in Nat
             /\ \A i, j \in 1..Cardinality(K) : s[i] = s[j] => i = j
<1>1. ExistsBijection(1..Cardinality(K), K) /\ Cardinality(K) \in Nat
  BY FS_CardinalityType
<1>2. \E f \in [1..Cardinality(K) -> K] : IsInjective(f)
  BY <1>1 DEF ExistsBijection, Bijection, Injection
<1>3. SetToSeq(K) \in [1..Cardinality(K) -> K] /\ IsInjective(SetToSeq(K))
  BY <1>2 DEF SetToSeq
<1>. QED  BY <1>1, <1>3 DEF IsInjective

\* An identity of an organization that is no target matches no principal of
\* the rule.
LEMMA UntargetedIsNoUse ==
  ASSUME profile \in Profiles, rule.type # "threshold", requested = {},
         NEW e \in Endpoints, Host[e] \notin TargetMSPs(rule, requested)
  PROVE  Identity[e] \in Signers /\ profile[Identity[e]] \cap Leaves(rule) = {}
<1>1. Identity[e] \in Signers /\ Host[e] \in Orgs /\ SignerOrg[Identity[e]] = Host[e]
  BY CollectAssumption
<1>2. \A p \in Leaves(rule) : Scope[p] \notin {Host[e], Unscoped}
  BY <1>1 DEF TargetMSPs
<1>3. \A p \in profile[Identity[e]] : Scope[p] \in {Host[e], Unscoped}
  BY <1>1, ProfileTyped
<1>. QED  BY <1>1, <1>2, <1>3

\* Signers after the first ones that match no principal of the rule do not make
\* it satisfiable.
LEMMA NoUse ==
  ASSUME NEW r \in MspRules, NEW ids \in ProfileLists, NEW more \in ProfileLists, ids # <<>>,
         Len(ids) <= Len(more), \A i \in 1..Len(ids) : more[i] = ids[i],
         \A i \in 1..Len(more) : i > Len(ids) => more[i] \cap Leaves(r) = {},
         Satisfiable(r, more)
  PROVE  Satisfiable(r, ids)
<1>1. /\ Len(ids) \in Nat /\ Len(more) \in Nat
      /\ DOMAIN ids = 1..Len(ids) /\ DOMAIN more = 1..Len(more)
  BY ListTyped
<1>2. PICK m : /\ IsOrder(m, more) /\ Accepts(r, more, m)
               /\ \A i \in 1..Len(m) : more[m[i]] \cap Leaves(r) # {}
  <2>1. PICK o : IsOrder(o, more) /\ Accepts(r, more, o)
    BY SatisfiableIsOrder
  <2>. QED  BY <2>1, Shortest
<1>3. /\ Len(m) \in Nat /\ DOMAIN m = 1..Len(m) /\ m \in Seq(1..Len(more))
      /\ \A i \in 1..Len(m) : m[i] \in 1..Len(more)
  BY <1>2, OrderTyped
<1>4. \A i \in 1..Len(m) : m[i] \in 1..Len(ids)
  BY <1>1, <1>2, <1>3
<1>5. IsOrder(m, ids)
  <2>1. m \in [1..Len(m) -> 1..Len(ids)]
    BY <1>3, <1>4, LenProperties
  <2>2. m \in Seq(1..Len(ids))
    BY <1>3, <2>1, FunctionIsSeq
  <2>. QED  BY <1>1, <1>2, <2>2 DEF IsOrder
<1>6. Accepts(r, ids, m)
  <2>1. \A i \in 1..Len(m) : ids[m[i]] = more[m[i]]
    BY <1>4
  <2>2. Chosen(ids, m) = Chosen(more, m)
    BY <1>3, <2>1 DEF Chosen
  <2>. QED  BY <1>2, <2>2 DEF Accepts
<1>7. CASE m # <<>>
  BY <1>5, <1>6, <1>7, SatisfiableIsOrder
<1>8. CASE m = <<>>
  <2>. DEFINE all == [i \in DOMAIN ids |-> i]
  <2>1. IsOrder(all, ids) /\ Len(all) = Len(ids) /\ Chosen(ids, all) = ids
    BY AllInOrder
  <2>2. Accepts(r, ids, all)
    BY <1>5, <1>6, <1>8, <2>1, EmptyAccepted DEF Accepts
  <2>3. all # <<>>
    <3>. HIDE DEF all
    <3>1. ids \in Seq(SUBSET Principals) /\ Len(ids) # 0
      BY ListTyped, EmptySeq
    <3>. QED  BY <2>1, <3>1, EmptySeq
  <2>. QED  BY <2>1, <2>2, <2>3, SatisfiableIsOrder
<1>. QED  BY <1>7, <1>8

LEMMA Refused ==
  ASSUME CInv
  PROVE  RefusalIsJustified
<1>. SUFFICES ASSUME pc = "unsatisfied", requested = {} PROVE RefusalIsJustified
  BY DEF RefusalIsJustified
<1>. DEFINE unasked == {Identity[e] : e \in {f \in Endpoints :
                          Host[f] \notin TargetMSPs(rule, requested)}}
            K == {s \in unasked : ~Known(s)}
            others == SetToSeq(K)
            n == Len(candidates)
            k == Cardinality(K)
            ids == ProfilesOf(candidates)
            R == [i \in DOMAIN others |-> profile[others[i]]]
            more == ids \o R
            ss == [i \in 1..(n + k) |-> IF i <= n THEN candidates[i].signer ELSE others[i - n]]
<1>1. /\ profile \in Profiles /\ rule \in MspRules /\ rule.type # "threshold"
      /\ candidates \in Seq(Answers) /\ candidates # <<>> /\ DistinctSigners(candidates)
      /\ ~Satisfiable(rule, ids)
  BY DEF CInv, Gathered, Insufficient, Compiles, MspRules
<1>2. /\ n \in Nat /\ n # 0 /\ DOMAIN candidates = 1..n
      /\ \A i \in 1..n : candidates[i].signer \in Signers
  BY <1>1, AnswersTyped, EmptySeq
<1>3. \A s \in K : s \in Signers /\ profile[s] \cap Leaves(rule) = {} /\ ~Known(s)
  BY <1>1, UntargetedIsNoUse
<1>4. IsFiniteSet(K)
  <2>1. K \in SUBSET Signers
    BY <1>3
  <2>. HIDE DEF K
  <2>. QED  BY <2>1, PolicyAssumption, FS_Subset
<1>. HIDE DEF K
<1>5. /\ others \in [1..k -> K] /\ k \in Nat
      /\ \A i, j \in 1..k : others[i] = others[j] => i = j
  BY <1>4, SetListed
<1>. HIDE DEF k, others
<1>6. /\ ids \in ProfileLists /\ ids \in Seq(SUBSET Principals) /\ Len(ids) = n
      /\ \A i \in 1..n : ids[i] = profile[candidates[i].signer]
  BY <1>1, CandidateList, ListTyped
<1>. HIDE DEF ids
<1>7. /\ R \in Seq(SUBSET Principals) /\ Len(R) = k
      /\ \A i \in 1..k : R[i] = profile[others[i]]
  <2>1. R \in [1..k -> SUBSET Principals] /\ \A i \in 1..k : R[i] = profile[others[i]]
    BY <1>1, <1>3, <1>5, ProfileTyped
  <2>. HIDE DEF R
  <2>. QED  BY <1>5, <2>1, FunctionIsSeq
<1>. HIDE DEF R
<1>8. /\ more \in Seq(SUBSET Principals) /\ Len(more) = n + k
      /\ \A i \in 1..(n + k) : more[i] = IF i <= n THEN ids[i] ELSE R[i - n]
  <2>1. /\ ids \o R \in Seq(SUBSET Principals) /\ Len(ids \o R) = Len(ids) + Len(R)
        /\ \A i \in 1..(Len(ids) + Len(R)) :
             (ids \o R)[i] = IF i <= Len(ids) THEN ids[i] ELSE R[i - Len(ids)]
    <3>. DEFINE T == SUBSET Principals
    <3>1. ids \in Seq(T) /\ R \in Seq(T)
      BY <1>6, <1>7
    <3>. HIDE DEF T
    <3>2. /\ ids \o R \in Seq(T) /\ Len(ids \o R) = Len(ids) + Len(R)
          /\ \A i \in 1..(Len(ids) + Len(R)) :
               (ids \o R)[i] = IF i <= Len(ids) THEN ids[i] ELSE R[i - Len(ids)]
      BY <3>1, ConcatProperties
    <3>. QED  BY <3>2 DEF T
  <2>. HIDE DEF more
  <2>. QED  BY <1>6, <1>7, <2>1, Zenon DEF more
<1>. HIDE DEF more
<1>9. /\ ss \in [1..(n + k) -> Signers]
      /\ \A i \in 1..(n + k) : ss[i] = IF i <= n THEN candidates[i].signer ELSE others[i - n]
  <2>1. ASSUME NEW i \in 1..(n + k)
        PROVE  (IF i <= n THEN candidates[i].signer ELSE others[i - n]) \in Signers
    <3>1. CASE i <= n
      BY <1>2, <1>5, <3>1
    <3>2. CASE ~(i <= n)
      <4>1. i - n \in 1..k
        BY <1>2, <1>5, <3>2
      <4>. QED  BY <1>3, <1>5, <3>2, <4>1
    <3>. QED  BY <3>1, <3>2
  <2>. QED  BY <2>1
<1>. HIDE DEF ss
<1>10. \A i, j \in 1..(n + k) : ss[i] = ss[j] => i = j
  <2>. SUFFICES ASSUME NEW i \in 1..(n + k), NEW j \in 1..(n + k), i < j PROVE ss[i] # ss[j]
    BY <1>2, <1>5
  <2>1. CASE j <= n
    <3>1. i \in 1..n /\ j \in 1..n /\ i <= n
      BY <1>2, <1>5, <2>1
    <3>. QED  BY <1>1, <1>9, <2>1, <3>1 DEF DistinctSigners
  <2>2. CASE ~(i <= n)
    <3>1. i - n \in 1..k /\ j - n \in 1..k /\ i - n # j - n /\ ~(j <= n)
      BY <1>2, <1>5, <2>2
    <3>. QED  BY <1>5, <1>9, <2>2, <3>1
  <2>3. CASE i <= n /\ ~(j <= n)
    <3>1. i \in 1..n /\ j - n \in 1..k
      BY <1>2, <1>5, <2>3
    <3>2. others[j - n] \in K
      BY <1>5, <3>1
    <3>3. ~Known(others[j - n])
      BY <1>3, <3>2
    <3>4. candidates[i].signer # others[j - n]
      BY <1>2, <3>1, <3>3 DEF Known
    <3>. QED  BY <1>9, <2>3, <3>4
  <2>. QED  BY <2>1, <2>2, <2>3
<1>11. n + k <= Cardinality(Signers)
  <2>1. ss \in Injection(1..(n + k), Signers) /\ n + k \in Nat
    BY <1>2, <1>5, <1>9, <1>10 DEF Injection, IsInjective
  <2>2. Cardinality(1..(n + k)) <= Cardinality(Signers)
    BY <2>1, PolicyAssumption, FS_Injection
  <2>. QED  BY <2>1, <2>2, CountTo
<1>12. more \in ProfileLists
  BY <1>8, <1>11, IsList
<1>13. ASSUME NEW i \in 1..Len(more), i > Len(ids)
       PROVE  more[i] \cap Leaves(rule) = {}
  <2>1. i - n \in 1..k /\ i \in 1..(n + k) /\ ~(i <= n)
    BY <1>2, <1>5, <1>6, <1>8, <1>13
  <2>2. others[i - n] \in K /\ more[i] = profile[others[i - n]]
    BY <1>5, <1>7, <1>8, <2>1
  <2>. QED  BY <1>3, <2>2
<1>14. Len(ids) <= Len(more) /\ \A i \in 1..Len(ids) : more[i] = ids[i]
  BY <1>2, <1>5, <1>6, <1>8
<1>15. ids # <<>>
  BY <1>2, <1>6, EmptySeq
<1>16. ~Satisfiable(rule, more)
  BY <1>1, <1>6, <1>12, <1>13, <1>14, <1>15, NoUse
<1>17. ~Satisfiable(rule, ids \o R)
  BY <1>16 DEF more
<1>. QED  BY <1>17 DEF RefusalIsJustified, ids, R, others, K

-----------------------------------------------------------------------------
(* The theorems.                                                           *)

\* Whatever requests a channel's orchestrators serve: at most two Evaluate
\* handlers ever wait for each other and the client's knows what it has tried;
\* and at each stage of an Endorse its candidates agree and come from distinct
\* signers, they are short of the policy as long as more are collected, and
\* what was selected or prepared is sound.
THEOREM Invariance == GatewaySpec => [](RInv /\ CInv)
<1>. USE RoutingAssumption
<1>1. GatewayInit => RInv /\ CInv
  BY RInvInit, CInvInit DEF GatewayInit
<1>2. RInv /\ CInv /\ [GatewayNext]_gatewayVars => (RInv /\ CInv)'
  <2>. SUFFICES ASSUME RInv, CInv, [GatewayNext]_gatewayVars PROVE RInv' /\ CInv'
    OBVIOUS
  <2>1. [RoutingNext]_routing /\ [Next]_vars
    BY DEF GatewayNext, gatewayVars
  <2>2. RInv'
    BY <2>1, RInvNext
  <2>3. CInv'
    BY <2>1, CInvNext
  <2>. QED  BY <2>2, <2>3
<1>. QED  BY <1>1, <1>2, PTL DEF GatewaySpec

\* evaluateRemote: whatever the contacts are, whichever replies are lost and
\* whoever still works for nobody, the proposal runs only at an organization
\* the client named, or at the orchestrator it called when it named none, and
\* no request is forwarded twice.
THEOREM RunsOnlyWhereAsked == GatewaySpec => []RunsWhereAsked
<1>1. RInv => RunsWhereAsked
  <2>1. CASE request = Nothing /\ RoutingInit
    BY <2>1, EmptySeq DEF RoutingInit, RunsWhereAsked
  <2>2. CASE request # Nothing /\ Started
    BY <2>2 DEF Started, Waiting, Allowed, RunsWhereAsked
  <2>. QED  BY <2>1, <2>2 DEF RInv
<1>2. GatewaySpec => [](RInv /\ CInv)
  BY Invariance
<1>. QED  BY <1>1, <1>2, PTL

\* evaluateRemote: the first answer that is no reason to try another contact is
\* the last that is heard, and "unavailable" is answered only after every
\* configured contact of every named organization was called.
THEOREM FirstAnswerEndsSearch == GatewaySpec => []FirstAnswerCounts
<1>1. RInv => FirstAnswerCounts
  <2>1. CASE request = Nothing /\ RoutingInit
    <3>1. reply # "unavailable" /\ heard = <<>>
      BY <2>1, RoutingAssumption DEF RoutingInit, WellConfigured, Replies, Retryable
    <3>2. DOMAIN heard = {}
      BY <3>1
    <3>. QED  BY <3>1, <3>2 DEF FirstAnswerCounts
  <2>2. CASE request # Nothing /\ Started
    BY <2>2 DEF Started
  <2>. QED  BY <2>1, <2>2 DEF RInv
<1>2. GatewaySpec => [](RInv /\ CInv)
  BY Invariance
<1>. QED  BY <1>1, <1>2, PTL

\* collectNamespaceEndorsements and assembleSelection: whatever the remotes
\* answer and in whichever order, the endorsements of a transaction agree with
\* the local execution and with the policy version of the invocation, come from
\* distinct signers, and, chosen automatically, satisfy the policy in the order
\* they are submitted.
THEOREM SelectionAlwaysValid == GatewaySpec => []SelectionIsValid
<1>1. CInv => SelectionIsValid
  BY DEF CInv, SelectedSound, SelectionIsValid
<1>2. GatewaySpec => [](RInv /\ CInv)
  BY Invariance
<1>. QED  BY <1>1, <1>2, PTL

\* assembleSelection's explicit branch: exactly one endorsement of each
\* organization the client named and none of another, though the local one
\* always executes and may not be among them.
THEOREM OnlyRequestedOrgsEndorse == GatewaySpec => []RequestedOrgsEndorse
<1>1. CInv => RequestedOrgsEndorse
  BY DEF CInv, SelectedSound, RequestedOrgsEndorse
<1>2. GatewaySpec => [](RInv /\ CInv)
  BY Invariance
<1>. QED  BY <1>1, <1>2, PTL

\* createGatewayTransaction and validateSubmissionEndorsements: what was
\* prepared under an automatic selection is rebuilt unchanged and accepted by
\* Submit until the policy is replaced, whatever the policy is.
THEOREM PreparedStaysSubmittable == GatewaySpec => []PreparedIsSubmittable
<1>1. CInv => PreparedIsSubmittable
  <2>. SUFFICES ASSUME CInv, pc = "prepared", requested = {}, version = selected[1].version
                PROVE  Rebuilds(selected) /\ ValidEndorsements(selected)
    BY DEF PreparedIsSubmittable
  <2>1. /\ selected \in Seq(Answers) /\ DistinctSigners(selected) /\ Satisfying(selected)
        /\ \A i \in 1..Len(selected) : selected[i].version = version
        /\ DOMAIN selected = 1..Len(selected)
    BY AnswersTyped DEF CInv, PreparedSound
  <2>2. Rebuilds(selected)
    BY <2>1, PackagedAsIs DEF Rebuilds
  <2>3. ValidEndorsements(selected)
    BY <2>1 DEF ValidEndorsements, Authenticate, DistinctSigners, Satisfying
  <2>. QED  BY <2>2, <2>3
<1>2. GatewaySpec => [](RInv /\ CInv)
  BY Invariance
<1>. QED  BY <1>1, <1>2, PTL

\* selectEndorsements: its search leaves out signers that match nothing and
\* equal profiles, and yet nobody else is asked to execute the proposal while
\* the candidates satisfy the policy in some order.
THEOREM AsksNobodyTooMany == GatewaySpec => []AsksOnlyWhileShort
<1>1. CInv => AsksOnlyWhileShort
  BY DEF CInv, Insufficient, AsksOnlyWhileShort
<1>2. GatewaySpec => [](RInv /\ CInv)
  BY Invariance
<1>. QED  BY <1>1, <1>2, PTL

\* inspectPrincipal's routing hints: when an automatic selection is refused for
\* want of signing identities, the orchestrators that were never asked could
\* not have helped.
THEOREM RefusalsAreJustified == GatewaySpec => []RefusalIsJustified
<1>1. CInv => RefusalIsJustified
  BY Refused
<1>2. GatewaySpec => [](RInv /\ CInv)
  BY Invariance
<1>. QED  BY <1>1, <1>2, PTL
=============================================================================

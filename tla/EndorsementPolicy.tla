-------------------------- MODULE EndorsementPolicy --------------------------
(***************************************************************************)
(* Namespace policy rules and the two ways to read them: Fabric's          *)
(* evaluator, and the search of orchestrator/endorsement_policy.go for     *)
(* endorsements that could satisfy a rule.  A rule is a tree:              *)
(*   [type |-> "signedBy", who |-> principal]                              *)
(*   [type |-> "nOutOf", n |-> number, rules |-> sequence of rules]        *)
(*   [type |-> "threshold", who |-> principal]    (one public key)         *)
(* Profiles (ids) and orders are those of EndorsementSelection, whose      *)
(* parameters EvaluateIdentities, Witnesses and Leaves these define.       *)
(***************************************************************************)
EXTENDS Naturals, Sequences, FiniteSets, SequencesExt

RECURSIVE Evaluate(_, _, _), Search(_, _, _), InspectRule(_)

\* Fabric's evaluator: every child of an nOutOf is visited, also beyond the
\* threshold, and a successful child keeps the signers it used.
Evaluate(rule, ids, used) ==
  IF rule.type \in {"signedBy", "threshold"}
  THEN LET free == {i \in DOMAIN ids \ used : rule.who \in ids[i]} IN
       IF free = {} THEN [ok |-> FALSE, used |-> used]
       ELSE [ok |-> TRUE, used |-> used \cup {CHOOSE i \in free : \A j \in free : i <= j}]
  ELSE LET visit(acc, child) ==
             LET r == Evaluate(child, ids, acc.used) IN
             IF r.ok THEN [met |-> acc.met + 1, used |-> r.used] ELSE acc
           end == FoldLeft(visit, [met |-> 0, used |-> used], rule.rules)
       IN [ok |-> end.met >= rule.n, used |-> end.used]

Satisfied(rule, ids) == Evaluate(rule, ids, {}).ok

\* selectEndorsements' search: every way to satisfy the rule with distinct
\* signers, extending order; an nOutOf takes exactly n of its children.
Search(rule, ids, order) ==
  IF rule.type # "nOutOf"
  THEN {Append(order, i) : i \in {j \in DOMAIN ids : /\ j \notin ToSet(order)
                                                     /\ rule.who \in ids[j]}}
  ELSE CASE rule.n = 0 -> {order}
         [] rule.n > Len(rule.rules) -> {}
         [] OTHER ->
              LET rest == Tail(rule.rules) IN
              Search([rule EXCEPT !.rules = rest], ids, order) \cup
              UNION {Search([rule EXCEPT !.n = @ - 1, !.rules = rest], ids, o) :
                       o \in Search(Head(rule.rules), ids, order)}

Found(rule, ids) == Search(rule, ids, <<>>)

\* inspectRule: the principals that occur in the rule.
InspectRule(rule) ==
  IF rule.type # "nOutOf" THEN {rule.who}
  ELSE UNION {InspectRule(rule.rules[i]) : i \in DOMAIN rule.rules}
=============================================================================

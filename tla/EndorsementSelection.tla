------------------------- MODULE EndorsementSelection -------------------------
(***************************************************************************)
(* The choice of endorsements that satisfy a namespace policy              *)
(* (orchestrator/endorsement_policy.go, selectEndorsements and             *)
(* searchSignatureOrders).                                                 *)
(*                                                                         *)
(* A signing identity matters only through the set of principals it        *)
(* satisfies, its profile; ids is the sequence of the candidates' profiles *)
(* and an order a sequence of distinct positions in it.  Fabric's evaluator*)
(* and the search through a rule's tree are parameters: what is chosen     *)
(* needs only some facts about them (EndorsementCollect), and a model gives*)
(* them the meaning of EndorsementPolicy.                                  *)
(***************************************************************************)
EXTENDS Naturals, Sequences, FiniteSets, SequencesExt

CONSTANTS EvaluateIdentities(_, _),  \* the rule accepts these profiles, in this order
          Witnesses(_, _),           \* the orders that satisfy the rule's tree
          Leaves(_)                  \* the principals of the rule

IsOrder(order, ids) == order \in Seq(DOMAIN ids) /\ IsInjective(order)

Chosen(ids, order) == [i \in DOMAIN order |-> ids[order[i]]]

\* EvaluateIdentities on the chosen identities, in their submitted order.
Accepts(r, ids, order) == EvaluateIdentities(r, Chosen(ids, order))

\* One signer of each profile that is still unused and matches something.
NextSigners(ids, order) ==
  {i \in DOMAIN ids \ ToSet(order) :
     /\ ids[i] # {}
     /\ \A j \in 1..(i - 1) : j \notin ToSet(order) => ids[j] # ids[i]}

\* Mutant of SearchSignatureOrders: witnesses and the full list are enough.
SearchNothing(r, ids) == {}

\* searchSignatureOrders: orders of other subsets, each extended by one signer
\* at a time as long as it is not accepted.
SearchSignatureOrders(r, ids) ==
  {o \in UNION {[1..n -> DOMAIN ids] : n \in 1..Len(ids)} :
     \A k \in DOMAIN o :
       /\ o[k] \in NextSigners(ids, SubSeq(o, 1, k - 1))
       /\ Accepts(r, ids, SubSeq(o, 1, k)) <=> k = Len(o)}

AnyOf(orders) == IF orders = {} THEN <<>> ELSE CHOOSE o \in orders : TRUE

\* selectEndorsements: a witness the evaluator accepts as submitted, else all
\* candidates, else another order; <<>> if there is none.  Which accepted
\* order comes first is left open.
SelectEndorsements(r, ids) ==
  LET all == [i \in DOMAIN ids |-> i]
      submitted == {IF o = <<>> THEN <<1>> ELSE o : o \in Witnesses(r, ids)}
      accepted == {o \in submitted : Accepts(r, ids, o)}
  IN IF r.type = "threshold" THEN <<1>>
     ELSE IF accepted # {} THEN AnyOf(accepted)
     ELSE IF Accepts(r, ids, all) THEN all
     ELSE IF submitted = {} THEN <<>>
     ELSE AnyOf(SearchSignatureOrders(r, ids))

-----------------------------------------------------------------------------
\* Reference: some nonempty order of distinct candidates is accepted.
Satisfiable(r, ids) ==
  \E n \in 1..Len(ids) : \E order \in [1..n -> DOMAIN ids] :
    IsInjective(order) /\ Accepts(r, ids, order)
=============================================================================

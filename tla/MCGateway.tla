------------------------------ MODULE MCGateway ------------------------------
(* TLC instance of Gateway: for Endorse two organizations, the local one   *)
(* with a second orchestrator, and policies of two levels; for Evaluate    *)
(* three organizations, a wrong static contact and an external resolver.   *)
EXTENDS Gateway, EndorsementPolicy

CONSTANTS oA, oB, oC, pA, pB, pC, sA, sA2, sB, eA, eB, a, b, x

\* Results and versions are only compared for equality.
Symmetry == Permutations(Results) \cup Permutations(Versions)

MCSignerOrg == [s \in Signers |-> IF s = sB THEN oB ELSE oA]
MCScope == [p \in Principals |-> CASE p = a -> oA [] p = b -> oB [] OTHER -> Unscoped]
MCHost == [e \in Endpoints |-> IF e = eB THEN oB ELSE oA]
MCIdentity == [e \in Endpoints |-> IF e = eB THEN sB ELSE sA2]

SignedBy(p) == [type |-> "signedBy", who |-> p]
NOutOf(n, rules) == [type |-> "nOutOf", n |-> n, rules |-> rules]

\* Every rule of two children over two principals, each child a principal or
\* again a rule of two principals.
RulesOver(P) ==
  LET leaves == {SignedBy(p) : p \in P}
      pairs == {NOutOf(n, <<l, m>>) : n \in 1..2, l \in leaves, m \in leaves}
  IN {NOutOf(n, <<l, m>>) : n \in 1..2, l \in leaves \cup pairs, m \in leaves \cup pairs}

MCRules ==
  RulesOver({a, x}) \cup RulesOver({a, b})
    \cup {NOutOf(0, <<>>), SignedBy(a), SignedBy(x), [type |-> "threshold", who |-> a],
          [type |-> "unsupported"]}

\* An update may stop or start to ask for anything.
MCUpdates == {NOutOf(0, <<>>), SignedBy(a)}

\* The first contact of oB is an orchestrator of oC; the external resolver may
\* name a wrong one for oC.
MCOrg == [p \in Orchestrators |-> CASE p = pA -> oA [] p = pB -> oB [] OTHER -> oC]
MCStatic == [t \in Msps |-> CASE t = oA -> <<pA>> [] t = oB -> <<pC, pB>> [] OTHER -> <<>>]
MCLocated == [t \in Msps |-> IF t = oC THEN {pC, pA} ELSE {}]
MCTargetLists == UNION {[1..n -> Msps] : n \in 0..2}
=============================================================================

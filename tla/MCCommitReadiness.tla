-------------------------- MODULE MCCommitReadiness --------------------------
(* TLC instance of CommitReadiness.                                        *)
EXTENDS CommitReadiness

CONSTANTS oA, oB, r1, r2, v1, v2

\* One request in each of two organizations.
HomeTwo == [r \in Requests |-> IF r = r1 THEN oA ELSE oB]

\* One organization works on v1; the other also tries v2 at sequence 2.
OfferedTwo ==
  [o \in Orgs |-> {[seq |-> 1, ver |-> v1], [seq |-> 2, ver |-> v1]}
                 \cup IF o = oA THEN {} ELSE {[seq |-> 2, ver |-> v2]}]
=============================================================================

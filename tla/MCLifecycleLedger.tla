-------------------------- MODULE MCLifecycleLedger --------------------------
(* TLC instances of LifecycleLedger.                                       *)
EXTENDS LifecycleLedger

CONSTANTS oA, oB, oC, cA, cB, cC, n1, n2, v1, v2

\* What can still matter of a state: not what a finished request, an object
\* nobody can reach any more or a settled transaction leaves behind.
Reachable(p) ==
  \/ op[p] # None /\ opmap[op[p].org][KeyOf(op[p].job)] = p
  \/ \E a \in Actors : held[a] = p
  \/ \E o \in Orgs : p \in batch[o]

View ==
  <<ledgerVars, ntx, opmap, nop, mirror, batch, sync, requests, crashes,
    [t \in TxIds |-> IF tx[t] # None /\ tx[t].status \in Final THEN tx[t].status ELSE tx[t]],
    [p \in OpIds |-> IF Reachable(p) THEN <<op[p], gate[p]>> ELSE None],
    [a \in Actors |-> IF pc[a] \in {"idle", "done"} THEN None
                      ELSE <<pc[a], stage[a], job[a], held[a],
                             IF pc[a] \in {"readHigh", "readIndex", "applyWrite"}
                             THEN read[a] ELSE None,
                             IF pc[a] \in {"applyRead", "applyWrite"} THEN target[a] ELSE None>>]>>

\* Two requests in one organization.
HomeOne == [c \in Callers |-> oA]

\* Two organizations committing against each other.
HomeTwo == [c \in Callers |-> IF c = cB THEN oB ELSE oA]

Kinds == [name : Names, ver : Versions, event : Events]

\* Any request may be of any kind.
DutyAny == [c \in Callers |-> Kinds]

\* One request commits, the other commits the same or completes its Init.
DutySplit == [c \in Callers |-> IF c = cA THEN {k \in Kinds : k.event = "commit"} ELSE Kinds]

\* One organization works on v1 of n1, the other on v2 and on another name.
DutyNames ==
  [c \in Callers |-> IF c = cA THEN {k \in Kinds : k.name = n1 /\ k.ver = v1}
                     ELSE {[name |-> n1, ver |-> v2, event |-> "commit"],
                           [name |-> n2, ver |-> v2, event |-> "commit"]}]
=============================================================================

-------------------------- MODULE LifecycleContract --------------------------
(***************************************************************************)
(* What lifecycle operations promise, whatever the organizations do at the *)
(* same time: one append-only log, in which every chaincode name's         *)
(* revisions follow each other without gap or repetition and a revision    *)
(* that needs initialization is marked initialized at most once and before *)
(* its successor; and in every organization a committed table that shows,  *)
(* for each name, a revision exactly as the log has it, moving only        *)
(* forward until the orchestrator restarts.                                *)
(***************************************************************************)
EXTENDS Naturals, Sequences

CONSTANTS Orgs,          \* organizations
          Names,         \* chaincode names
          Versions,      \* definition versions
          InitVersions,  \* versions whose definition sets init_required
          None

VARIABLES log,    \* entries [def, event, init] in the order they were committed
          table   \* table[o][n]: [seq, ver, init], seq 0 when o knows none

contract == <<log, table>>

Unknown == [seq |-> 0, ver |-> None, init |-> FALSE]

\* What an entry says about its name.
Shown(e) == [seq |-> e.def.seq, ver |-> e.def.ver, init |-> e.init]

\* The last word on name n.
Newest(n) ==
  LET of == {i \in DOMAIN log : log[i].def.name = n} IN
  IF of = {} THEN Unknown
  ELSE Shown(log[CHOOSE i \in of : \A j \in of : j <= i])

Init ==
  /\ log = <<>>
  /\ table = [o \in Orgs |-> [n \in Names |-> Unknown]]

CommitRevision(n, v) ==
  /\ UNCHANGED table
  /\ log' = Append(log, [def |-> [name |-> n, seq |-> Newest(n).seq + 1, ver |-> v],
                         event |-> "commit", init |-> v \notin InitVersions])

MarkInitialized(n) ==
  LET r == Newest(n) IN
  /\ UNCHANGED table
  /\ r.seq > 0 /\ ~r.init
  /\ log' = Append(log, [def |-> [name |-> n, seq |-> r.seq, ver |-> r.ver],
                         event |-> "initialized", init |-> TRUE])

\* The organization moves to a newer revision, or learns that the one it has
\* is initialized.
Learn(o, e) ==
  LET seen == table[o][e.def.name] IN
  /\ table' = [table EXCEPT ![o][e.def.name] = Shown(e)]
  /\ e.def.seq >= seen.seq
  /\ e.def.seq = seen.seq /\ seen.init => e.init
  /\ UNCHANGED log

Restart(o) ==
  /\ table' = [table EXCEPT ![o] = [n \in Names |-> Unknown]]
  /\ UNCHANGED log

Next ==
  \/ \E n \in Names : MarkInitialized(n) \/ \E v \in Versions : CommitRevision(n, v)
  \/ \E o \in Orgs : Restart(o) \/ \E i \in DOMAIN log : Learn(o, log[i])

Spec == Init /\ [][Next]_contract
=============================================================================

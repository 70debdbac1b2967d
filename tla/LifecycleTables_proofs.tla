----------------------- MODULE LifecycleTables_proofs -----------------------
(***************************************************************************)
(* Proofs about the committed tables of LifecycleLedger, from the          *)
(* invariant of LifecycleLedger_proofs: what a replay restores, whom a     *)
(* successful request has reached, and that the ledger and the tables      *)
(* together implement LifecycleContract.                                   *)
(*                                                                         *)
(* The invariant added here is Tables: an organization that has been told  *)
(* of an operation knows it while it serves, and while it replays the      *)
(* index the operation's entry is at or below the watermark the replay     *)
(* started with.  A crash between the update and the report of success     *)
(* therefore costs nothing: the replay brings the update back.             *)
(***************************************************************************)
EXTENDS LifecycleLedger_proofs, SequenceTheorems

\* Organization o has entry i of the log, or a later one of its name.
KnownIn(o, i) ==
  LET m == mirror[o][index[i].def.name] IN
  \/ m.seq > index[i].def.seq
  \/ m.seq = index[i].def.seq /\ (index[i].init => m.init)

SyncSound(o) ==
  ~Up(o) =>
    /\ 1 <= sync[o].at /\ sync[o].to <= high.value
    /\ \A i \in 1..sync[o].to : i < sync[o].at => KnownIn(o, i)

TableLogged(o) ==
  \A n \in Names : mirror[o][n].seq # 0 =>
    \E i \in 1..high.value : index[i].def = DefOf(n, mirror[o][n])

\* Operation j is in the log, and organization o knows it or will when it
\* serves again.
Told(o, j) ==
  /\ Up(o) => Knows(o, j)
  /\ \E i \in 1..high.value :
       /\ index[i].def = j.def
       /\ j.event = "initialized" => index[i].init
       /\ ~Up(o) => i <= sync[o].to

ServingSound(a) ==
  /\ pc[a] \notin {"idle", "done"} => Up(OrgOf(a))
  /\ pc[a] \in {"applyRead", "applyWrite"} => Up(target[a])
  /\ \/ pc[a] = "spread"
     \/ pc[a] \in {"applyRead", "applyWrite"} /\ target[a] # OrgOf(a)
     => Told(OrgOf(a), job[a])

ProgressSound(p) ==
  op[p].resolved => \A o \in Static \ op[p].left : Told(o, op[p].job)

Tables ==
  /\ \A o \in Orgs : SyncSound(o) /\ TableLogged(o)
  /\ \A a \in Actors : ServingSound(a)
  /\ \A p \in 1..nop : ProgressSound(p)

-----------------------------------------------------------------------------
(* What a step does to the tables.                                         *)

\* The log only grows.
LogKept ==
  /\ high.value <= high'.value
  /\ \A i \in 1..high.value : index'[i] = index[i]

\* The table of o only moves forward.
TableMoved(o) ==
  \A n \in Names :
    \/ mirror'[o][n].seq > mirror[o][n].seq
    \/ mirror'[o][n].seq = mirror[o][n].seq /\ (mirror[o][n].init => mirror'[o][n].init)

\* Nothing that was said about the tables is taken back.
Steady ==
  /\ \A o \in Orgs : SyncSound(o)' /\ TableLogged(o)'
  /\ \A o \in Orgs, j \in Job : Told(o, j) => Told(o, j)'

\* What the types say about the numbers.
LEMMA Numbers ==
  ASSUME Control, Ledger
  PROVE  /\ high.value \in Nat
         /\ \A o \in Orgs : sync[o].at \in Nat /\ sync[o].to \in Nat
         /\ \A o \in Orgs, n \in Names : mirror[o][n].seq \in Nat /\ mirror[o][n] \in TableRow
         /\ \A i \in 1..high.value : index[i].def \in Defs
         /\ \A i \in 1..high.value : index[i].def.seq \in Nat /\ index[i].def.name \in Names
         /\ \A j \in Job : j.def \in Defs
         /\ \A d \in Defs : d.seq \in Nat /\ d.seq # 0 /\ d.name \in Names
<1>1. /\ \A o \in Orgs : sync[o].at \in Nat /\ sync[o].to \in Nat
  BY LifecycleAssumption DEF Control, LedgerTypes
<1>2. \A o \in Orgs, n \in Names : mirror[o][n].seq \in Nat /\ mirror[o][n] \in TableRow
  BY DEF Control, LedgerTypes, TableRow
<1>3. /\ \A j \in Job : j.def \in Defs
      /\ \A d \in Defs : d.seq \in Nat /\ d.seq # 0 /\ d.name \in Names
  BY LifecycleAssumption DEF Job, Defs
<1>4. \A i \in 1..high.value : index[i].def.seq \in Nat /\ index[i].def.name \in Names
  BY <1>3, LogTyped
<1>. QED  BY <1>1, <1>2, <1>3, <1>4, LogTyped

LEMMA NumbersNext ==
  ASSUME Control'
  PROVE  /\ high'.value \in Nat
         /\ \A o \in Orgs, n \in Names : mirror'[o][n].seq \in Nat
BY DEF Control, LedgerTypes, Watermark, TableRow

\* An organization that knows something still does after its table moved.
LEMMA ToldStays ==
  ASSUME Control, Control', Ledger, Ledger', NEW o \in Orgs, LogKept, sync'[o] = sync[o],
         TableMoved(o), NEW j \in Job, Told(o, j)
  PROVE  Told(o, j)'
<1>1. Up(o)' <=> Up(o)
  BY DEF Up
<1>2. Up(o) => Knows(o, j)'
  <2>1. j.def.name \in Names /\ j.def.seq \in Nat
    BY Numbers
  <2>2. mirror[o][j.def.name].seq \in Nat /\ mirror'[o][j.def.name].seq \in Nat
    BY <2>1, Numbers, NumbersNext
  <2>. QED  BY <2>1, <2>2 DEF Told, Knows, TableMoved
<1>3. PICK i \in 1..high.value : /\ index[i].def = j.def
                                 /\ j.event = "initialized" => index[i].init
                                 /\ ~Up(o) => i <= sync[o].to
  BY DEF Told
<1>4. i \in 1..high'.value /\ index'[i] = index[i]
  BY Numbers, NumbersNext DEF LogKept
<1>. QED  BY <1>1, <1>2, <1>3, <1>4 DEF Told

LEMMA SyncStays ==
  ASSUME Control, Control', Ledger, Ledger', NEW o \in Orgs, LogKept, sync'[o] = sync[o],
         TableMoved(o), SyncSound(o)
  PROVE  SyncSound(o)'
<1>. SUFFICES ASSUME ~Up(o)'
              PROVE  /\ 1 <= sync'[o].at /\ sync'[o].to <= high'.value
                     /\ \A i \in 1..sync'[o].to : i < sync'[o].at => KnownIn(o, i)'
  BY DEF SyncSound
<1>1. /\ 1 <= sync[o].at /\ sync[o].to <= high.value
      /\ \A i \in 1..sync[o].to : i < sync[o].at => KnownIn(o, i)
  BY DEF SyncSound, Up
<1>2. sync'[o].to <= high'.value
  BY <1>1, Numbers, NumbersNext DEF LogKept
<1>3. ASSUME NEW i \in 1..sync[o].to, i < sync[o].at PROVE KnownIn(o, i)'
  <2>1. KnownIn(o, i) /\ i \in 1..high.value /\ index'[i] = index[i]
    BY <1>1, <1>3, Numbers DEF LogKept
  <2>2. index[i].def.name \in Names /\ index[i].def.seq \in Nat
    BY <2>1, Numbers
  <2>3. mirror[o][index[i].def.name].seq \in Nat /\ mirror'[o][index[i].def.name].seq \in Nat
    BY <2>2, Numbers, NumbersNext
  <2>. QED  BY <2>1, <2>2, <2>3 DEF KnownIn, TableMoved
<1>. QED  BY <1>1, <1>2, <1>3

LEMMA LoggedStays ==
  ASSUME Control, Control', Ledger, LogKept, NEW o \in Orgs, mirror'[o] = mirror[o], TableLogged(o)
  PROVE  TableLogged(o)'
<1>. SUFFICES ASSUME NEW n \in Names, mirror'[o][n].seq # 0
              PROVE  \E i \in 1..high'.value : index'[i].def = DefOf(n, mirror'[o][n])
  BY DEF TableLogged, DefOf
<1>1. PICK i \in 1..high.value : index[i].def = DefOf(n, mirror[o][n])
  BY DEF TableLogged
<1>2. i \in 1..high'.value /\ index'[i] = index[i]
  BY Numbers, NumbersNext DEF LogKept
<1>. QED  BY <1>1, <1>2

LEMMA StandingTable ==
  ASSUME NEW o \in Orgs, mirror'[o] = mirror[o]
  PROVE  TableMoved(o)
BY DEF TableMoved

\* The log may grow, the tables stand still.
LEMMA QuietTables ==
  ASSUME Control, Control', Ledger, Ledger', Tables, LogKept, UNCHANGED <<mirror, sync>>
  PROVE  Steady
<1>1. \A o \in Orgs : SyncSound(o) /\ TableLogged(o) /\ TableMoved(o)
  BY StandingTable DEF Tables
<1>. QED  BY <1>1, ToldStays, SyncStays, LoggedStays DEF Steady

LEMMA LedgerStands ==
  ASSUME Control, UNCHANGED <<row, high, index>>
  PROVE  LogKept
BY DEF LogKept, Control, LedgerTypes, Watermark

-----------------------------------------------------------------------------
(* Copying a logged definition.                                            *)

\* upsertCommitted keeps the row or replaces it by what it was given.
LEMMA UpsertCases ==
  ASSUME NEW m \in TableRow, NEW d \in Defs, NEW b \in BOOLEAN,
         m.seq = d.seq => m.ver = d.ver, NEW u, u = Upsert(m, d, b)
  PROVE  \/ u = m /\ (m.seq > d.seq \/ (m.seq = d.seq /\ (b => m.init)))
         \/ /\ u = [seq |-> d.seq, ver |-> d.ver, init |-> b]
            /\ d.seq > m.seq \/ (d.seq = m.seq /\ (m.init => b))
<1>1. m.seq \in Nat /\ d.seq \in Nat /\ m.init \in BOOLEAN
  BY LifecycleAssumption DEF TableRow, Defs
<1>2. CASE d.seq > m.seq
  <2>1. d.seq # m.seq
    BY <1>1, <1>2
  <2>2. u = [seq |-> d.seq, ver |-> d.ver, init |-> b]
    BY <1>2, <2>1, Zenon DEF Upsert
  <2>. QED  BY <1>2, <2>2
<1>3. CASE d.seq = m.seq
  <2>1. ~(d.seq > m.seq)
    BY <1>1, <1>3
  <2>2. u = [m EXCEPT !.init = m.init \/ b]
    BY <1>3, <2>1 DEF Upsert
  <2>3. m = [seq |-> m.seq, ver |-> m.ver, init |-> m.init]
    BY DEF TableRow
  <2>4. u = [seq |-> m.seq, ver |-> m.ver, init |-> m.init \/ b]
    BY <2>2 DEF TableRow
  <2>5. CASE m.init
    <3>1. (m.init \/ b) = m.init
      BY <1>1, <2>5
    <3>. QED  BY <1>3, <2>3, <2>4, <2>5, <3>1
  <2>6. CASE ~m.init
    <3>1. (m.init \/ b) = b
      BY <2>6
    <3>. QED  BY <1>3, <2>4, <2>6, <3>1
  <2>. QED  BY <2>5, <2>6
<1>4. CASE m.seq > d.seq
  <2>1. ~(d.seq > m.seq) /\ d.seq # m.seq
    BY <1>1, <1>4
  <2>2. u = m
    BY <2>1, Zenon DEF Upsert
  <2>. QED  BY <1>4, <2>2
<1>. QED  BY <1>1, <1>2, <1>3, <1>4

\* A table and the log agree on the version of a sequence.
LEMMA VersionsAgree ==
  ASSUME Control, Ledger, NEW o \in Orgs, TableLogged(o), NEW d \in Defs, NEW b, Logged(d, b),
         mirror[o][d.name].seq = d.seq
  PROVE  mirror[o][d.name].ver = d.ver
<1> DEFINE m == mirror[o][d.name]
<1>1. d.name \in Names /\ d.seq # 0
  BY Numbers
<1>2. PICK i \in 1..high.value : index[i].def = DefOf(d.name, m)
  BY <1>1 DEF TableLogged
<1>3. PICK k \in 1..high.value : index[k].def = d
  BY DEF Logged
<1>4. index[i].def.name = d.name /\ index[i].def.seq = d.seq /\ index[i].def.ver = m.ver
  BY <1>2 DEF DefOf
<1>5. index[i].def = index[k].def
  BY <1>3, <1>4 DEF Ledger, LogUnique
<1>. QED  BY <1>3, <1>4, <1>5

\* Definition d with flag b is offered to the table of o.
Copies(o, d, b) == mirror' = [mirror EXCEPT ![o][d.name] = Upsert(@, d, b)]

\* The table of o moves to definition d with flag b.
Learns(o, d, b) ==
  LET m == mirror[o][d.name] IN
  /\ mirror' = [mirror EXCEPT ![o][d.name] = [seq |-> d.seq, ver |-> d.ver, init |-> b]]
  /\ d.seq > m.seq \/ (d.seq = m.seq /\ (m.init => b))

\* The table of o has sequence d.seq of d's name, with flag b, or a later one.
Holds(o, d, b) ==
  LET m == mirror[o][d.name] IN
  m.seq > d.seq \/ (m.seq = d.seq /\ (b => m.init))

\* What copying a logged definition into the table of o does.
LEMMA CopyLogged ==
  ASSUME Control, Ledger, \A u \in Orgs : TableLogged(u), NEW o \in Orgs,
         NEW d \in Defs, NEW b \in BOOLEAN, Logged(d, b), UNCHANGED <<row, high, index>>,
         Copies(o, d, b)
  PROVE  /\ \A u \in Orgs : TableMoved(u) /\ TableLogged(u)'
         /\ Holds(o, d, b)'
         /\ mirror' = mirror \/ Learns(o, d, b)
<1> DEFINE n == d.name
           m == mirror[o][n]
           new == [seq |-> d.seq, ver |-> d.ver, init |-> b]
<1>1. n \in Names /\ m \in TableRow /\ m.seq \in Nat /\ d.seq \in Nat
      /\ mirror \in [Orgs -> [Names -> TableRow]]
  BY Numbers DEF Control, LedgerTypes
<1>2. PICK u : u = Upsert(m, d, b)
  OBVIOUS
<1>3. mirror' = [mirror EXCEPT ![o][n] = u]
  BY <1>2 DEF Copies
<1>4. /\ mirror'[o][n] = u
      /\ \A v \in Orgs, k \in Names : v # o \/ k # n => mirror'[v][k] = mirror[v][k]
  BY <1>1, <1>3
<1>5. m.seq = d.seq => m.ver = d.ver
  BY VersionsAgree
<1>6. CASE u = m /\ (m.seq > d.seq \/ (m.seq = d.seq /\ (b => m.init)))
  <2>1. mirror' = mirror
    BY <1>1, <1>3, <1>6
  <2>2. \A v \in Orgs : TableMoved(v)
    BY <2>1, StandingTable
  <2>3. \A v \in Orgs : TableLogged(v)'
    BY <2>1 DEF TableLogged, DefOf
  <2>. QED  BY <1>4, <1>6, <2>1, <2>2, <2>3 DEF Holds
<1>7. CASE u = new /\ (d.seq > m.seq \/ (d.seq = m.seq /\ (m.init => b)))
  <2>1. u.seq = d.seq /\ u.ver = d.ver /\ u.init = b
    BY <1>7
  <2>2. ASSUME NEW v \in Orgs PROVE TableMoved(v)
    <3>. SUFFICES ASSUME NEW k \in Names
                  PROVE  \/ mirror'[v][k].seq > mirror[v][k].seq
                         \/ /\ mirror'[v][k].seq = mirror[v][k].seq
                            /\ mirror[v][k].init => mirror'[v][k].init
      BY DEF TableMoved
    <3>1. CASE v = o /\ k = n
      BY <1>1, <1>4, <1>7, <2>1, <3>1
    <3>2. CASE v # o \/ k # n
      BY <1>4, <3>2
    <3>. QED  BY <3>1, <3>2
  <2>3. ASSUME NEW v \in Orgs PROVE TableLogged(v)'
    <3>. SUFFICES ASSUME NEW k \in Names, mirror'[v][k].seq # 0
                  PROVE  \E i \in 1..high.value : index[i].def = DefOf(k, mirror'[v][k])
      BY DEF TableLogged, DefOf
    <3>1. CASE v = o /\ k = n
      <4>1. PICK i \in 1..high.value : index[i].def = d
        BY DEF Logged
      <4>2. DefOf(k, u) = d
        BY <2>1, <3>1 DEF DefOf, Defs
      <4>. QED  BY <1>4, <3>1, <4>1, <4>2
    <3>2. CASE v # o \/ k # n
      BY <1>4, <3>2 DEF TableLogged
    <3>. QED  BY <3>1, <3>2
  <2>4. Learns(o, d, b)
    BY <1>3, <1>7 DEF Learns
  <2>5. Holds(o, d, b)'
    BY <1>4, <2>1 DEF Holds
  <2>. QED  BY <2>2, <2>3, <2>4, <2>5
<1>. QED  BY <1>1, <1>2, <1>5, <1>6, <1>7, UpsertCases

-----------------------------------------------------------------------------
(* Tables is inductive: the actors.                                        *)

\* Whoever does not move keeps what it relies on.
LEMMA ServingStays ==
  ASSUME Control, Tables, Steady, NEW a \in Actors,
         pc'[a] = pc[a], job'[a] = job[a], target'[a] = target[a],
         Up(OrgOf(a)) => Up(OrgOf(a))',
         pc[a] \in {"applyRead", "applyWrite"} /\ Up(target[a]) => Up(target[a])'
  PROVE  ServingSound(a)'
<1>1. ServingSound(a) /\ OrgOf(a) \in Orgs
  BY OrgOfActor DEF Tables
<1>2. pc[a] \in {"spread", "applyRead", "applyWrite"} => job[a] \in Job
  BY AtWork DEF Working
<1>3. PICK o, j : o = OrgOf(a) /\ j = job[a]
  OBVIOUS
<1>4. Told(o, j) /\ j \in Job => Told(o, j)'
  BY <1>1, <1>3 DEF Steady
<1>5. Told(OrgOf(a), job[a])' <=> Told(o, j)'
  BY <1>3 DEF OrgOf
<1>. QED  BY <1>1, <1>2, <1>3, <1>4, <1>5 DEF ServingSound, OrgOf

\* An actor that has nothing to do with tables.
LEMMA ServingAside ==
  ASSUME NEW a \in Actors, pc'[a] \notin {"spread", "applyRead", "applyWrite"},
         pc'[a] \notin {"idle", "done"} => Up(OrgOf(a))'
  PROVE  ServingSound(a)'
BY DEF ServingSound

\* An object whose progress is not written.
LEMMA ProgressStays ==
  ASSUME Control, Tables, Steady, NEW p \in 1..nop, op'[p].job = op[p].job,
         op'[p].resolved = op[p].resolved, op'[p].left = op[p].left
  PROVE  ProgressSound(p)'
<1>1. ProgressSound(p)
  BY DEF Tables
<1>2. op[p].job \in Job
  BY DEF Control, ObjectTypes, Object
<1>3. PICK j \in Job : j = op[p].job
  BY <1>2
<1>. SUFFICES ASSUME op'[p].resolved, NEW o \in Static \ op'[p].left, o \in Orgs PROVE Told(o, j)'
  BY <1>3, LifecycleAssumption DEF ProgressSound
<1>4. Told(o, j)
  BY <1>1, <1>3 DEF ProgressSound
<1>. QED  BY <1>4 DEF Steady

\* A step of actor a at work, from its own part.
LEMMA WorkSteady ==
  ASSUME Control, Tables, Steady, NEW a \in Actors, pc[a] \in Working, WorkFrame(a),
         UNCHANGED sync, ServingSound(a)', NEW p, p = held[a], ProgressSound(p)'
  PROVE  Tables'
<1>1. \A b \in Actors : b # a => ServingSound(b)'
  BY ServingStays DEF WorkFrame, Up
<1>2. ASSUME NEW q \in 1..nop, q # p PROVE ProgressSound(q)'
  <2>1. q \in OpIds
    BY LifecycleAssumption DEF Control, ObjectTypes, OpIds
  <2>2. op'[q] = op[q]
    BY <1>2, <2>1 DEF WorkFrame
  <2>. QED  BY <2>2, ProgressStays
<1>3. nop' = nop
  BY DEF WorkFrame
<1>. QED  BY <1>1, <1>2, <1>3 DEF Tables, Steady

\* The steps that neither write nor spread leave the progress alone.
ReceiptEdit(a, x, s) ==
  \/ UNCHANGED op
  \/ op' = [op EXCEPT ![held[a]].tx = x]
  \/ op' = [op EXCEPT ![held[a]].status = s]
  \/ op' = [op EXCEPT ![held[a]].tx = x, ![held[a]].status = s]

LEMMA ReceiptOnly ==
  ASSUME Control, NEW a \in Actors, pc[a] \in Working, NEW x, NEW s, ReceiptEdit(a, x, s)
  PROVE  /\ op'[held[a]].resolved = op[held[a]].resolved
         /\ op'[held[a]].left = op[held[a]].left
<1>1. op[held[a]] \in Object /\ held[a] \in OpIds /\ op \in [OpIds -> Object \cup {None}]
  BY AtWork DEF Control, ObjectTypes
<1>2. PICK y : y = op[held[a]]
  OBVIOUS
<1>3. op'[held[a]] \in {y, [y EXCEPT !.tx = x], [y EXCEPT !.status = s],
                        [[y EXCEPT !.tx = x] EXCEPT !.status = s]}
  BY <1>1, <1>2 DEF ReceiptEdit
<1>4. y \in Object
  BY <1>1, <1>2
<1>5. ASSUME NEW z \in {y, [y EXCEPT !.tx = x], [y EXCEPT !.status = s],
                        [[y EXCEPT !.tx = x] EXCEPT !.status = s]}
      PROVE  z.resolved = y.resolved /\ z.left = y.left
  BY <1>4, <1>5 DEF Object
<1>. QED  BY <1>2, <1>3, <1>5

LEMMA ReceiptWorkKeepsTables ==
  ASSUME Control, Control', Ledger, Ledger', Tables, NEW a \in Actors, WorkFrame(a),
         \/ Advance(a) \/ ReadRow(a) \/ ReadHigh(a) \/ ReadIndex(a) \/ Send(a)
         \/ WaitFinality(a) \/ Finalize(a) \/ ApplyRead(a)
  PROVE  Tables'
<1>1. /\ UNCHANGED <<row, high, index>> /\ UNCHANGED <<mirror, sync>>
      /\ pc[a] \in Working
  BY DEF Advance, ReadRow, ReadHigh, ReadIndex, Send, WaitFinality, Finalize, Superseded, ApplyRead,
         ledgerVars, Working
<1>2. Steady
  BY <1>1, LedgerStands, QuietTables
<1>3. PICK x, s : ReceiptEdit(a, x, s)
  <2>1. CASE Finalize(a) \/ ApplyRead(a) \/ ReadHigh(a)
    BY <2>1 DEF Finalize, Superseded, ApplyRead, ReadHigh, ReceiptEdit
  <2>2. CASE ReadIndex(a) \/ Send(a)
    BY <2>2 DEF ReadIndex, Send, ReceiptEdit
  <2>3. CASE ReadRow(a)
    BY <2>3 DEF ReadRow, ReceiptEdit
  <2>4. CASE Advance(a) \/ WaitFinality(a)
    BY <2>4 DEF Advance, WaitFinality, Observe, ReceiptEdit
  <2>. QED  BY <2>1, <2>2, <2>3, <2>4
<1>4. PICK p \in 1..nop : p = held[a]
  BY <1>1, AtWork
<1>5. ProgressSound(p)'
  <2>1. op'[p].resolved = op[p].resolved /\ op'[p].left = op[p].left
    BY <1>1, <1>3, <1>4, ReceiptOnly
  <2>2. op'[p].job = op[p].job
    BY <1>4 DEF WorkFrame
  <2>. QED  BY <1>2, <2>1, <2>2, ProgressStays
<1>6. ServingSound(a) /\ Up(OrgOf(a)) /\ OrgOf(a) \in Orgs
  BY <1>1, OrgOfActor DEF Tables, ServingSound, Working
<1>7. Up(OrgOf(a))'
  BY <1>1, <1>6 DEF Up, OrgOf
<1>8. ServingSound(a)'
  <2>1. CASE Finalize(a) /\ target' = [target EXCEPT ![a] = OrgOf(a)] /\ Goto(a, "applyRead")
    <3>1. pc'[a] = "applyRead" /\ target'[a] = OrgOf(a)
      BY <2>1, GoesTo DEF Control, ActorTypes
    <3>2. Up(target[a])'
      BY <1>7, <3>1 DEF Up, OrgOf
    <3>. QED  BY <1>7, <3>1, <3>2 DEF ServingSound, OrgOf
  <2>2. CASE ApplyRead(a) /\ Goto(a, "applyWrite")
    <3>1. pc[a] = "applyRead" /\ pc'[a] = "applyWrite" /\ UNCHANGED <<target, job>>
      BY <2>2, GoesTo DEF ApplyRead
    <3>2. Up(target[a])'
      BY <1>1, <1>6, <3>1 DEF ServingSound, Up
    <3>3. target[a] # OrgOf(a) => Told(OrgOf(a), job[a])'
      <4>1. PICK o, j : o = OrgOf(a) /\ j = job[a]
        OBVIOUS
      <4>2. j \in Job
        BY <1>1, <4>1, AtWork
      <4>3. target[a] # OrgOf(a) => Told(o, j)'
        BY <1>2, <1>6, <3>1, <4>1, <4>2 DEF ServingSound, Steady
      <4>. QED  BY <3>1, <4>1, <4>3 DEF OrgOf, Told, Knows, Up
    <3>. QED  BY <1>7, <3>1, <3>2, <3>3 DEF ServingSound, OrgOf
  <2>3. CASE pc'[a] \notin {"spread", "applyRead", "applyWrite"}
    BY <1>7, <2>3, ServingAside
  <2>4. pc'[a] \in {"spread", "applyRead", "applyWrite"} =>
          \/ Finalize(a) /\ target' = [target EXCEPT ![a] = OrgOf(a)] /\ Goto(a, "applyRead")
          \/ ApplyRead(a) /\ Goto(a, "applyWrite")
    <3>1. CASE Advance(a) \/ WaitFinality(a)
      BY <3>1, GoesTo DEF Advance, WaitFinality
    <3>2. CASE ReadRow(a) \/ ReadHigh(a)
      BY <3>2, GoesTo DEF ReadRow, ReadHigh
    <3>3. CASE ReadIndex(a) \/ Send(a)
      BY <3>3, GoesTo DEF ReadIndex, Send
    <3>4. CASE Finalize(a) \/ ApplyRead(a)
      BY <3>4, GoesTo DEF Finalize, Superseded, ApplyRead
    <3>. QED  BY <3>1, <3>2, <3>3, <3>4
  <2>. QED  BY <2>1, <2>2, <2>3, <2>4
<1>. QED  BY <1>1, <1>2, <1>4, <1>5, <1>8, WorkSteady

LEMMA ApplyWriteKeepsTables ==
  ASSUME Control, Control', Ledger, Ledger', Tables, NEW a \in Actors, WorkFrame(a), ApplyWrite(a)
  PROVE  Tables'
<1>1. /\ UNCHANGED <<row, high, index>> /\ UNCHANGED <<sync, job, target>>
      /\ pc[a] = "applyWrite" /\ pc[a] \in Working
  BY DEF ApplyWrite, ledgerVars, Working
<1>2. PICK o, p, j, d, b : /\ o = target[a] /\ p = held[a] /\ j = job[a] /\ d = job[a].def
                           /\ b = read[a].row.init
  OBVIOUS
<1>3. /\ o \in Orgs /\ p \in 1..nop /\ p \in OpIds /\ j \in Job /\ d \in Defs /\ d = j.def
      /\ b \in BOOLEAN /\ OrgOf(a) \in Orgs
  <2>1. o \in Orgs
    BY <1>1, <1>2 DEF Control, ActorsSound, ActorSound
  <2>2. p \in 1..nop /\ p \in OpIds /\ j \in Job
    BY <1>1, <1>2, AtWork
  <2>3. b \in BOOLEAN
    BY <1>2 DEF Control, ActorTypes, Row
  <2>. QED  BY <1>2, <2>1, <2>2, <2>3, OrgOfActor DEF Job
<1>4. Logged(d, b) /\ (j.event = "initialized" => b)
  BY <1>1, <1>2 DEF Ledger, ReadSound
<1>5. Copies(o, d, b)
  BY <1>2 DEF ApplyWrite, Copies
<1>6. \A u \in Orgs : SyncSound(u) /\ TableLogged(u)
  BY DEF Tables
<1>7. /\ \A u \in Orgs : TableMoved(u) /\ TableLogged(u)'
      /\ Holds(o, d, b)'
  BY <1>1, <1>3, <1>4, <1>5, <1>6, CopyLogged
<1>8. LogKept
  BY <1>1, LedgerStands
<1>9. Steady
  BY <1>1, <1>6, <1>7, <1>8, ToldStays, SyncStays DEF Steady
<1>10. ServingSound(a) /\ Up(o) /\ Up(OrgOf(a))
  BY <1>1, <1>2 DEF Tables, ServingSound
<1>11. Told(o, j)'
  <2>1. Knows(o, j)'
    BY <1>3, <1>4, <1>7 DEF Knows, Holds
  <2>2. Up(o)'
    BY <1>1, <1>10 DEF Up
  <2>3. PICK i \in 1..high.value : index[i].def = d /\ index[i].init = b
    BY <1>4 DEF Logged
  <2>. QED  BY <1>1, <1>3, <1>4, <2>1, <2>2, <2>3 DEF Told
<1>12. ServingSound(a)'
  <2>1. Up(OrgOf(a))'
    BY <1>1, <1>10 DEF Up, OrgOf
  <2>2. CASE Goto(a, "spread")
    <3>1. pc'[a] = "spread"
      BY <2>2, GoesTo
    <3>2. PICK w : w = OrgOf(a)
      OBVIOUS
    <3>3. Told(w, j)'
      <4>1. CASE o = w
        BY <1>11, <4>1
      <4>2. CASE o # w
        <5>1. Told(w, j)
          BY <1>1, <1>2, <1>10, <3>2, <4>2 DEF ServingSound
        <5>. QED  BY <1>3, <1>9, <3>2, <5>1 DEF Steady
      <4>. QED  BY <4>1, <4>2
    <3>4. Told(OrgOf(a), job[a])'
      BY <1>1, <1>2, <3>2, <3>3 DEF OrgOf, Told, Knows, Up
    <3>. QED  BY <2>1, <3>1, <3>4 DEF ServingSound, OrgOf
  <2>3. CASE LeaveVars(a)
    <3>1. pc'[a] \in {"done", "pick"}
      BY <2>3, GoesTo
    <3>. QED  BY <2>1, <3>1, ServingAside
  <2>. QED  BY <2>2, <2>3 DEF ApplyWrite
<1>13. ProgressSound(p)'
  <2>1. op[p] \in Object /\ op \in [OpIds -> Object \cup {None}] /\ op[p].job = j
    BY <1>1, <1>2, AtWork DEF Control, ObjectTypes
  <2>2. CASE UNCHANGED op
    BY <1>3, <1>9, <2>2, ProgressStays
  <2>3. CASE op' = [op EXCEPT ![p].left = @ \ {o}]
    <3>1. op'[p] = [op[p] EXCEPT !.left = op[p].left \ {o}]
      BY <1>3, <2>1, <2>3
    <3>2. /\ op'[p].left = op[p].left \ {o} /\ op'[p].resolved = op[p].resolved
          /\ op'[p].job = j
      BY <2>1, <3>1 DEF Object
    <3>. SUFFICES ASSUME op[p].resolved, NEW u \in Static \ (op[p].left \ {o}), u \in Orgs
                  PROVE  Told(u, j)'
      BY <3>2, LifecycleAssumption DEF ProgressSound
    <3>3. CASE u = o
      BY <1>11, <3>3
    <3>4. CASE u # o
      <4>1. Told(u, j)
        BY <1>3, <2>1, <3>4 DEF Tables, ProgressSound
      <4>. QED  BY <1>3, <1>9, <4>1 DEF Steady
    <3>. QED  BY <3>3, <3>4
  <2>. QED  BY <1>2, <2>2, <2>3 DEF ApplyWrite
<1>. QED  BY <1>1, <1>2, <1>9, <1>12, <1>13, WorkSteady

LEMMA SpreadKeepsTables ==
  ASSUME Control, Control', Ledger, Ledger', Tables, NEW a \in Actors, WorkFrame(a), Spread(a)
  PROVE  Tables'
<1>1. /\ UNCHANGED <<row, high, index>> /\ UNCHANGED <<mirror, sync>> /\ UNCHANGED job
      /\ pc[a] = "spread" /\ pc[a] \in Working
  BY DEF Spread, SpreadDone, SpreadOn, SpreadStops, ledgerVars, Working
<1>2. Steady
  BY <1>1, LedgerStands, QuietTables
<1>3. PICK p, j, w : p = held[a] /\ j = job[a] /\ w = OrgOf(a)
  OBVIOUS
<1>4. /\ p \in 1..nop /\ p \in OpIds /\ j \in Job /\ w \in Orgs /\ op[p] \in Object
      /\ op[p].job = j /\ op[p].org = w
  BY <1>1, <1>3, AtWork, OrgOfActor
<1>5. Told(w, j) /\ Up(w)
  BY <1>1, <1>3 DEF Tables, ServingSound
<1>6. Told(w, j)' /\ Up(w)'
  BY <1>1, <1>2, <1>4, <1>5 DEF Steady, Up
<1>7. ProgressSound(p)'
  <2>1. CASE UNCHANGED op
    BY <1>2, <1>4, <2>1, ProgressStays
  <2>2. ASSUME NEW left \in Outstanding(p), Listed(a, left) PROVE ProgressSound(p)'
    <3>1. op'[p] = [[op[p] EXCEPT !.resolved = TRUE] EXCEPT !.left = left]
      BY <1>3, <1>4, <2>2 DEF Control, ObjectTypes, Listed
    <3>2. op'[p].left = left /\ op'[p].job = j
      BY <1>4, <3>1 DEF Object
    <3>. SUFFICES ASSUME NEW u \in Static \ left, u \in Orgs PROVE Told(u, j)'
      BY <3>2, LifecycleAssumption DEF ProgressSound
    <3>3. CASE op[p].resolved
      <4>1. Told(u, j)
        BY <1>4, <2>2, <3>3 DEF Tables, ProgressSound, Outstanding
      <4>. QED  BY <1>2, <1>4, <4>1 DEF Steady
    <3>4. CASE ~op[p].resolved
      <4>1. u = w
        BY <1>4, <2>2, <3>4 DEF Outstanding, RemotePeers
      <4>. QED  BY <1>6, <4>1
    <3>. QED  BY <3>3, <3>4
  <2>. QED  BY <1>3, <2>1, <2>2 DEF Spread, SpreadDone, SpreadOn, SpreadStops
<1>8. ServingSound(a)'
  <2>1. CASE SpreadOn(a)
    <3>1. PICK o : Up(o) /\ target' = [target EXCEPT ![a] = o] /\ Goto(a, "applyRead")
      BY <2>1 DEF SpreadOn
    <3>2. pc'[a] = "applyRead" /\ target'[a] = o
      BY <3>1, GoesTo DEF Control, ActorTypes
    <3>3. Up(target[a])'
      BY <1>1, <3>1, <3>2 DEF Up
    <3>4. Told(OrgOf(a), job[a])' /\ Up(OrgOf(a))'
      BY <1>1, <1>3, <1>6 DEF OrgOf, Told, Knows, Up
    <3>. QED  BY <3>2, <3>3, <3>4 DEF ServingSound
  <2>2. CASE LeaveVars(a)
    <3>1. pc'[a] \in {"done", "pick"}
      BY <2>2, GoesTo
    <3>2. Up(OrgOf(a))'
      BY <1>3, <1>6 DEF OrgOf, Up
    <3>. QED  BY <3>1, <3>2, ServingAside
  <2>. QED  BY <2>1, <2>2 DEF Spread, SpreadDone, SpreadStops
<1>. QED  BY <1>1, <1>2, <1>3, <1>7, <1>8, WorkSteady

LEMMA WorkKeepsTables ==
  ASSUME Control, Control', Ledger, Ledger', Tables, NEW a \in Actors, WorkStep(a)
  PROVE  Tables'
<1>1. WorkFrame(a)
  BY WorkKeepsControl
<1>. QED  BY <1>1, ReceiptWorkKeepsTables, ApplyWriteKeepsTables, SpreadKeepsTables DEF WorkStep

-----------------------------------------------------------------------------
(* Tables is inductive: requests, passes, the committer, crashes.          *)

LEMMA CallersKeepTables ==
  ASSUME Control, Control', Ledger, Ledger', Tables, NEW a \in Callers,
         (\E j \in Job : Start(a, j)) \/ CallerStep(a)
  PROVE  Tables'
<1>1. /\ UNCHANGED <<row, high, index>> /\ UNCHANGED <<mirror, sync>> /\ UNCHANGED target
      /\ a \in Actors /\ OrgOf(a) = Home[a]
  BY DEF Start, CallerStep, Operation, TakeGate, ledgerVars, Actors, OrgOf
<1>2. Steady
  BY <1>1, LedgerStands, QuietTables
<1>3. /\ pc'[a] \in {"op", "gate", "advance", "finalize", "done"}
      /\ \A b \in Actors : b # a => pc'[b] = pc[b] /\ job'[b] = job[b]
  <2>1. pc \in [Actors -> Labels] /\ job \in [Actors -> Job \cup {None}]
    BY DEF Control, ActorTypes
  <2>2. CASE \E j \in Job : Start(a, j)
    BY <1>1, <2>1, <2>2 DEF Start, Goto
  <2>3. CASE CallerStep(a)
    <3>1. UNCHANGED job /\ \E l \in {"gate", "advance", "finalize", "done"} : Goto(a, l)
      BY <2>3 DEF CallerStep, Operation, TakeGate
    <3>. QED  BY <1>1, <2>1, <3>1 DEF Goto
  <2>. QED  BY <2>2, <2>3
<1>4. Up(OrgOf(a))'
  <2>1. Up(OrgOf(a))
    <3>1. CASE \E j \in Job : Start(a, j)
      BY <1>1, <3>1 DEF Start
    <3>2. CASE CallerStep(a)
      <4>1. pc[a] \notin {"idle", "done"}
        BY <3>2 DEF CallerStep, Operation, TakeGate
      <4>. QED  BY <1>1, <4>1 DEF Tables, ServingSound
    <3>. QED  BY <3>1, <3>2
  <2>. QED  BY <1>1, <2>1 DEF Up, OrgOf
<1>5. \A b \in Actors : ServingSound(b)'
  BY <1>1, <1>2, <1>3, <1>4, ServingStays, ServingAside DEF Up
<1>6. ASSUME NEW p \in 1..nop' PROVE ProgressSound(p)'
  <2>1. CASE UNCHANGED <<op, nop>>
    BY <1>2, <2>1, ProgressStays
  <2>2. CASE \E w \in Actors \cup {None} : Creates(a, w)
    <3>1. PICK w \in Actors \cup {None} : Creates(a, w)
      BY <2>2
    <3>2. pc[a] = "op" /\ UNCHANGED ntx
      <4>1. nop' = nop + 1
        BY <3>1 DEF Creates
      <4>2. nop \in Nat
        BY LifecycleAssumption DEF Control, ObjectTypes
      <4>3. nop' # nop
        BY <4>1, <4>2
      <4>. QED  BY <4>3 DEF Start, CallerStep, Operation, TakeGate, opVars, txVars
    <3>3. /\ \A q \in 1..nop : op'[q] = op[q]
          /\ ~op'[nop + 1].resolved /\ nop \in Nat /\ nop' = nop + 1
      BY <3>1, <3>2, CreateKeepsObjects DEF Creates
    <3>4. CASE p \in 1..nop
      BY <1>2, <3>3, <3>4, ProgressStays
    <3>5. CASE p \notin 1..nop
      <4>1. p = nop + 1
        BY <3>3, <3>5
      <4>. QED  BY <3>3, <4>1 DEF ProgressSound
    <3>. QED  BY <3>4, <3>5
  <2>3. UNCHANGED <<op, nop>> \/ \E w \in Actors \cup {None} : Creates(a, w)
    <3>1. CASE CallerStep(a)
      BY <1>1, <3>1 DEF CallerStep, Operation, TakeGate, Creates, opVars
    <3>2. CASE \E j \in Job : Start(a, j)
      BY <3>2 DEF Start, opVars
    <3>. QED  BY <3>1, <3>2
  <2>. QED  BY <2>1, <2>2, <2>3
<1>. QED  BY <1>2, <1>5, <1>6 DEF Tables, Steady

LEMMA PassesKeepTables ==
  ASSUME Control, Control', Ledger, Ledger', Tables, NEW a \in Passes,
         PassStart(a) \/ PassPick(a)
  PROVE  Tables'
<1>1. /\ UNCHANGED <<row, high, index>> /\ UNCHANGED <<mirror, sync>> /\ UNCHANGED target
      /\ UNCHANGED <<op, nop>> /\ a \in Actors /\ OrgOf(a) = a
  BY LifecycleAssumption DEF PassStart, PassPick, ledgerVars, opVars, Actors, OrgOf
<1>2. Steady
  BY <1>1, LedgerStands, QuietTables
<1>3. Up(OrgOf(a))'
  <2>1. Up(OrgOf(a))
    BY <1>1 DEF PassStart, PassPick, Tables, ServingSound
  <2>. QED  BY <1>1, <2>1 DEF Up, OrgOf
<1>4. /\ pc'[a] \in {"pick", "idle", "advance"}
      /\ \A b \in Actors : b # a => pc'[b] = pc[b] /\ job'[b] = job[b]
  <2>1. pc \in [Actors -> Labels] /\ job \in [Actors -> Job \cup {None}]
    BY DEF Control, ActorTypes
  <2>2. UNCHANGED job \/ \E j : job' = [job EXCEPT ![a] = j]
    BY DEF PassStart, PassPick
  <2>3. \/ pc[a] = "pick" /\ UNCHANGED pc
        \/ \E l \in {"pick", "idle", "advance"} : Goto(a, l)
    BY DEF PassStart, PassPick
  <2>. QED  BY <1>1, <2>1, <2>2, <2>3 DEF Goto
<1>5. \A b \in Actors : ServingSound(b)'
  BY <1>1, <1>2, <1>3, <1>4, ServingStays, ServingAside DEF Up
<1>6. \A p \in 1..nop' : ProgressSound(p)'
  BY <1>1, <1>2, ProgressStays
<1>. QED  BY <1>2, <1>5, <1>6 DEF Tables, Steady

LEMMA ValidateKeepsTables ==
  ASSUME Control, Control', Ledger, Ledger', Tables, NEW t \in TxIds, Validate(t)
  PROVE  Tables'
<1>1. /\ UNCHANGED <<mirror, sync>> /\ UNCHANGED <<op, nop>> /\ UNCHANGED <<pc, job, target>>
  BY DEF Validate, opVars, actorVars
<1>2. LogKept
  <2>1. CASE Valid(t)
    <3>1. Commits(t)
      BY <2>1 DEF Validate, Valid, Commits
    <3>2. /\ \A i \in 1..high.value : index'[i] = index[i]
          /\ high'.value = high.value + 1 /\ high.value \in Nat
      BY <2>1, <3>1, CommitExtends, ValidatedTransaction
    <3>. QED  BY <3>2 DEF LogKept
  <2>2. CASE ~Valid(t)
    BY <2>2, LedgerStands DEF Validate, Valid, ledgerVars
  <2>. QED  BY <2>1, <2>2
<1>3. Steady
  BY <1>1, <1>2, QuietTables
<1>4. \A b \in Actors : ServingSound(b)'
  BY <1>1, <1>3, ServingStays DEF Up
<1>5. \A p \in 1..nop' : ProgressSound(p)'
  BY <1>1, <1>3, ProgressStays
<1>. QED  BY <1>3, <1>4, <1>5 DEF Tables, Steady

\* A crash loses the table, but the replay starts from a watermark that covers
\* everything the organization has been told.
LEMMA CrashKeepsTables ==
  ASSUME Control, Control', Ledger, Ledger', Tables, NEW o \in Orgs, Crash(o)
  PROVE  Tables'
<1>1. /\ UNCHANGED <<row, high, index>> /\ UNCHANGED <<op, nop>> /\ UNCHANGED <<job, target>>
      /\ mirror' = [mirror EXCEPT ![o] = [n \in Names |-> Absent]]
      /\ sync' = [sync EXCEPT ![o] = [at |-> 1, to |-> high.value]] /\ Up(o)
  BY DEF Crash, ledgerVars
<1>2. /\ mirror'[o] = [n \in Names |-> Absent] /\ sync'[o].at = 1 /\ sync'[o].to = high.value
      /\ \A u \in Orgs : u # o => mirror'[u] = mirror[u] /\ sync'[u] = sync[u]
  BY <1>1 DEF Control, LedgerTypes
<1>3. ~Up(o)' /\ \A u \in Orgs : u # o => (Up(u)' <=> Up(u))
  BY <1>2 DEF Up, NotSyncing
<1>4. LogKept /\ high.value \in Nat
  BY <1>1, LedgerStands, Numbers
<1>5. ASSUME NEW u \in Orgs PROVE SyncSound(u)' /\ TableLogged(u)'
  <2>1. SyncSound(u) /\ TableLogged(u)
    BY DEF Tables
  <2>2. CASE u = o
    <3>1. \A n \in Names : mirror'[o][n].seq = 0
      BY <1>2 DEF Absent
    <3>2. TableLogged(o)'
      BY <3>1 DEF TableLogged
    <3>3. SyncSound(o)'
      BY <1>1, <1>2, <1>4 DEF SyncSound
    <3>. QED  BY <2>2, <3>2, <3>3
  <2>3. CASE u # o
    BY <1>2, <1>4, <2>1, <2>3, SyncStays, LoggedStays, StandingTable
  <2>. QED  BY <2>2, <2>3
<1>6. ASSUME NEW u \in Orgs, NEW j \in Job, Told(u, j) PROVE Told(u, j)'
  <2>1. CASE u = o
    <3>1. PICK i \in 1..high.value : /\ index[i].def = j.def
                                     /\ j.event = "initialized" => index[i].init
      BY <1>6 DEF Told
    <3>2. i <= sync'[o].to
      BY <1>2, <1>4
    <3>. QED  BY <1>1, <1>3, <2>1, <3>1, <3>2 DEF Told
  <2>2. CASE u # o
    BY <1>2, <1>4, <1>6, <2>2, ToldStays, StandingTable
  <2>. QED  BY <2>1, <2>2
<1>7. Steady
  BY <1>5, <1>6 DEF Steady
<1>8. ASSUME NEW b \in Actors PROVE ServingSound(b)'
  <2>0. OrgOf(b) \in Orgs
    BY OrgOfActor
  <2>1. CASE b \in Dead(o)
    <3>1. pc'[b] \in {"done", "idle"}
      BY <2>1, CrashMoves
    <3>. QED  BY <3>1, ServingAside
  <2>2. CASE b \in Cut(o)
    <3>1. pc'[b] \in {"done", "pick"}
      BY <2>2, CrashMoves DEF After
    <3>2. OrgOf(b) # o /\ pc[b] \in {"applyRead", "applyWrite"}
      BY <2>2 DEF Cut, Dead
    <3>3. Up(OrgOf(b))
      BY <3>2 DEF Tables, ServingSound
    <3>4. Up(OrgOf(b))'
      BY <1>2, <2>0, <3>2, <3>3 DEF Up, OrgOf
    <3>. QED  BY <3>1, <3>4, ServingAside
  <2>3. CASE b \notin Dead(o) \cup Cut(o)
    <3>1. pc'[b] = pc[b]
      BY <2>3, CrashMoves
    <3>2. CASE pc[b] \in {"idle", "done"}
      BY <3>1, <3>2, ServingAside
    <3>3. CASE pc[b] \notin {"idle", "done"}
      <4>1. OrgOf(b) # o
        BY <2>3, <3>3 DEF Dead
      <4>2. Up(OrgOf(b)) => Up(OrgOf(b))'
        BY <1>2, <2>0, <4>1 DEF Up, OrgOf
      <4>3. pc[b] \in {"applyRead", "applyWrite"} => target[b] # o /\ target[b] \in Orgs
        BY <2>3 DEF Cut, Control, ActorsSound, ActorSound
      <4>4. pc[b] \in {"applyRead", "applyWrite"} /\ Up(target[b]) => Up(target[b])'
        BY <1>1, <1>2, <4>3 DEF Up
      <4>5. job'[b] = job[b] /\ target'[b] = target[b]
        BY <1>1
      <4>. QED  BY <1>7, <3>1, <4>2, <4>4, <4>5, ServingStays
    <3>. QED  BY <3>2, <3>3
  <2>. QED  BY <2>1, <2>2, <2>3
<1>9. \A p \in 1..nop' : ProgressSound(p)'
  BY <1>1, <1>7, ProgressStays
<1>. QED  BY <1>7, <1>8, <1>9 DEF Tables, Steady

\* The replay has passed its watermark: what the organization has been told it
\* now knows.
LEMMA ServingAgain ==
  ASSUME Control, Control', Ledger, Ledger', Tables, NEW o \in Orgs, SyncStep(o), Replayed(o)
  PROVE  Steady
<1>1. /\ UNCHANGED <<row, high, index>> /\ ~Up(o)
      /\ sync' = [sync EXCEPT ![o] = NotSyncing] /\ UNCHANGED mirror
  BY DEF SyncStep, ledgerVars
<1>2. sync'[o] = NotSyncing /\ \A u \in Orgs : u # o => sync'[u] = sync[u]
  BY <1>1 DEF Control, LedgerTypes
<1>3. LogKept
  BY <1>1, LedgerStands
<1>4. \A u \in Orgs : SyncSound(u) /\ TableLogged(u) /\ TableMoved(u)
  BY <1>1, StandingTable DEF Tables
<1>5. ASSUME NEW u \in Orgs PROVE SyncSound(u)' /\ TableLogged(u)'
  <2>1. TableLogged(u)'
    BY <1>1, <1>3, <1>4, LoggedStays
  <2>2. CASE u = o
    BY <1>2, <2>1, <2>2 DEF SyncSound, Up
  <2>3. CASE u # o
    BY <1>2, <1>3, <1>4, <2>1, <2>3, SyncStays
  <2>. QED  BY <2>2, <2>3
<1>6. ASSUME NEW u \in Orgs, NEW j \in Job, Told(u, j) PROVE Told(u, j)'
  <2>1. CASE u = o
    <3>1. PICK i \in 1..high.value : /\ index[i].def = j.def
                                     /\ j.event = "initialized" => index[i].init
                                     /\ i <= sync[o].to
      BY <1>1, <1>6, <2>1 DEF Told
    <3>2. i \in 1..sync[o].to /\ i < sync[o].at
      BY <3>1, Numbers DEF Replayed
    <3>3. KnownIn(o, i)
      BY <1>1, <1>4, <3>2 DEF SyncSound
    <3>4. Knows(o, j)'
      BY <1>1, <3>1, <3>3 DEF KnownIn, Knows
    <3>5. Up(o)'
      BY <1>2 DEF Up
    <3>. QED  BY <1>1, <2>1, <3>1, <3>4, <3>5 DEF Told
  <2>2. CASE u # o
    BY <1>2, <1>3, <1>4, <1>6, <2>2, ToldStays
  <2>. QED  BY <2>1, <2>2
<1>. QED  BY <1>5, <1>6 DEF Steady

\* Entry i of name n is replayed: the row of n, definition d with flag b, is in
\* the log, and as new as the entry or newer.
Replays(o, i, n, d, b) ==
  /\ i = sync[o].at /\ n = index[i].def.name
  /\ i \in 1..sync[o].to /\ i \in 1..high.value
  /\ n \in Names /\ d.name = n /\ d.seq \in Nat
  /\ index[i].def.seq \in Nat /\ index[i].def.seq <= d.seq
  /\ index[i].def.seq = d.seq => (index[i].init => b)
  /\ d \in Defs /\ b \in BOOLEAN
  /\ Logged(d, b) /\ Copies(o, d, b)

LEMMA ReplayCopies ==
  ASSUME Control, Ledger, Tables, NEW o \in Orgs, SyncStep(o), ~Replayed(o)
  PROVE  \E i, n, d, b : Replays(o, i, n, d, b)
<1>1. ~Up(o) /\ SyncSound(o)
  BY DEF SyncStep, Tables
<1>2. PICK i, n, d, b : i = sync[o].at /\ n = index[i].def.name /\ d = DefOf(n, row[n]) /\ b = row[n].init
  OBVIOUS
<1>3. i \in 1..sync[o].to /\ i \in 1..high.value
  BY <1>1, <1>2, Numbers DEF SyncSound, Replayed
<1>4. /\ n \in Names /\ d.name = n /\ d.seq = row[n].seq /\ d.ver = row[n].ver
      /\ index[i].def.seq \in Nat /\ index[i].def.seq # 0
  BY <1>2, <1>3, Numbers DEF DefOf
<1>5. /\ index[i].def.seq <= row[n].seq
      /\ index[i].def.seq = row[n].seq => (index[i].init => b)
  BY <1>2, <1>3 DEF Ledger, LogOrdered
<1>6. row[n].seq \in Nat /\ b \in BOOLEAN
  <2>1. row[n] \in Row
    BY <1>4 DEF Control, LedgerTypes
  <2>2. row[n].seq \in Nat /\ row[n].init \in BOOLEAN
    BY <2>1 DEF Row
  <2>. QED  BY <1>2, <2>2
<1>7. Logged(d, b)
  <2>1. row[n].seq # 0
    BY <1>4, <1>5, <1>6
  <2>. QED  BY <1>2, <1>4, <2>1 DEF Ledger, RowsLogged
<1>8. d \in Defs
  BY <1>7, Numbers DEF Logged
<1>9. Copies(o, d, b)
  BY <1>2, <1>4 DEF SyncStep, Copies
<1>10. Replays(o, i, n, d, b)
  BY <1>2, <1>3, <1>4, <1>5, <1>6, <1>7, <1>8, <1>9 DEF Replays
<1>. QED  BY <1>10

LEMMA ReplaysEntry ==
  ASSUME Control, Control', Ledger, Ledger', Tables, NEW o \in Orgs, SyncStep(o), ~Replayed(o)
  PROVE  Steady
<1>1. /\ UNCHANGED <<row, high, index>> /\ ~Up(o)
  BY DEF SyncStep, ledgerVars
<1>2. PICK i, n, d, b : Replays(o, i, n, d, b)
  BY ReplayCopies
<1>3. \A u \in Orgs : SyncSound(u) /\ TableLogged(u)
  BY DEF Tables
<1>4. sync[o].to \in Nat
  BY Numbers
<1>5. /\ i = sync[o].at /\ n = index[i].def.name
      /\ i \in 1..sync[o].to /\ i \in 1..high.value
      /\ n \in Names /\ d.name = n /\ d.seq \in Nat
      /\ index[i].def.seq \in Nat /\ index[i].def.seq <= d.seq
      /\ index[i].def.seq = d.seq => (index[i].init => b)
      /\ d \in Defs /\ b \in BOOLEAN
      /\ Logged(d, b) /\ Copies(o, d, b)
  BY <1>2 DEF Replays
<1>6. /\ \A u \in Orgs : TableMoved(u) /\ TableLogged(u)'
       /\ Holds(o, d, b)'
  BY <1>1, <1>3, <1>5, CopyLogged
<1>7. LogKept
  BY <1>1, LedgerStands
<1>8. /\ sync'[o].at = i + 1 /\ sync'[o].to = sync[o].to
       /\ \A u \in Orgs : u # o => sync'[u] = sync[u]
  <2>1. sync' = [sync EXCEPT ![o].at = i + 1]
    BY <1>5 DEF SyncStep
  <2>2. sync \in [Orgs -> [at : Nat, to : 0..MaxTx]]
    BY DEF Control, LedgerTypes
  <2>. QED  BY <2>1, <2>2
<1>9. ~Up(o)'
  BY <1>5, <1>8 DEF Up, NotSyncing
<1>10. KnownIn(o, i)'
  <2>1. mirror'[o][n].seq \in Nat
    BY <1>5, NumbersNext
  <2> DEFINE m == mirror'[o][n]
  <2>2. m.seq > d.seq \/ (m.seq = d.seq /\ (b => m.init))
    BY <1>5, <1>6 DEF Holds
  <2>3. m.seq > index[i].def.seq \/ (m.seq = index[i].def.seq /\ (index[i].init => m.init))
    <3>1. /\ d.seq \in Nat /\ index[i].def.seq \in Nat /\ index[i].def.seq <= d.seq
          /\ index[i].def.seq = d.seq => (index[i].init => b)
      BY <1>5
    <3>. QED  BY <2>1, <2>2, <3>1
  <2>. QED  BY <1>1, <1>5, <2>3 DEF KnownIn
<1>11. ASSUME NEW k \in 1..sync[o].to, k < i PROVE KnownIn(o, k)'
  <2>1. KnownIn(o, k) /\ k \in 1..high.value
    <3>1. /\ sync[o].to <= high.value
          /\ \A x \in 1..sync[o].to : x < sync[o].at => KnownIn(o, x)
      BY <1>1, <1>3 DEF SyncSound
    <3>2. i = sync[o].at /\ high.value \in Nat
      BY <1>5, Numbers
    <3>. QED  BY <1>4, <1>11, <3>1, <3>2
  <2>2. index[k].def.name \in Names /\ index[k].def.seq \in Nat
    BY <2>1, Numbers
  <2>3. mirror[o][index[k].def.name].seq \in Nat /\ mirror'[o][index[k].def.name].seq \in Nat
    BY <2>2, Numbers, NumbersNext
  <2>. QED  BY <1>1, <1>6, <2>1, <2>2, <2>3 DEF KnownIn, TableMoved
<1>12. SyncSound(o)'
  <2>1. \A k \in 1..sync[o].to : k < i + 1 => KnownIn(o, k)'
    BY <1>4, <1>5, <1>10, <1>11
  <2>2. 1 <= i + 1 /\ sync[o].to <= high.value
    BY <1>1, <1>3, <1>5 DEF SyncSound
  <2>3. /\ 1 <= sync'[o].at /\ sync'[o].to <= high'.value
        /\ \A k \in 1..sync'[o].to : k < sync'[o].at => KnownIn(o, k)'
    BY <1>1, <1>8, <2>1, <2>2
  <2>. QED  BY <2>3 DEF SyncSound
<1>13. ASSUME NEW u \in Orgs PROVE SyncSound(u)'
  BY <1>3, <1>6, <1>7, <1>8, <1>12, SyncStays
<1>14. ASSUME NEW u \in Orgs, NEW j \in Job, Told(u, j) PROVE Told(u, j)'
  <2>1. CASE u = o
    BY <1>1, <1>8, <1>9, <1>14, <2>1 DEF Told
  <2>2. CASE u # o
    BY <1>6, <1>7, <1>8, <1>14, <2>2, ToldStays
  <2>. QED  BY <2>1, <2>2
<1>. QED  BY <1>6, <1>13, <1>14 DEF Steady

LEMMA SyncStepKeepsTables ==
  ASSUME Control, Control', Ledger, Ledger', Tables, NEW o \in Orgs, SyncStep(o)
  PROVE  Tables'
<1>1. Steady
  BY ServingAgain, ReplaysEntry
<1>2. UNCHANGED <<op, nop>> /\ UNCHANGED <<pc, job, target>> /\ ~Up(o)
  BY DEF SyncStep, opVars, actorVars
<1>3. \A u \in Orgs : Up(u) => Up(u)'
  <2>1. \A u \in Orgs : u # o => sync'[u] = sync[u]
    BY DEF SyncStep, Control, LedgerTypes
  <2>. QED  BY <1>2, <2>1 DEF Up
<1>4. ASSUME NEW b \in Actors PROVE ServingSound(b)'
  <2>1. OrgOf(b) \in Orgs
    BY OrgOfActor
  <2>2. PICK w : w = OrgOf(b)
    OBVIOUS
  <2>3. Up(OrgOf(b)) => Up(OrgOf(b))'
    <3>1. Up(w) => Up(w)'
      BY <1>3, <2>1, <2>2
    <3>. QED  BY <2>2, <3>1 DEF Up, OrgOf
  <2>4. pc[b] \in {"applyRead", "applyWrite"} /\ Up(target[b]) => Up(target[b])'
    <3>1. PICK x : x = target[b]
      OBVIOUS
    <3>2. pc[b] \in {"applyRead", "applyWrite"} => x \in Orgs
      BY <3>1 DEF Control, ActorsSound, ActorSound
    <3>. QED  BY <1>2, <1>3, <3>1, <3>2 DEF Up
  <2>. QED  BY <1>1, <1>2, <2>3, <2>4, ServingStays
<1>5. \A p \in 1..nop' : ProgressSound(p)'
  BY <1>1, <1>2, ProgressStays
<1>. QED  BY <1>1, <1>4, <1>5 DEF Tables, Steady

LEMMA TablesInitially == Init => Tables
<1>. SUFFICES ASSUME Init PROVE Tables
  OBVIOUS
<1>1. \A o \in Orgs : Up(o)
  BY DEF Init, Up
<1>2. \A o \in Orgs : SyncSound(o) /\ TableLogged(o)
  BY <1>1 DEF Init, SyncSound, TableLogged, Absent
<1>3. \A a \in Actors : ServingSound(a)
  BY DEF Init, ServingSound
<1>4. 1..nop = {}
  BY DEF Init
<1>. QED  BY <1>2, <1>3, <1>4 DEF Tables

LEMMA TablesInductive ==
  Control /\ Control' /\ Ledger /\ Ledger' /\ Tables /\ [Next]_vars => Tables'
<1>. SUFFICES ASSUME Control, Control', Ledger, Ledger', Tables, [Next]_vars PROVE Tables'
  OBVIOUS
<1>1. CASE UNCHANGED vars
  <2>1. /\ UNCHANGED <<row, high, index>> /\ UNCHANGED <<mirror, sync>> /\ UNCHANGED <<op, nop>>
        /\ UNCHANGED <<pc, job, target>>
    BY <1>1 DEF vars, ledgerVars, opVars, actorVars
  <2>2. Steady
    BY <2>1, LedgerStands, QuietTables
  <2>3. \A b \in Actors : ServingSound(b)'
    BY <2>1, <2>2, ServingStays DEF Up
  <2>4. \A p \in 1..nop' : ProgressSound(p)'
    BY <2>1, <2>2, ProgressStays
  <2>. QED  BY <2>2, <2>3, <2>4 DEF Tables, Steady
<1>2. CASE Next
  BY <1>2, CallersKeepTables, WorkKeepsTables, PassesKeepTables, ValidateKeepsTables,
     CrashKeepsTables, SyncStepKeepsTables DEF Next
<1>. QED  BY <1>1, <1>2

-----------------------------------------------------------------------------
(* What counts as committed is on the ledger.                              *)

\* The ledger has an entry of definition d, with its marker if e is an Init.
Recorded(d, e) ==
  \E i \in 1..high.value : index[i].def = d /\ (e = "initialized" => index[i].init)

TxSettled(t) == tx[t].status = "COMMITTED" => Recorded(tx[t].def, tx[t].event)

\* A receipt is one of the operation it is kept for.
ReceiptSound(p) ==
  /\ op[p].tx # 0 => /\ tx[op[p].tx].def = op[p].job.def
                     /\ tx[op[p].tx].event = op[p].job.event
  /\ op[p].status = "COMMITTED" => Recorded(op[p].job.def, op[p].job.event)

\* Actor a takes its operation for committed.
Finalizing(a) == pc[a] = "finalize" \/ (pc[a] \in {"op", "gate"} /\ stage[a] # "submit")

ReportSound(a) == Finalizing(a) => Recorded(job[a].def, job[a].event)

Receipts ==
  /\ \A t \in 1..ntx : TxSettled(t)
  /\ \A p \in 1..nop : ReceiptSound(p)
  /\ \A a \in Actors : ReportSound(a)

\* Transactions stay what they are about.
TxKept ==
  /\ ntx <= ntx'
  /\ \A t \in 1..ntx : tx'[t].def = tx[t].def /\ tx'[t].event = tx[t].event

LEMMA RecordedStays ==
  ASSUME Control, Control', LogKept, NEW d, NEW e, Recorded(d, e)
  PROVE  Recorded(d, e)'
<1>1. high.value \in Nat /\ high'.value \in Nat
  BY DEF Control, LedgerTypes, Watermark
<1>2. PICK i \in 1..high.value : index[i].def = d /\ (e = "initialized" => index[i].init)
  BY DEF Recorded
<1>3. i \in 1..high'.value /\ index'[i] = index[i]
  BY <1>1 DEF LogKept
<1>. QED  BY <1>2, <1>3 DEF Recorded

LEMMA Numbered ==
  ASSUME Control, NEW t \in 0..ntx
  PROVE  ntx \in Nat /\ (t # 0 => t \in 1..ntx)
<1>1. ntx \in 0..MaxTx /\ MaxTx \in Nat
  BY LifecycleAssumption DEF Control, TxTypes
<1>. QED  BY <1>1

LEMMA ReceiptStays ==
  ASSUME Control, Control', LogKept, TxKept, NEW p \in 1..nop, ReceiptSound(p),
         op'[p].job = op[p].job, op'[p].tx = op[p].tx \/ op'[p].tx = 0,
         op'[p].status = op[p].status \/ op'[p].status = ""
  PROVE  ReceiptSound(p)'
<1>1. op[p].tx \in 0..ntx
  BY DEF Control, ObjectTypes
<1>2. op'[p].tx # 0 => tx'[op'[p].tx].def = op'[p].job.def /\ tx'[op'[p].tx].event = op'[p].job.event
  <2>1. PICK t : t = op[p].tx
    OBVIOUS
  <2>2. SUFFICES ASSUME op'[p].tx # 0 PROVE tx'[t].def = op[p].job.def /\ tx'[t].event = op[p].job.event
    BY <2>1
  <2>3. t \in 1..ntx
    <3>1. t \in 0..ntx /\ t # 0
      BY <1>1, <2>1, <2>2
    <3>. QED  BY <3>1, Numbered
  <2>4. tx'[t].def = tx[t].def /\ tx'[t].event = tx[t].event
    BY <2>3 DEF TxKept
  <2>5. tx[t].def = op[p].job.def /\ tx[t].event = op[p].job.event
    BY <2>1, <2>2 DEF ReceiptSound
  <2>. QED  BY <2>4, <2>5
<1>3. PICK d, e : d = op[p].job.def /\ e = op[p].job.event
  OBVIOUS
<1>4. op'[p].status = "COMMITTED" => Recorded(d, e)'
  BY <1>3, RecordedStays DEF ReceiptSound
<1>. QED  BY <1>2, <1>3, <1>4 DEF ReceiptSound, Recorded

LEMMA ReportStays ==
  ASSUME Control, Control', LogKept, NEW b \in Actors, ReportSound(b), job'[b] = job[b],
         Finalizing(b)' => Finalizing(b)
  PROVE  ReportSound(b)'
<1>1. PICK d, e : d = job[b].def /\ e = job[b].event
  OBVIOUS
<1>2. Finalizing(b)' => Recorded(d, e)'
  BY <1>1, RecordedStays DEF ReportSound
<1>. QED  BY <1>1, <1>2 DEF ReportSound, Recorded

LEMMA SettledStays ==
  ASSUME Control, Control', LogKept, TxKept, Receipts,
         \A t \in 1..ntx' : tx'[t].status = "COMMITTED" => t \in 1..ntx /\ tx[t].status = "COMMITTED"
  PROVE  \A t \in 1..ntx' : TxSettled(t)'
<1>. SUFFICES ASSUME NEW t \in 1..ntx', tx'[t].status = "COMMITTED" PROVE TxSettled(t)'
  BY DEF TxSettled
<1>1. PICK d, e : d = tx[t].def /\ e = tx[t].event
  OBVIOUS
<1>2. Recorded(d, e)'
  BY <1>1, RecordedStays DEF Receipts, TxSettled
<1>3. d = tx'[t].def /\ e = tx'[t].event
  BY <1>1 DEF TxKept
<1>. QED  BY <1>2, <1>3 DEF TxSettled, Recorded

LEMMA TxStand ==
  ASSUME Control, Control', Receipts, LogKept, UNCHANGED <<tx, ntx>>
  PROVE  TxKept /\ \A t \in 1..ntx' : TxSettled(t)'
<1>1. TxKept
  BY LifecycleAssumption DEF TxKept, Control, TxTypes
<1>. QED  BY <1>1, SettledStays

\* A step of actor a at work, from its own part.
LEMMA WorkReceipts ==
  ASSUME Control, Control', Receipts, NEW a \in Actors, pc[a] \in Working, WorkFrame(a),
         \A b \in Actors : b # a => stage'[b] = stage[b], LogKept, TxKept,
         \A t \in 1..ntx' : TxSettled(t)', NEW p, p = held[a], ReceiptSound(p)', ReportSound(a)'
  PROVE  Receipts'
<1>1. \A b \in Actors : b # a => ReportSound(b)'
  BY ReportStays DEF WorkFrame, Finalizing, Receipts
<1>2. ASSUME NEW q \in 1..nop, q # p PROVE ReceiptSound(q)'
  <2>1. q \in OpIds
    BY LifecycleAssumption DEF Control, ObjectTypes, OpIds
  <2>2. op'[q] = op[q]
    BY <1>2, <2>1 DEF WorkFrame
  <2>. QED  BY <2>2, ReceiptStays DEF Receipts
<1>3. nop' = nop
  BY DEF WorkFrame
<1>. QED  BY <1>1, <1>2, <1>3 DEF Receipts

LEMMA StageFrame ==
  ASSUME Control, NEW a \in Actors, WorkStep(a)
  PROVE  \A b \in Actors : b # a => stage'[b] = stage[b]
<1>1. UNCHANGED stage \/ stage' = [stage EXCEPT ![a] = "finalize"]
  <2>1. CASE Advance(a) \/ WaitFinality(a)
    BY <2>1 DEF Advance, WaitFinality, Observe, AdvanceSucceeds
  <2>2. CASE ReadRow(a)
    BY <2>2 DEF ReadRow, AdvanceSucceeds
  <2>3. CASE ReadHigh(a) \/ ReadIndex(a) \/ Send(a)
    BY <2>3 DEF ReadHigh, ReadIndex, Send
  <2>4. CASE Finalize(a) \/ ApplyRead(a) \/ ApplyWrite(a) \/ Spread(a)
    BY <2>4 DEF Finalize, ApplyRead, ApplyWrite, Spread
  <2>. QED  BY <2>1, <2>2, <2>3, <2>4 DEF WorkStep
<1>. QED  BY <1>1 DEF Control, ActorTypes

LEMMA ClaimsNothing ==
  ASSUME NEW a \in Actors, pc'[a] \notin {"op", "gate", "finalize"}
  PROVE  ReportSound(a)'
BY DEF ReportSound, Finalizing

\* The receipt after an edit.
LEMMA StatusSet ==
  ASSUME Control, NEW a \in Actors, pc[a] \in Working, NEW s,
         op' = [op EXCEPT ![held[a]].status = s]
  PROVE  /\ op'[held[a]].status = s /\ op'[held[a]].tx = op[held[a]].tx
         /\ op'[held[a]].job = op[held[a]].job
<1>1. op[held[a]] \in Object /\ held[a] \in OpIds /\ op \in [OpIds -> Object \cup {None}]
  BY AtWork DEF Control, ObjectTypes
<1>2. op'[held[a]] = [op[held[a]] EXCEPT !.status = s]
  BY <1>1
<1>. QED  BY <1>1, <1>2 DEF Object

LEMMA TxSet ==
  ASSUME Control, NEW a \in Actors, pc[a] \in Working, NEW x,
         op' = [op EXCEPT ![held[a]].tx = x]
  PROVE  /\ op'[held[a]].status = op[held[a]].status /\ op'[held[a]].tx = x
         /\ op'[held[a]].job = op[held[a]].job
<1>1. op[held[a]] \in Object /\ held[a] \in OpIds /\ op \in [OpIds -> Object \cup {None}]
  BY AtWork DEF Control, ObjectTypes
<1>2. op'[held[a]] = [op[held[a]] EXCEPT !.tx = x]
  BY <1>1
<1>. QED  BY <1>1, <1>2 DEF Object

LEMMA ReceiptCleared ==
  ASSUME Control, NEW a \in Actors, pc[a] \in Working,
         op' = [op EXCEPT ![held[a]].tx = 0, ![held[a]].status = ""]
  PROVE  /\ op'[held[a]].status = "" /\ op'[held[a]].tx = 0
         /\ op'[held[a]].job = op[held[a]].job
<1>1. op[held[a]] \in Object /\ held[a] \in OpIds /\ op \in [OpIds -> Object \cup {None}]
  BY AtWork DEF Control, ObjectTypes
<1>2. op'[held[a]] = [[op[held[a]] EXCEPT !.tx = 0] EXCEPT !.status = ""]
  BY <1>1
<1>. QED  BY <1>1, <1>2 DEF Object

\* Operation p of actor a was found to be committed.
LEMMA SettledReports ==
  ASSUME Control, Control', LogKept, NEW a \in Actors, pc[a] \in Working, WorkFrame(a),
         NEW p, p = held[a], ReceiptSound(p), UNCHANGED tx, op'[p].tx = op[p].tx,
         Recorded(op[p].job.def, op[p].job.event)
  PROVE  ReceiptSound(p)' /\ ReportSound(a)'
<1>1. PICK d, e : d = op[p].job.def /\ e = op[p].job.event
  OBVIOUS
<1>2. Recorded(d, e)'
  BY <1>1, RecordedStays
<1>3. op[p].job = job[a] /\ job'[a] = job[a] /\ op'[p].job = op[p].job
  BY AtWork DEF WorkFrame
<1>4. ReportSound(a)'
  BY <1>1, <1>2, <1>3 DEF ReportSound, Recorded
<1>5. ReceiptSound(p)'
  BY <1>1, <1>2, <1>3 DEF ReceiptSound, Recorded
<1>. QED  BY <1>4, <1>5

LEMMA SettlingKeepsReceipts ==
  ASSUME Control, Control', Ledger, Receipts, NEW a \in Actors, WorkFrame(a),
         Advance(a) \/ WaitFinality(a)
  PROVE  Receipts'
<1>1. /\ UNCHANGED <<row, high, index>> /\ UNCHANGED <<tx, ntx>> /\ pc[a] \in Working
      /\ \A b \in Actors : b # a => stage'[b] = stage[b]
  BY StageFrame DEF Advance, WaitFinality, ledgerVars, txVars, Working, WorkStep
<1>2. LogKept /\ TxKept /\ \A t \in 1..ntx' : TxSettled(t)'
  BY <1>1, LedgerStands, TxStand
<1>3. PICK p \in 1..nop : p = held[a]
  BY <1>1, AtWork
<1>4. /\ ReceiptSound(p) /\ op'[p].job = op[p].job
      /\ op[p].tx # 0 /\ tx[op[p].tx].status = "COMMITTED" => Recorded(op[p].job.def, op[p].job.event)
  <2>1. op[p].tx # 0 => op[p].tx \in 1..ntx
    <3>1. op[p].tx \in 0..ntx /\ ntx \in Nat
      BY LifecycleAssumption DEF Control, ObjectTypes, TxTypes
    <3>. QED  BY <3>1
  <2>. QED  BY <1>3, <2>1 DEF Receipts, ReceiptSound, TxSettled, WorkFrame
<1>5. CASE op[p].status = "COMMITTED" /\ UNCHANGED op
  <2>1. Recorded(op[p].job.def, op[p].job.event)
    BY <1>4, <1>5 DEF ReceiptSound
  <2>. QED  BY <1>1, <1>2, <1>3, <1>4, <1>5, <2>1, SettledReports, WorkReceipts
<1>6. CASE UNCHANGED op /\ pc'[a] \in {"readRow", "done", "pick"}
  <2>1. ReceiptSound(p)'
    BY <1>2, <1>4, <1>6, ReceiptStays
  <2>2. ReportSound(a)'
    BY <1>6, ClaimsNothing
  <2>. QED  BY <1>1, <1>2, <1>3, <2>1, <2>2, WorkReceipts
<1>7. CASE op[p].tx # 0 /\ Observe(a, tx[op[p].tx].status)
  <2>1. CASE tx[op[p].tx].status = "COMMITTED"
    <3>1. op' = [op EXCEPT ![p].status = "COMMITTED"]
      BY <1>3, <1>7, <2>1 DEF Observe
    <3>2. op'[p].tx = op[p].tx
      BY <1>1, <1>3, <3>1, StatusSet
    <3>. QED  BY <1>1, <1>2, <1>3, <1>4, <1>7, <2>1, <3>2, SettledReports, WorkReceipts
  <2>2. CASE tx[op[p].tx].status # "COMMITTED"
    <3>1. LeaveVars(a)
      BY <1>3, <1>7, <2>2 DEF Observe
    <3>2. CASE UNCHANGED op
      BY <1>6, <3>1, <3>2, GoesTo
    <3>3. CASE op' = [op EXCEPT ![p].tx = 0, ![p].status = ""]
      <4>1. op'[p].tx = 0 /\ op'[p].status = ""
        BY <1>1, <1>3, <3>3, ReceiptCleared
      <4>2. ReceiptSound(p)'
        BY <1>2, <1>4, <4>1, ReceiptStays
      <4>3. ReportSound(a)'
        BY <3>1, GoesTo, ClaimsNothing
      <4>. QED  BY <1>1, <1>2, <1>3, <4>2, <4>3, WorkReceipts
    <3>. QED  BY <1>3, <1>7, <2>2, <3>2, <3>3 DEF Observe
  <2>. QED  BY <2>1, <2>2
<1>8. CASE Advance(a)
  <2>1. \/ op[p].status = "COMMITTED" /\ UNCHANGED op
        \/ op[p].tx # 0 /\ Observe(a, tx[op[p].tx].status)
        \/ AdvanceFails(a, op[p].tx) /\ UNCHANGED op
        \/ Goto(a, "readRow") /\ UNCHANGED op
    BY <1>3, <1>8 DEF Advance
  <2>. QED  BY <1>5, <1>6, <1>7, <2>1, GoesTo
<1>9. CASE WaitFinality(a)
  <2>1. op[p].tx # 0
    BY <1>3, <1>9 DEF WaitFinality, Control, ActorsSound, ActorSound
  <2>2. \/ Observe(a, tx[op[p].tx].status)
        \/ AdvanceFails(a, op[p].tx) /\ UNCHANGED op
    BY <1>3, <1>9 DEF WaitFinality
  <2>. QED  BY <1>6, <1>7, <2>1, <2>2, GoesTo
<1>. QED  BY <1>8, <1>9

LEMMA ReadRowKeepsReceipts ==
  ASSUME Control, Control', Ledger, Receipts, NEW a \in Actors, WorkFrame(a), ReadRow(a)
  PROVE  Receipts'
<1>1. /\ UNCHANGED <<row, high, index>> /\ UNCHANGED <<tx, ntx>> /\ pc[a] \in Working
      /\ \A b \in Actors : b # a => stage'[b] = stage[b]
  BY StageFrame DEF ReadRow, ledgerVars, txVars, Working, WorkStep
<1>2. LogKept /\ TxKept /\ \A t \in 1..ntx' : TxSettled(t)'
  BY <1>1, LedgerStands, TxStand
<1>3. PICK p \in 1..nop : p = held[a]
  BY <1>1, AtWork
<1>4. ReceiptSound(p) /\ op'[p].job = op[p].job /\ op[p].job = job[a] /\ job[a] \in Job
  BY <1>1, <1>3, AtWork DEF Receipts, WorkFrame
<1> DEFINE d == job[a].def
           r == row[d.name]
<1>5. CASE UNCHANGED op /\ pc'[a] \in {"readHigh", "done", "pick"}
  <2>1. ReceiptSound(p)'
    BY <1>2, <1>4, <1>5, ReceiptStays
  <2>2. ReportSound(a)'
    BY <1>5, ClaimsNothing
  <2>. QED  BY <1>1, <1>2, <1>3, <2>1, <2>2, WorkReceipts
<1>6. CASE /\ DefOf(d.name, r) = d /\ (job[a].event = "commit" \/ r.init)
           /\ op' = [op EXCEPT ![held[a]].status = "COMMITTED"]
  <2>1. d.name \in Names /\ d.seq \in 1..MaxSeq
    BY <1>4 DEF Job, Defs
  <2>2. r.seq # 0
    BY <1>6, <2>1 DEF DefOf
  <2>3. Logged(d, r.init)
    BY <1>6, <2>1, <2>2 DEF Ledger, RowsLogged
  <2>4. Recorded(op[p].job.def, op[p].job.event)
    BY <1>4, <1>6, <2>3 DEF Logged, Recorded
  <2>5. op'[p].tx = op[p].tx
    BY <1>1, <1>3, <1>6, StatusSet
  <2>. QED  BY <1>1, <1>2, <1>3, <1>4, <2>4, <2>5, SettledReports, WorkReceipts
<1>7. \/ LeaveVars(a) /\ UNCHANGED op
      \/ Goto(a, "readHigh") /\ UNCHANGED op
      \/ AdvanceFails(a, 0) /\ UNCHANGED op
      \/ /\ DefOf(d.name, r) = d /\ (job[a].event = "commit" \/ r.init)
         /\ op' = [op EXCEPT ![held[a]].status = "COMMITTED"]
  BY DEF ReadRow
<1> HIDE DEF d, r
<1>. QED  BY <1>5, <1>6, <1>7, GoesTo

\* A new transaction is one of the operation it was prepared for.
LEMMA ReadIndexKeepsReceipts ==
  ASSUME Control, Control', Ledger, Receipts, NEW a \in Actors, WorkFrame(a), ReadIndex(a)
  PROVE  Receipts'
<1>1. /\ UNCHANGED <<row, high, index>> /\ pc[a] \in Working
      /\ \A b \in Actors : b # a => stage'[b] = stage[b]
  BY StageFrame DEF ReadIndex, ledgerVars, Working, WorkStep
<1>2. LogKept
  BY <1>1, LedgerStands
<1>3. PICK p \in 1..nop : p = held[a]
  BY <1>1, AtWork
<1>4. ReceiptSound(p) /\ op'[p].job = op[p].job /\ op[p].job = job[a]
  BY <1>1, <1>3, AtWork DEF Receipts, WorkFrame
<1>5. ReportSound(a)'
  BY GoesTo, ClaimsNothing DEF ReadIndex
<1>6. CASE AdvanceFails(a, 0) /\ UNCHANGED <<tx, ntx, op>>
  <2>1. TxKept /\ \A t \in 1..ntx' : TxSettled(t)'
    BY <1>2, <1>6, TxStand
  <2>2. ReceiptSound(p)'
    BY <1>2, <1>4, <1>6, <2>1, ReceiptStays
  <2>. QED  BY <1>1, <1>2, <1>3, <1>5, <2>1, <2>2, WorkReceipts
<1>7. CASE /\ ntx < MaxTx /\ ntx' = ntx + 1
           /\ \E x : /\ tx' = [tx EXCEPT ![ntx + 1] = x]
                     /\ x.def = job[a].def /\ x.event = job[a].event /\ x.status = ""
           /\ op' = [op EXCEPT ![held[a]].tx = ntx + 1]
  <2>1. PICK x : /\ tx' = [tx EXCEPT ![ntx + 1] = x]
                 /\ x.def = job[a].def /\ x.event = job[a].event /\ x.status = ""
    BY <1>7
  <2>2. ntx \in 0..MaxTx /\ MaxTx \in Nat /\ tx \in [TxIds -> Transaction \cup {None}]
    BY LifecycleAssumption DEF Control, TxTypes
  <2>3. /\ ntx + 1 \in TxIds /\ tx'[ntx + 1] = x
        /\ \A t \in 1..ntx : t \in TxIds /\ t # ntx + 1 /\ tx'[t] = tx[t]
        /\ \A t \in 1..ntx' : t \in 1..ntx \/ t = ntx + 1
    <3>1. ntx < MaxTx /\ ntx' = ntx + 1
      BY <1>7
    <3>2. /\ ntx + 1 \in TxIds
          /\ \A t \in 1..ntx : t \in TxIds /\ t # ntx + 1
          /\ \A t \in 1..ntx' : t \in 1..ntx \/ t = ntx + 1
      BY <2>2, <3>1 DEF TxIds
    <3>. QED  BY <2>1, <2>2, <3>2
  <2>4. TxKept
    <3>1. ntx' = ntx + 1
      BY <1>7
    <3>. QED  BY <2>2, <2>3, <3>1 DEF TxKept
  <2>5. \A t \in 1..ntx' : TxSettled(t)'
    BY <1>2, <2>1, <2>3, <2>4, SettledStays
  <2>6. op'[p].tx = ntx + 1 /\ op'[p].status = op[p].status
    <3>1. PICK n : n = ntx + 1
      OBVIOUS
    <3>2. op' = [op EXCEPT ![held[a]].tx = n]
      BY <1>7, <3>1
    <3>3. pc[a] \in Working
      BY <1>1
    <3>4. op'[held[a]].tx = n /\ op'[held[a]].status = op[held[a]].status
      BY <3>2, <3>3, TxSet, Zenon
    <3>. QED  BY <1>3, <3>1, <3>4
  <2>7. ReceiptSound(p)'
    <3>1. PICK d, e : d = op[p].job.def /\ e = op[p].job.event
      OBVIOUS
    <3>2. op[p].status = "COMMITTED" => Recorded(d, e)'
      BY <1>2, <1>4, <3>1, RecordedStays DEF ReceiptSound
    <3>. QED  BY <1>4, <2>1, <2>3, <2>6, <3>1, <3>2 DEF ReceiptSound, Recorded
  <2>. QED  BY <1>1, <1>2, <1>3, <1>5, <2>4, <2>5, <2>7, WorkReceipts
<1>8. \/ AdvanceFails(a, 0) /\ UNCHANGED <<tx, ntx, op>>
      \/ /\ ntx < MaxTx /\ ntx' = ntx + 1
         /\ \E x : /\ tx' = [tx EXCEPT ![ntx + 1] = x]
                   /\ x.def = job[a].def /\ x.event = job[a].event /\ x.status = ""
         /\ op' = [op EXCEPT ![held[a]].tx = ntx + 1]
  <2>. DEFINE new == [org |-> OrgOf(a), def |-> job[a].def, event |-> job[a].event,
                      init |-> job[a].event = "initialized" \/ ~InitRequired(job[a].def),
                      rowVersion |-> read[a].row.version,
                      highVersion |-> read[a].high.version,
                      number |-> NextIndex(a), status |-> ""]
  <2>1. \/ AdvanceFails(a, 0) /\ UNCHANGED <<tx, ntx, op>>
        \/ /\ ntx < MaxTx /\ ntx' = ntx + 1 /\ tx' = [tx EXCEPT ![ntx + 1] = new]
           /\ op' = [op EXCEPT ![held[a]].tx = ntx + 1]
    BY DEF ReadIndex
  <2>2. new.def = job[a].def /\ new.event = job[a].event /\ new.status = ""
    OBVIOUS
  <2>. HIDE DEF new
  <2>3. CASE AdvanceFails(a, 0) /\ UNCHANGED <<tx, ntx, op>>
    BY <2>3
  <2>4. CASE /\ ntx < MaxTx /\ ntx' = ntx + 1 /\ tx' = [tx EXCEPT ![ntx + 1] = new]
             /\ op' = [op EXCEPT ![held[a]].tx = ntx + 1]
    BY <2>2, <2>4, Zenon
  <2>. QED  BY <2>1, <2>3, <2>4
<1>. QED  BY <1>6, <1>7, <1>8

LEMMA SendKeepsReceipts ==
  ASSUME Control, Control', Ledger, Receipts, NEW a \in Actors, WorkFrame(a), Send(a)
  PROVE  Receipts'
<1>1. /\ UNCHANGED <<row, high, index>> /\ UNCHANGED ntx /\ pc[a] \in Working
      /\ \A b \in Actors : b # a => stage'[b] = stage[b]
  BY StageFrame DEF Send, ledgerVars, Working, WorkStep
<1>2. LogKept
  BY <1>1, LedgerStands
<1>3. PICK p \in 1..nop : p = held[a]
  BY <1>1, AtWork
<1>4. ReceiptSound(p) /\ op'[p].job = op[p].job
  BY <1>3 DEF Receipts, WorkFrame
<1>5. ReportSound(a)'
  BY GoesTo, ClaimsNothing DEF Send
<1>6. PICK t : t = op[p].tx
  OBVIOUS
<1>7. \A u \in 1..ntx : \/ tx'[u] = tx[u]
                        \/ tx'[u] = [tx[u] EXCEPT !.status = "ORDERED"]
  <2>1. tx \in [TxIds -> Transaction \cup {None}] /\ \A u \in 1..ntx : u \in TxIds
    BY LifecycleAssumption DEF Control, TxTypes, TxIds
  <2>. QED  BY <1>3, <1>6, <2>1 DEF Send
<1>8. \A u \in 1..ntx : /\ tx'[u].def = tx[u].def /\ tx'[u].event = tx[u].event
                        /\ tx'[u].status \in {tx[u].status, "ORDERED"}
  <2>1. \A u \in 1..ntx : tx[u] \in Transaction
    BY DEF Control, TxTypes
  <2>. QED  BY <1>7, <2>1 DEF Transaction
<1>9. TxKept
  BY <1>1, <1>8, LifecycleAssumption DEF TxKept, Control, TxTypes
<1>10. \A u \in 1..ntx' : TxSettled(u)'
  BY <1>1, <1>2, <1>8, <1>9, SettledStays
<1>11. ReceiptSound(p)'
  <2>1. op'[p].tx \in {op[p].tx, 0} /\ op'[p].status = op[p].status
    <3>1. UNCHANGED op \/ op' = [op EXCEPT ![held[a]].tx = 0]
      BY DEF Send
    <3>. QED  BY <1>1, <1>3, <3>1, TxSet
  <2>. QED  BY <1>2, <1>4, <1>9, <2>1, ReceiptStays
<1>. QED  BY <1>1, <1>2, <1>3, <1>5, <1>9, <1>10, <1>11, WorkReceipts

\* The remaining steps leave the receipt alone.
LEMMA ProgressKeepsReceipts ==
  ASSUME Control, Control', Ledger, Receipts, NEW a \in Actors, WorkFrame(a),
         ReadHigh(a) \/ Finalize(a) \/ ApplyRead(a) \/ ApplyWrite(a) \/ Spread(a)
  PROVE  Receipts'
<1>1. /\ UNCHANGED <<row, high, index>> /\ UNCHANGED <<tx, ntx>> /\ pc[a] \in Working
      /\ \A b \in Actors : b # a => stage'[b] = stage[b]
  BY StageFrame DEF ReadHigh, Finalize, Superseded, ApplyRead, ApplyWrite, Spread, SpreadDone,
         SpreadOn, SpreadStops, ledgerVars, txVars, Working, WorkStep
<1>2. LogKept /\ TxKept /\ \A t \in 1..ntx' : TxSettled(t)'
  BY <1>1, LedgerStands, TxStand
<1>3. PICK p \in 1..nop : p = held[a]
  BY <1>1, AtWork
<1>4. op'[p].job = op[p].job
  BY <1>3 DEF WorkFrame
<1>5. op'[p].tx = op[p].tx /\ op'[p].status = op[p].status
  <2>1. op[p] \in Object /\ op \in [OpIds -> Object \cup {None}] /\ p \in OpIds
    BY <1>1, <1>3, AtWork DEF Control, ObjectTypes
  <2>2. \/ UNCHANGED op
        \/ \E l : op' = [op EXCEPT ![p].left = l]
        \/ \E l : op' = [op EXCEPT ![p].resolved = TRUE, ![p].left = l]
    BY <1>3 DEF ReadHigh, Finalize, Superseded, ApplyRead, ApplyWrite, Spread, SpreadDone,
                SpreadOn, SpreadStops, Listed
  <2>3. CASE \E l : op' = [op EXCEPT ![p].left = l]
    <3>1. PICK l : op'[p] = [op[p] EXCEPT !.left = l]
      BY <2>1, <2>3
    <3>. QED  BY <2>1, <3>1 DEF Object
  <2>4. CASE \E l : op' = [op EXCEPT ![p].resolved = TRUE, ![p].left = l]
    <3>1. PICK l : op'[p] = [[op[p] EXCEPT !.resolved = TRUE] EXCEPT !.left = l]
      BY <2>1, <2>4
    <3>. QED  BY <2>1, <3>1 DEF Object
  <2>. QED  BY <2>2, <2>3, <2>4
<1>6. ReceiptSound(p)'
  BY <1>2, <1>4, <1>5, ReceiptStays DEF Receipts
<1>7. pc'[a] \notin {"op", "gate", "finalize"}
  BY GoesTo DEF ReadHigh, Finalize, Superseded, ApplyRead, ApplyWrite, Spread, SpreadDone,
                SpreadOn, SpreadStops
<1>. QED  BY <1>1, <1>2, <1>3, <1>6, <1>7, ClaimsNothing, WorkReceipts

LEMMA WorkKeepsReceipts ==
  ASSUME Control, Control', Ledger, Receipts, NEW a \in Actors, WorkStep(a)
  PROVE  Receipts'
<1>1. WorkFrame(a)
  BY WorkKeepsControl
<1>. QED  BY <1>1, SettlingKeepsReceipts, ReadRowKeepsReceipts, ReadIndexKeepsReceipts,
             SendKeepsReceipts, ProgressKeepsReceipts DEF WorkStep

\* Requests, passes and restarts leave the receipts alone; a new object has none.
LEMMA AsideKeepsReceipts ==
  ASSUME Control, Control', Ledger, Receipts, NEW a \in Actors,
         \/ a \in Callers /\ ((\E j \in Job : Start(a, j)) \/ CallerStep(a))
         \/ a \in Passes /\ (PassStart(a) \/ PassPick(a))
  PROVE  Receipts'
<1>1. UNCHANGED <<row, high, index>> /\ UNCHANGED <<tx, ntx>>
  BY DEF Start, CallerStep, Operation, TakeGate, PassStart, PassPick, ledgerVars, txVars
<1>2. LogKept /\ TxKept /\ \A t \in 1..ntx' : TxSettled(t)'
  BY <1>1, LedgerStands, TxStand
<1>3. /\ pc \in [Actors -> Labels] /\ job \in [Actors -> Job \cup {None}]
      /\ stage \in [Actors -> {"submit", "finalize", "pass"}]
  BY DEF Control, ActorTypes
<1>4. \A b \in Actors : b # a => pc'[b] = pc[b] /\ job'[b] = job[b] /\ stage'[b] = stage[b]
  <2>1. UNCHANGED job \/ \E j : job' = [job EXCEPT ![a] = j]
    BY DEF Start, CallerStep, Operation, TakeGate, PassStart, PassPick
  <2>2. UNCHANGED pc \/ \E l : pc' = [pc EXCEPT ![a] = l]
    BY DEF Start, CallerStep, Operation, TakeGate, PassStart, PassPick, Goto
  <2>3. UNCHANGED stage \/ \E s : stage' = [stage EXCEPT ![a] = s]
    BY DEF Start, CallerStep, Operation, TakeGate, PassStart, PassPick
  <2>. QED  BY <1>3, <2>1, <2>2, <2>3
<1>5. \A b \in Actors : b # a => ReportSound(b)'
  BY <1>2, <1>4, ReportStays DEF Receipts, Finalizing
<1>6. ReportSound(a)'
  <2>1. CASE a \in Passes /\ (PassStart(a) \/ PassPick(a))
    <3>1. pc[a] \in {"idle", "pick"} /\ (UNCHANGED pc \/ \E l \in {"pick", "idle", "advance"} : Goto(a, l))
      BY <2>1 DEF PassStart, PassPick
    <3>2. pc'[a] \in {"pick", "idle", "advance"}
      BY <1>3, <3>1 DEF Goto
    <3>. QED  BY <3>2, ClaimsNothing
  <2>2. CASE \E j \in Job : Start(a, j)
    <3>1. pc'[a] = "op" /\ stage'[a] = "submit"
      BY <1>3, <2>2 DEF Start, Goto
    <3>. QED  BY <3>1 DEF ReportSound, Finalizing
  <2>3. CASE CallerStep(a)
    <3>1. UNCHANGED <<job, stage>> /\ pc[a] \in {"op", "gate"}
      BY <2>3 DEF CallerStep, Operation, TakeGate
    <3>2. pc'[a] \in {"gate", "advance", "done"} \/ (pc'[a] = "finalize" /\ stage[a] # "submit")
      <4>1. \/ \E l \in {"gate", "done"} : Goto(a, l)
            \/ Goto(a, IF stage[a] = "submit" THEN "advance" ELSE "finalize")
        BY <2>3 DEF CallerStep, Operation, TakeGate
      <4>. QED  BY <1>3, <4>1 DEF Goto
    <3>3. Finalizing(a)' => Finalizing(a)
      BY <3>1, <3>2 DEF Finalizing
    <3>. QED  BY <1>2, <3>1, <3>3, ReportStays DEF Receipts
  <2>. QED  BY <2>1, <2>2, <2>3
<1>7. ASSUME NEW p \in 1..nop' PROVE ReceiptSound(p)'
  <2>1. CASE UNCHANGED <<op, nop>>
    BY <1>2, <2>1, ReceiptStays DEF Receipts
  <2>2. CASE a \in Callers /\ pc[a] = "op" /\ \E w \in Actors \cup {None} : Creates(a, w)
    <3>1. PICK w \in Actors \cup {None} : Creates(a, w)
      BY <2>2
    <3>2. /\ \A q \in 1..nop : op'[q] = op[q]
          /\ nop \in Nat /\ nop' = nop + 1
      BY <1>1, <2>2, <3>1, CreateKeepsObjects, LifecycleAssumption DEF Creates, Control, ObjectTypes
    <3>3. CASE p \in 1..nop
      BY <1>2, <3>2, <3>3, ReceiptStays DEF Receipts
    <3>4. CASE p \notin 1..nop
      <4>1. p = nop + 1 /\ p \in OpIds
        <5>1. nop < MaxOp /\ MaxOp \in Nat
          BY <3>1, LifecycleAssumption DEF Creates
        <5>2. p \in 1..(nop + 1) /\ p \notin 1..nop
          BY <3>2, <3>4
        <5>. QED  BY <3>2, <5>1, <5>2 DEF OpIds
      <4>2. op'[p].tx = 0 /\ op'[p].status = ""
        BY <3>1, <4>1 DEF Creates, Control, ObjectTypes
      <4>. QED  BY <4>2 DEF ReceiptSound
    <3>. QED  BY <3>3, <3>4
  <2>3. UNCHANGED <<op, nop>>
        \/ (a \in Callers /\ pc[a] = "op" /\ \E w \in Actors \cup {None} : Creates(a, w))
    <3>1. CASE a \in Callers /\ CallerStep(a)
      BY <3>1 DEF CallerStep, Operation, TakeGate, Creates, opVars
    <3>2. CASE (\E j \in Job : Start(a, j)) \/ PassStart(a) \/ PassPick(a)
      BY <3>2 DEF Start, PassStart, PassPick, opVars
    <3>. QED  BY <3>1, <3>2
  <2>. QED  BY <2>1, <2>2, <2>3
<1>. QED  BY <1>2, <1>5, <1>6, <1>7 DEF Receipts

\* A transaction becomes committed together with its entry.
LEMMA ValidateKeepsReceipts ==
  ASSUME Control, Control', Ledger, Receipts, NEW t \in TxIds, Validate(t)
  PROVE  Receipts'
<1>1. UNCHANGED <<op, nop>> /\ UNCHANGED <<pc, job, stage>> /\ UNCHANGED ntx
  BY DEF Validate, opVars, actorVars
<1>2. tx[t] \in Transaction /\ tx \in [TxIds -> Transaction \cup {None}]
      /\ \A u \in 1..ntx : u \in TxIds
  BY LifecycleAssumption DEF Validate, Control, TxTypes, TxIds
<1>3. \E s : tx' = [tx EXCEPT ![t].status = s]
  BY DEF Validate
<1>4. /\ \A u \in TxIds : u # t => tx'[u] = tx[u]
      /\ tx'[t].def = tx[t].def /\ tx'[t].event = tx[t].event
  <2>1. PICK s : tx'[t] = [tx[t] EXCEPT !.status = s]
    BY <1>2, <1>3
  <2>. QED  BY <1>2, <1>3, <2>1 DEF Transaction
<1>5. TxKept
  BY <1>1, <1>2, <1>4, LifecycleAssumption DEF TxKept, Control, TxTypes
<1>6. CASE Valid(t)
  <2>1. Commits(t)
    BY <1>6 DEF Validate, Valid, Commits
  <2>2. /\ \A i \in 1..high.value : index'[i] = index[i]
        /\ high'.value = high.value + 1 /\ high.value \in Nat
        /\ high.value + 1 \in 1..high'.value
        /\ index'[high.value + 1].def = tx[t].def
        /\ index'[high.value + 1].init = tx[t].init
        /\ tx[t].event = "initialized" => tx[t].init
    BY <1>6, <2>1, CommitExtends, ValidatedTransaction
  <2>3. LogKept
    BY <2>2 DEF LogKept
  <2>4. TxSettled(t)'
    BY <1>4, <2>2 DEF TxSettled, Recorded
  <2>5. ASSUME NEW u \in 1..ntx, u # t PROVE TxSettled(u)'
    <3>1. PICK d, e : d = tx[u].def /\ e = tx[u].event
      OBVIOUS
    <3>2. tx[u].status = "COMMITTED" => Recorded(d, e)'
      BY <2>3, <3>1, RecordedStays DEF Receipts, TxSettled
    <3>3. tx'[u] = tx[u]
      BY <1>2, <1>4, <2>5
    <3>. QED  BY <3>1, <3>2, <3>3 DEF TxSettled, Recorded
  <2>6. \A p \in 1..nop : ReceiptSound(p)'
    BY <1>1, <1>5, <2>3, ReceiptStays DEF Receipts
  <2>7. \A b \in Actors : ReportSound(b)'
    BY <1>1, <2>3, ReportStays DEF Receipts, Finalizing
  <2>. QED  BY <1>1, <2>4, <2>5, <2>6, <2>7 DEF Receipts
<1>7. CASE ~Valid(t)
  <2>1. UNCHANGED <<row, high, index>> /\ tx' = [tx EXCEPT ![t].status = "ABORTED"]
    BY <1>7 DEF Validate, Valid, ledgerVars
  <2>2. LogKept
    BY <2>1, LedgerStands
  <2>3. tx'[t].status = "ABORTED"
    BY <1>2, <2>1 DEF Transaction
  <2>4. \A u \in 1..ntx' : TxSettled(u)'
    BY <1>1, <1>2, <1>4, <1>5, <2>2, <2>3, SettledStays
  <2>5. \A p \in 1..nop : ReceiptSound(p)'
    BY <1>1, <1>5, <2>2, ReceiptStays DEF Receipts
  <2>6. \A b \in Actors : ReportSound(b)'
    BY <1>1, <2>2, ReportStays DEF Receipts, Finalizing
  <2>. QED  BY <1>1, <2>4, <2>5, <2>6 DEF Receipts
<1>. QED  BY <1>6, <1>7

\* Crashes and replays end work, they do not claim any.
LEMMA RestartKeepsReceipts ==
  ASSUME Control, Control', Ledger, Receipts, NEW o \in Orgs,
         Crash(o) \/ SyncStep(o)
  PROVE  Receipts'
<1>1. /\ UNCHANGED <<row, high, index>> /\ UNCHANGED <<tx, ntx>> /\ UNCHANGED <<op, nop>>
      /\ UNCHANGED <<job, stage>>
  BY DEF Crash, SyncStep, ledgerVars, txVars, opVars, actorVars
<1>2. LogKept /\ TxKept /\ \A t \in 1..ntx' : TxSettled(t)'
  BY <1>1, LedgerStands, TxStand
<1>3. \A b \in Actors : pc'[b] = pc[b] \/ pc'[b] \in {"idle", "done", "pick"}
  <2>1. CASE Crash(o)
    BY <2>1 DEF Crash, After
  <2>2. CASE SyncStep(o)
    BY <2>2 DEF SyncStep, actorVars
  <2>. QED  BY <2>1, <2>2
<1>4. \A b \in Actors : ReportSound(b)'
  BY <1>1, <1>2, <1>3, ReportStays DEF Receipts, Finalizing
<1>5. \A p \in 1..nop : ReceiptSound(p)'
  BY <1>1, <1>2, ReceiptStays DEF Receipts
<1>. QED  BY <1>1, <1>2, <1>4, <1>5 DEF Receipts

LEMMA ReceiptsInitially == Init => Receipts
<1>. SUFFICES ASSUME Init PROVE Receipts
  OBVIOUS
<1>1. 1..ntx = {} /\ 1..nop = {}
  BY DEF Init
<1>2. \A a \in Actors : ReportSound(a)
  BY DEF Init, ReportSound, Finalizing
<1>. QED  BY <1>1, <1>2 DEF Receipts

LEMMA ReceiptsInductive == Control /\ Control' /\ Ledger /\ Receipts /\ [Next]_vars => Receipts'
<1>. SUFFICES ASSUME Control, Control', Ledger, Receipts, [Next]_vars PROVE Receipts'
  OBVIOUS
<1>1. CASE UNCHANGED vars
  <2>1. /\ UNCHANGED <<row, high, index>> /\ UNCHANGED <<tx, ntx>> /\ UNCHANGED <<op, nop>>
        /\ UNCHANGED <<pc, job, stage>>
    BY <1>1 DEF vars, ledgerVars, txVars, opVars, actorVars
  <2>2. LogKept /\ TxKept /\ \A t \in 1..ntx' : TxSettled(t)'
    BY <2>1, LedgerStands, TxStand
  <2>3. \A b \in Actors : ReportSound(b)'
    BY <2>1, <2>2, ReportStays DEF Receipts, Finalizing
  <2>4. \A p \in 1..nop : ReceiptSound(p)'
    BY <2>1, <2>2, ReceiptStays DEF Receipts
  <2>. QED  BY <2>1, <2>2, <2>3, <2>4 DEF Receipts
<1>2. CASE Next
  BY <1>2, AsideKeepsReceipts, WorkKeepsReceipts, ValidateKeepsReceipts, RestartKeepsReceipts
     DEF Next, Actors
<1>. QED  BY <1>1, <1>2

-----------------------------------------------------------------------------
(* The theorems.                                                           *)

IInv == Control /\ Ledger /\ Tables /\ Receipts

\* In every reachable state each table holds only logged definitions, a replay
\* knows every entry it has passed, whoever counts as told of an operation
\* knows it or will when it serves again, and what counts as committed is on
\* the ledger.
THEOREM TablesInvariance == Spec => []IInv
<1>1. Init => IInv
  BY ControlInitially, LedgerInitially, TablesInitially, ReceiptsInitially DEF IInv
<1>2. IInv /\ [Next]_vars => IInv'
  BY ControlInductive, LedgerInductive, TablesInductive, ReceiptsInductive DEF IInv
<1>. QED  BY <1>1, <1>2, PTL DEF Spec

\* Only a finished replay brings an organization back.
LEMMA OnlyReplayEnds ==
  ASSUME Control, [Next]_vars, NEW o \in Orgs, ~Up(o), Up(o)'
  PROVE  SyncStep(o) /\ Replayed(o)
<1>1. sync'[o] # sync[o]
  BY DEF Up
<1>2. CASE \E u \in Orgs : SyncStep(u)
  <2>1. PICK u \in Orgs : SyncStep(u)
    BY <1>2
  <2>2. u = o
    BY <1>1, <2>1 DEF SyncStep, Control, LedgerTypes
  <2>3. CASE ~Replayed(o)
    <3>1. sync' = [sync EXCEPT ![o].at = sync[o].at + 1]
      BY <2>1, <2>2, <2>3 DEF SyncStep
    <3>2. sync'[o].at = sync[o].at + 1 /\ sync[o].at \in Nat
      BY <3>1 DEF Control, LedgerTypes
    <3>3. sync'[o].at # 0
      BY <3>2
    <3>. QED  BY <3>3 DEF Up, NotSyncing
  <2>. QED  BY <2>1, <2>2, <2>3
<1>3. CASE \E u \in Orgs : Crash(u)
  <2>1. PICK u \in Orgs : Crash(u)
    BY <1>3
  <2>2. u # o
    BY <2>1 DEF Crash
  <2>. QED  BY <1>1, <2>1, <2>2 DEF Crash, Control, LedgerTypes
<1>4. CASE \E a \in Actors : WorkStep(a)
  BY <1>1, <1>4 DEF WorkStep, Advance, ReadRow, ReadHigh, ReadIndex, Send, WaitFinality,
                    Finalize, Superseded, ApplyRead, ApplyWrite, Spread,
                    SpreadDone, SpreadOn, SpreadStops
<1>5. CASE \/ \E a \in Callers : (\E j \in Job : Start(a, j)) \/ CallerStep(a)
           \/ \E u \in Passes : PassStart(u) \/ PassPick(u)
           \/ \E t \in TxIds : Validate(t)
           \/ UNCHANGED vars
  BY <1>1, <1>5 DEF Start, CallerStep, Operation, TakeGate, PassStart, PassPick, Validate, vars
<1>. QED  BY <1>2, <1>3, <1>4, <1>5 DEF Next

\* syncLifecycleFromLedger: when a restarted orchestrator serves again, its
\* table knows every revision and marker committed when it read the watermark,
\* although the rows it copies keep changing under the replay.
THEOREM ReplayRestores == Spec => ReplayRestoresTable
<1>1. ASSUME IInv, [Next]_vars, NEW o \in Orgs, ~Up(o), Up(o)', NEW i \in 1..sync[o].to
      PROVE  LET m == mirror'[o][index[i].def.name] IN
             \/ m.seq > index[i].def.seq
             \/ m.seq = index[i].def.seq /\ (index[i].init => m.init)
  <2>1. SyncStep(o) /\ Replayed(o)
    BY <1>1, OnlyReplayEnds DEF IInv
  <2>2. UNCHANGED mirror
    BY <2>1 DEF SyncStep
  <2>3. i < sync[o].at
    BY <1>1, <2>1, Numbers DEF Replayed, IInv
  <2>4. KnownIn(o, i)
    BY <1>1, <2>3 DEF IInv, Tables, SyncSound
  <2>. QED  BY <2>2, <2>4 DEF KnownIn
<1>2. IInv /\ [Next]_vars =>
        [\A o \in Orgs : ~Up(o) /\ Up(o)' =>
           \A i \in 1..sync[o].to :
             LET m == mirror'[o][index[i].def.name] IN
             \/ m.seq > index[i].def.seq
             \/ m.seq = index[i].def.seq /\ (index[i].init => m.init)]_vars
  BY <1>1
<1>. QED  BY <1>2, TablesInvariance, PTL DEF Spec, ReplayRestoresTable

\* finalizeLifecycleOperation and ReconcileDefinition: whenever a Commit or
\* Init completion reports success, its revision and marker are on the ledger,
\* and a newer revision is too or everybody with a static contact, and the own
\* organization, has it, whoever told them and however often they crashed and
\* replayed in between.
THEOREM SuccessReaches == Spec => SuccessIsTrue
<1>1. ASSUME IInv, NEW a \in Callers, SpreadDone(a)
      PROVE  OnLedger(job[a]) /\ \A o \in Static \cup {Home[a]} : Up(o) => Knows(o, job[a])
  <2>1. a \in Actors /\ pc[a] = "spread" /\ pc[a] \in Working /\ OrgOf(a) = Home[a]
    BY <1>1 DEF Actors, Working, SpreadDone, OrgOf
  <2>2. /\ held[a] \in 1..nop /\ op[held[a]].job = job[a] /\ op[held[a]].org = OrgOf(a)
    BY <1>1, <2>1, AtWork DEF IInv
  <2>3. Told(OrgOf(a), job[a])
    BY <1>1, <2>1 DEF IInv, Tables, ServingSound
  <2>4. ASSUME NEW o \in Static PROVE Told(o, job[a])
    <3>1. CASE op[held[a]].resolved
      <4>1. op[held[a]].left = {}
        BY <1>1, <3>1 DEF SpreadDone, Outstanding
      <4>. QED  BY <1>1, <2>2, <3>1, <4>1 DEF IInv, Tables, ProgressSound
    <3>2. CASE ~op[held[a]].resolved
      <4>1. o = OrgOf(a)
        BY <1>1, <2>2, <3>2 DEF SpreadDone, Outstanding, RemotePeers
      <4>. QED  BY <2>3, <4>1
    <3>. QED  BY <3>1, <3>2
  <2>. QED  BY <2>1, <2>3, <2>4 DEF Told, OnLedger
<1>2. ASSUME IInv, NEW a \in Callers, Superseded(a)
      PROVE  /\ OnLedger(job[a])
             /\ \E i \in 1..high.value :
                  index[i].def.name = job[a].def.name /\ index[i].def.seq > job[a].def.seq
  <2>1. a \in Actors /\ pc[a] = "finalize" /\ pc[a] \in Working
    BY <1>2 DEF Actors, Working, Superseded
  <2>2. OnLedger(job[a])
    BY <1>2, <2>1 DEF IInv, Receipts, ReportSound, Finalizing, Recorded, OnLedger
  <2>3. PICK n : n = job[a].def.name
    OBVIOUS
  <2>4. n \in Names /\ job[a].def.seq \in Nat /\ row[n].seq \in Nat /\ row[n].seq > job[a].def.seq
    <3>1. job[a] \in Job
      BY <1>2, <2>1, AtWork DEF IInv
    <3>. QED  BY <1>2, <2>3, <3>1, Numbers DEF IInv, Superseded, Control, LedgerTypes, Row
  <2>5. Logged(DefOf(n, row[n]), row[n].init)
    BY <1>2, <2>4 DEF IInv, Ledger, RowsLogged
  <2>. QED  BY <2>2, <2>3, <2>4, <2>5 DEF Logged, DefOf
<1>3. IInv /\ [Next]_vars =>
        [\A a \in Callers :
           /\ SpreadDone(a) \/ Superseded(a) => OnLedger(job[a])
           /\ Superseded(a) => \E i \in 1..high.value :
                index[i].def.name = job[a].def.name /\ index[i].def.seq > job[a].def.seq
           /\ SpreadDone(a) => \A o \in Static \cup {Home[a]} : Up(o) => Knows(o, job[a])]_vars
  BY <1>1, <1>2
<1>. QED  BY <1>3, TablesInvariance, PTL DEF Spec, SuccessIsTrue

-----------------------------------------------------------------------------
(* The ledger and the tables implement LifecycleContract.                  *)

\* The log the contract sees.
Log == [i \in 1..high.value |-> index[i]]

LEMMA LogIsSequence ==
  ASSUME Control, Ledger
  PROVE  Log \in Seq(Entry) /\ Len(Log) = high.value /\ DOMAIN Log = 1..high.value
<1>1. high.value \in Nat /\ \A i \in 1..high.value : index[i] \in Entry
  BY LogTyped
<1>. QED  BY <1>1 DEF Log

LEMMA LogStands ==
  ASSUME UNCHANGED <<row, high, index>>
  PROVE  Log' = Log
BY DEF Log

\* A commit appends its entry.
LEMMA CommitAppends ==
  ASSUME Control, Ledger, Control', Ledger', NEW t \in TxIds, Valid(t), Commits(t)
  PROVE  Log' = Append(Log, EntryOf(t))
<1>1. /\ high.value \in Nat /\ high'.value = high.value + 1
      /\ index'[high.value + 1] = EntryOf(t) /\ EntryOf(t) \in Entry
      /\ \A i \in 1..high.value : index'[i] = index[i]
  BY ValidatedTransaction, CommitExtends
<1>2. /\ Log \in Seq(Entry) /\ Len(Log) = high.value
      /\ \A i \in 1..high.value : Log[i] = index[i]
  BY LogIsSequence DEF Log
<1>3. \A i \in 1..high.value : index[i] \in Entry
  BY LogTyped
<1>4. /\ Log' = [i \in 1..(high.value + 1) |-> index'[i]]
      /\ \A i \in 1..(high.value + 1) : index'[i] \in Entry
  BY <1>1, <1>3 DEF Log
<1>5. Log' \in Seq(Entry) /\ Len(Log') = high.value + 1
  BY <1>1, <1>4
<1>6. /\ Append(Log, EntryOf(t)) \in Seq(Entry)
      /\ Len(Append(Log, EntryOf(t))) = high.value + 1
      /\ \A i \in 1..high.value : Append(Log, EntryOf(t))[i] = index[i]
      /\ Append(Log, EntryOf(t))[high.value + 1] = EntryOf(t)
  BY <1>1, <1>2, AppendProperties
<1>7. \A i \in 1..(high.value + 1) : Log'[i] = Append(Log, EntryOf(t))[i]
  BY <1>1, <1>4, <1>6
<1>. QED  BY <1>5, <1>6, <1>7, SeqEqual

\* The contract's newest entry of a name is the definition row.
LEMMA NewestIsRow ==
  ASSUME Control, Ledger, NEW n \in Names
  PROVE  /\ Lifecycle!Newest(n).seq = row[n].seq
         /\ Lifecycle!Newest(n).ver = row[n].ver
         /\ Lifecycle!Newest(n).init = row[n].init
<1>1. {i \in DOMAIN Log : Log[i].def.name = n} = Entries(n)
  BY LogTyped DEF Log, Entries
<1>2. CASE Entries(n) = {}
  <2>1. row[n] = NoRow
    BY <1>2 DEF Ledger, IndexMatchesRows
  <2>2. Lifecycle!Newest(n) = Lifecycle!Unknown
    BY <1>1, <1>2 DEF Lifecycle!Newest, Log
  <2>. QED  BY <2>1, <2>2 DEF Lifecycle!Unknown, NoRow
<1>3. CASE Entries(n) # {}
  <2> DEFINE last == CHOOSE i \in Entries(n) : \A j \in Entries(n) : j <= i
  <2>1. last \in Entries(n)
    <3>1. \E i \in Entries(n) : \A j \in Entries(n) : j <= i
      BY <1>3 DEF Ledger, NewestExists
    <3>. QED  BY <3>1
  <2>2. DefOf(n, row[n]) = index[last].def /\ row[n].init = index[last].init
    BY <1>3 DEF Ledger, IndexMatchesRows
  <2>3. Log[last] = index[last]
    BY <2>1 DEF Log, Entries
  <2>4. Lifecycle!Newest(n) = Lifecycle!Shown(Log[last])
    BY <1>1, <1>3 DEF Lifecycle!Newest, Log
  <2>. QED  BY <2>2, <2>3, <2>4 DEF Lifecycle!Shown, DefOf
<1>. QED  BY <1>2, <1>3

\* What stutters for the contract.
LEMMA ContractStutters ==
  ASSUME UNCHANGED <<row, high, index>>, UNCHANGED mirror
  PROVE  UNCHANGED Lifecycle!contract
BY DEF Lifecycle!contract

\* A revision, and a marker, of a known name is a step of the contract.
LEMMA RevisionIsStep ==
  ASSUME NEW n \in Names, NEW v \in Versions, Lifecycle!CommitRevision(n, v)
  PROVE  Lifecycle!Next
BY DEF Lifecycle!Next

LEMMA MarkerIsStep ==
  ASSUME NEW n \in Names, Lifecycle!MarkInitialized(n)
  PROVE  Lifecycle!Next
BY DEF Lifecycle!Next

\* A transaction that passes validation is the contract's CommitRevision or
\* MarkInitialized.
LEMMA CommitNamed ==
  ASSUME Control, Ledger, Control', Ledger', NEW t \in TxIds, Valid(t), Commits(t),
         UNCHANGED mirror, NEW n, NEW v, n = tx[t].def.name, v = tx[t].def.ver
  PROVE  Lifecycle!Next
<1> DEFINE x == tx[t]
<1>1. /\ x.def \in Defs /\ n \in Names /\ x.event \in Events /\ x.init \in BOOLEAN
      /\ MayPrepare([def |-> x.def, event |-> x.event], row[n])
      /\ x.init <=> (x.event = "initialized" \/ ~InitRequired(x.def))
  BY ValidatedTransaction
<1>2. x.def = [name |-> n, seq |-> x.def.seq, ver |-> v] /\ v \in Versions
  BY <1>1 DEF Defs
<1>3. Log' = Append(Log, [def |-> x.def, event |-> x.event, init |-> x.init])
  BY CommitAppends DEF EntryOf
<1>4. /\ Lifecycle!Newest(n).seq = row[n].seq /\ Lifecycle!Newest(n).ver = row[n].ver
      /\ Lifecycle!Newest(n).init = row[n].init
  BY <1>1, NewestIsRow
<1>5. CASE x.event = "commit"
  <2>1. x.def.seq = row[n].seq + 1
    BY <1>1, <1>5 DEF MayPrepare
  <2>2. x.init = (v \notin InitVersions)
    BY <1>1, <1>5 DEF InitRequired
  <2>3. x.def = [name |-> n, seq |-> Lifecycle!Newest(n).seq + 1, ver |-> v]
    BY <1>2, <1>4, <2>1
  <2>4. Log' = Append(Log, [def |-> [name |-> n, seq |-> Lifecycle!Newest(n).seq + 1, ver |-> v],
                            event |-> "commit", init |-> v \notin InitVersions])
    BY <1>3, <1>5, <2>2, <2>3
  <2>5. Lifecycle!CommitRevision(n, v)
    BY <2>4 DEF Lifecycle!CommitRevision, Log
  <2>. QED  BY <1>1, <1>2, <2>5, RevisionIsStep
<1>6. CASE x.event = "initialized"
  <2>1. DefOf(n, row[n]) = x.def /\ ~row[n].init
    BY <1>1, <1>6 DEF MayPrepare
  <2>2. row[n].seq = x.def.seq /\ row[n].ver = v /\ x.def.seq > 0
    <3>1. row[n].seq = x.def.seq /\ row[n].ver = v
      BY <2>1 DEF DefOf
    <3>2. x.def.seq \in 1..MaxSeq
      BY <1>1 DEF Defs
    <3>. QED  BY <3>1, <3>2
  <2>3. x.init = TRUE
    BY <1>1, <1>6
  <2>4. x.def = [name |-> n, seq |-> Lifecycle!Newest(n).seq, ver |-> Lifecycle!Newest(n).ver]
    BY <1>2, <1>4, <2>2
  <2>5. Log' = Append(Log, [def |-> [name |-> n, seq |-> Lifecycle!Newest(n).seq,
                                     ver |-> Lifecycle!Newest(n).ver],
                            event |-> "initialized", init |-> TRUE])
    BY <1>3, <1>6, <2>3, <2>4
  <2>6. Lifecycle!Newest(n).seq > 0 /\ ~Lifecycle!Newest(n).init
    BY <1>4, <2>1, <2>2
  <2>7. Lifecycle!MarkInitialized(n)
    BY <2>5, <2>6 DEF Lifecycle!MarkInitialized, Log
  <2>. QED  BY <1>1, <2>7, MarkerIsStep
<1>. QED  BY <1>1, <1>5, <1>6 DEF Events

LEMMA CommitImplements ==
  ASSUME Control, Ledger, Control', Ledger', NEW t \in TxIds, Valid(t), Commits(t),
         UNCHANGED mirror
  PROVE  Lifecycle!Next
BY CommitNamed

\* Copying a logged definition is the contract's Learn, or changes nothing.
LEMMA CopyImplements ==
  ASSUME Control, Ledger, Tables, NEW o \in Orgs, NEW d \in Defs, NEW b \in BOOLEAN,
         Logged(d, b), UNCHANGED <<row, high, index>>, Copies(o, d, b)
  PROVE  Lifecycle!Next \/ UNCHANGED Lifecycle!contract
<1>1. mirror' = mirror \/ Learns(o, d, b)
  BY CopyLogged DEF Tables
<1>2. CASE mirror' = mirror
  BY <1>2, ContractStutters
<1>3. CASE Learns(o, d, b)
  <2>1. PICK i \in 1..high.value : index[i].def = d /\ index[i].init = b
    BY DEF Logged
  <2>2. i \in DOMAIN Log /\ Log[i] = index[i]
    BY <2>1 DEF Log
  <2>3. PICK e : e = Log[i]
    OBVIOUS
  <2>4. e.def = d /\ e.init = b
    BY <2>1, <2>2, <2>3
  <2>5. d.seq \in Nat /\ mirror[o][d.name].seq \in Nat
    BY Numbers
  <2>6. /\ mirror' = [mirror EXCEPT ![o][e.def.name] = Lifecycle!Shown(e)]
        /\ e.def.seq >= mirror[o][e.def.name].seq
        /\ e.def.seq = mirror[o][e.def.name].seq /\ mirror[o][e.def.name].init => e.init
    BY <1>3, <2>4, <2>5 DEF Learns, Lifecycle!Shown
  <2>7. Lifecycle!Learn(o, e)
    BY <2>6 DEF Lifecycle!Learn, Log
  <2>. QED  BY <2>2, <2>3, <2>7 DEF Lifecycle!Next, Log
<1>. QED  BY <1>1, <1>2, <1>3

LEMMA StepImplements ==
  ASSUME IInv, IInv', [Next]_vars
  PROVE  Lifecycle!Next \/ UNCHANGED Lifecycle!contract
<1>0. /\ Control /\ Ledger /\ Tables /\ Control' /\ Ledger'
  BY DEF IInv
<1>1. ASSUME NEW t \in TxIds, Validate(t)
      PROVE  Lifecycle!Next \/ UNCHANGED Lifecycle!contract
  <2>1. UNCHANGED mirror
    BY <1>1 DEF Validate
  <2>2. CASE Valid(t)
    <3>1. Commits(t)
      BY <1>1, <2>2 DEF Validate, Valid, Commits
    <3>. QED  BY <1>0, <2>1, <2>2, <3>1, CommitImplements
  <2>3. CASE ~Valid(t)
    <3>1. UNCHANGED <<row, high, index>>
      BY <1>1, <2>3 DEF Validate, Valid, ledgerVars
    <3>. QED  BY <2>1, <3>1, ContractStutters
  <2>. QED  BY <2>2, <2>3
<1>2. ASSUME NEW a \in Actors, ApplyWrite(a)
      PROVE  Lifecycle!Next \/ UNCHANGED Lifecycle!contract
  <2>1. /\ UNCHANGED <<row, high, index>> /\ pc[a] = "applyWrite" /\ pc[a] \in Working
    BY <1>2 DEF ApplyWrite, ledgerVars, Working
  <2>2. PICK o, d, b : o = target[a] /\ d = job[a].def /\ b = read[a].row.init
    OBVIOUS
  <2>3. o \in Orgs /\ d \in Defs /\ b \in BOOLEAN
    <3>1. job[a] \in Job
      BY <1>0, <2>1, AtWork
    <3>2. target[a] \in Orgs
      BY <1>0, <2>1 DEF Control, ActorsSound, ActorSound
    <3>3. read[a].row.init \in BOOLEAN
      BY <1>0 DEF Control, ActorTypes, Row
    <3>. QED  BY <2>2, <3>1, <3>2, <3>3 DEF Job
  <2>4. Logged(d, b)
    BY <1>0, <2>1, <2>2 DEF Ledger, ReadSound
  <2>5. Copies(o, d, b)
    BY <1>2, <2>2 DEF ApplyWrite, Copies
  <2>. QED  BY <1>0, <2>1, <2>3, <2>4, <2>5, CopyImplements
<1>3. ASSUME NEW o \in Orgs, SyncStep(o)
      PROVE  Lifecycle!Next \/ UNCHANGED Lifecycle!contract
  <2>1. UNCHANGED <<row, high, index>>
    BY <1>3 DEF SyncStep, ledgerVars
  <2>2. CASE Replayed(o)
    BY <1>3, <2>1, <2>2, ContractStutters DEF SyncStep
  <2>3. CASE ~Replayed(o)
    <3>1. PICK i, n, d, b : Replays(o, i, n, d, b)
      BY <1>0, <1>3, <2>3, ReplayCopies
    <3>. QED  BY <1>0, <2>1, <3>1, CopyImplements DEF Replays
  <2>. QED  BY <2>2, <2>3
<1>4. ASSUME NEW o \in Orgs, Crash(o)
      PROVE  Lifecycle!Next
  <2>1. /\ UNCHANGED <<row, high, index>>
        /\ mirror' = [mirror EXCEPT ![o] = [n \in Names |-> Absent]]
    BY <1>4 DEF Crash, ledgerVars
  <2>2. Lifecycle!Restart(o)
    BY <2>1 DEF Lifecycle!Restart, Lifecycle!Unknown, Absent
  <2>. QED  BY <2>2 DEF Lifecycle!Next
<1>5. ASSUME NEW a \in Actors, WorkStep(a), ~ApplyWrite(a)
      PROVE  UNCHANGED Lifecycle!contract
  <2>1. UNCHANGED <<row, high, index>> /\ UNCHANGED mirror
    BY <1>5 DEF WorkStep, Advance, ReadRow, ReadHigh, ReadIndex, Send, WaitFinality,
                Finalize, Superseded, ApplyRead, Spread, SpreadDone, SpreadOn, SpreadStops, ledgerVars
  <2>. QED  BY <2>1, ContractStutters
<1>6. CASE \/ \E a \in Callers : (\E j \in Job : Start(a, j)) \/ CallerStep(a)
           \/ \E u \in Passes : PassStart(u) \/ PassPick(u)
           \/ UNCHANGED vars
  <2>1. UNCHANGED <<row, high, index>> /\ UNCHANGED mirror
    BY <1>6 DEF Start, CallerStep, Operation, TakeGate, PassStart, PassPick, vars, ledgerVars
  <2>. QED  BY <2>1, ContractStutters
<1>. QED  BY <1>1, <1>2, <1>3, <1>4, <1>5, <1>6 DEF Next

\* prepareLifecycleTransaction, applyLedgerDefinition, upsertCommitted and
\* syncLifecycleFromLedger together: the three ledger rows and the tables of
\* all organizations behave as one log that everybody follows.
THEOREM Refinement == Spec => ImplementsLifecycle
<1>1. Init => Lifecycle!Init
  <2>. SUFFICES ASSUME Init PROVE Lifecycle!Init
    OBVIOUS
  <2>1. high.value = 0
    BY DEF Init
  <2>2. [i \in 1..high.value |-> index[i]] = <<>>
    BY <2>1
  <2>3. mirror = [o \in Orgs |-> [n \in Names |-> Lifecycle!Unknown]]
    BY DEF Init, Lifecycle!Unknown, Absent
  <2>. QED  BY <2>2, <2>3 DEF Lifecycle!Init
<1>2. IInv /\ IInv' /\ [Next]_vars => [Lifecycle!Next]_Lifecycle!contract
  BY StepImplements
<1>. QED  BY <1>1, <1>2, TablesInvariance, PTL DEF Spec, ImplementsLifecycle, Lifecycle!Spec

=============================================================================

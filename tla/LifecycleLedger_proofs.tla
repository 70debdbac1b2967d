----------------------- MODULE LifecycleLedger_proofs -----------------------
(***************************************************************************)
(* Proofs about LifecycleLedger, for any organizations, clients, names and *)
(* versions, and for any bounds on sequences, transactions, objects,       *)
(* requests and crashes.                                                   *)
(*                                                                         *)
(* The invariant has two layers, the second proved from the first.         *)
(*                                                                         *)
(* Control: the types, and who may touch a pendingLifecycle object.  An    *)
(* actor past the gate holds it, so only one actor changes the receipt and *)
(* the progress of an operation.                                           *)
(*                                                                         *)
(* Ledger: what was read is the row as it is or an older version of it,    *)
(* and as long as the version is the same the preparation's conditions     *)
(* still hold.  So a transaction that passes the committer's version check *)
(* extends the log properly although its reads were separate.              *)
(*                                                                         *)
(* LifecycleTables_proofs adds what the organizations' tables know.        *)
(***************************************************************************)
EXTENDS LifecycleLedger, FiniteSetTheorems, TLAPS

Row == [seq : 0..MaxSeq, ver : Versions \cup {None}, init : BOOLEAN, version : Nat]
Entry == [def : Defs, event : Events, init : BOOLEAN]
Transaction ==
  [org : Orgs, def : Defs, event : Events, init : BOOLEAN, rowVersion : Nat,
   highVersion : Nat, number : TxIds, status : {"", "ORDERED"} \cup Final]
Object ==
  [org : Orgs, job : Job, tx : TxIds \cup {0}, status : {"", "COMMITTED"},
   resolved : BOOLEAN, left : SUBSET Orgs]
TableRow == [seq : 0..MaxSeq, ver : Versions \cup {None}, init : BOOLEAN]
Watermark == [value : Nat, version : Nat]

-----------------------------------------------------------------------------
(* Control.                                                                *)

LedgerTypes ==
  /\ row \in [Names -> Row]
  /\ high \in Watermark /\ high.value <= MaxTx
  /\ index \in [1..MaxTx -> Entry \cup {None}]
  /\ mirror \in [Orgs -> [Names -> TableRow]]
  /\ sync \in [Orgs -> [at : Nat, to : 0..MaxTx]]
  /\ \A o \in Orgs : ~Up(o) => sync[o].at # 0

TxTypes ==
  /\ ntx \in 0..MaxTx
  /\ tx \in [TxIds -> Transaction \cup {None}]
  /\ \A t \in 1..ntx : tx[t] \in Transaction
  /\ \A t \in TxIds \ (1..ntx) : tx[t] = None
  /\ handed \subseteq 1..ntx

ObjectTypes ==
  /\ nop \in 0..MaxOp
  /\ op \in [OpIds -> Object \cup {None}]
  /\ \A p \in 1..nop : op[p] \in Object /\ op[p].tx \in 0..ntx
  /\ \A p \in OpIds \ (1..nop) : op[p] = None
  /\ opmap \in [Orgs -> [Keys -> 0..nop]]
  /\ gate \in [OpIds -> Actors \cup {None}]

ActorTypes ==
  /\ pc \in [Actors -> Labels]
  /\ stage \in [Actors -> {"submit", "finalize", "pass"}]
  /\ job \in [Actors -> Job \cup {None}]
  /\ held \in [Actors -> 0..nop]
  /\ read \in [Actors -> [row : Row, high : Watermark]]
  /\ target \in [Actors -> Orgs \cup {None}]
  /\ batch \in [Orgs -> SUBSET (1..nop)]

Working == {"advance", "readRow", "readHigh", "readIndex", "send", "wait",
            "finalize", "applyRead", "applyWrite", "spread"}

\* An actor past "op" has an object of its own organization and operation;
\* past "gate" it holds the object's gate.
ActorSound(a) ==
  /\ pc[a] \in Working \cup {"op", "gate"} => job[a] \in Job
  /\ pc[a] \in Working \cup {"gate"} =>
       held[a] # 0 /\ op[held[a]].job = job[a] /\ op[held[a]].org = OrgOf(a)
  /\ pc[a] \in Working => gate[held[a]] = a
  /\ pc[a] \in {"op", "gate"} => a \in Callers
  /\ pc[a] = "pick" => a \in Passes
  /\ pc[a] \in {"send", "wait"} => op[held[a]].tx # 0
  /\ pc[a] \in {"applyRead", "applyWrite"} => target[a] \in Orgs

ActorsSound == \A a \in Actors : ActorSound(a)

\* The map leads to objects of the key it was asked for.
MapSound ==
  \A o \in Orgs, k \in Keys : opmap[o][k] # 0 =>
    op[opmap[o][k]].org = o /\ KeyOf(op[opmap[o][k]].job) = k

Control ==
  /\ LedgerTypes
  /\ TxTypes
  /\ ObjectTypes
  /\ ActorTypes
  /\ ActorsSound
  /\ MapSound

-----------------------------------------------------------------------------
(* The ledger.                                                             *)

\* Version v of the row job j is about was read, and j may be prepared unless
\* the row has changed since.
PreparedFrom(j, v) ==
  LET r == row[j.def.name] IN
  v <= r.version /\ (v = r.version => MayPrepare(j, r))

TxSound(t) ==
  t \in 1..ntx =>
    /\ PreparedFrom([def |-> tx[t].def, event |-> tx[t].event], tx[t].rowVersion)
    /\ tx[t].highVersion <= high.version
    /\ tx[t].number = tx[t].highVersion + 1
    /\ tx[t].init <=> (tx[t].event = "initialized" \/ ~InitRequired(tx[t].def))

\* The log has an entry for d with flag init.
Logged(d, init) ==
  \E i \in 1..high.value : index[i].def = d /\ index[i].init = init

ReadSound(a) ==
  /\ pc[a] \in {"readHigh", "readIndex"} => PreparedFrom(job[a], read[a].row.version)
  /\ pc[a] = "readIndex" =>
       read[a].high.value = read[a].high.version /\ read[a].high.version <= high.version
  /\ pc[a] = "applyWrite" =>
       /\ Logged(job[a].def, read[a].row.init)
       /\ job[a].event = "initialized" => read[a].row.init

\* Entries are at or before the row of their name, and a sequence of a name
\* has one version.
LogOrdered ==
  \A i \in 1..high.value :
    LET d == index[i].def
        r == row[d.name]
    IN /\ d.seq <= r.seq
       /\ d.seq = r.seq => d.ver = r.ver /\ (index[i].init => r.init)

LogUnique ==
  \A i, j \in 1..high.value :
    index[i].def.name = index[j].def.name /\ index[i].def.seq = index[j].def.seq
    => index[i].def = index[j].def

RowsLogged ==
  \A n \in Names :
    /\ row[n].version <= high.version
    /\ row[n].seq # 0 => Logged(DefOf(n, row[n]), row[n].init)

\* A name in the log has a newest entry.
NewestExists ==
  \A n \in Names : Entries(n) # {} => \E i \in Entries(n) : \A j \in Entries(n) : j <= i

Ledger ==
  /\ high.version = high.value
  /\ IndexMatchesRows
  /\ NewestExists
  /\ LogOrdered
  /\ LogUnique
  /\ RowsLogged
  /\ \A t \in TxIds : TxSound(t)
  /\ \A a \in Actors : ReadSound(a)

-----------------------------------------------------------------------------
(* Control is inductive.                                                   *)

LEMMA OrgOfActor == \A a \in Actors : OrgOf(a) \in Orgs
BY LifecycleAssumption DEF Actors, OrgOf

\* What an actor past the gate may rely on.
LEMMA AtWork ==
  ASSUME Control, NEW a \in Actors, pc[a] \in Working
  PROVE  /\ held[a] \in 1..nop /\ held[a] \in OpIds
         /\ op[held[a]] \in Object /\ op[held[a]].tx \in 0..ntx
         /\ job[a] \in Job /\ op[held[a]].job = job[a]
         /\ op[held[a]].org = OrgOf(a)
         /\ gate[held[a]] = a
<1>1. /\ job[a] \in Job /\ held[a] # 0 /\ op[held[a]].job = job[a]
      /\ op[held[a]].org = OrgOf(a) /\ gate[held[a]] = a
  BY DEF Control, ActorsSound, ActorSound
<1>2. held[a] \in 0..nop /\ nop \in 0..MaxOp /\ MaxOp \in Nat
  BY LifecycleAssumption DEF Control, ActorTypes, ObjectTypes
<1>3. held[a] \in 1..nop /\ held[a] \in OpIds
  BY <1>1, <1>2 DEF OpIds
<1>4. op[held[a]] \in Object /\ op[held[a]].tx \in 0..ntx
  BY <1>3 DEF Control, ObjectTypes
<1>. QED  BY <1>1, <1>3, <1>4

\* What a step of actor a at work leaves alone: the other actors, the other
\* objects, and what its own object is about.
WorkFrame(a) ==
  /\ UNCHANGED <<nop, job, batch>>
  /\ \A b \in Actors : b # a =>
       /\ pc'[b] = pc[b] /\ held'[b] = held[b]
       /\ read'[b] = read[b] /\ target'[b] = target[b]
  /\ \A q \in OpIds : q # held[a] => op'[q] = op[q] /\ gate'[q] = gate[q]
  /\ op'[held[a]].org = op[held[a]].org /\ op'[held[a]].job = op[held[a]].job
  /\ \A o \in Orgs, k \in Keys : opmap'[o][k] \in {opmap[o][k], 0}

\* The gate keeps the actors apart.
LEMMA OthersKeepControl ==
  ASSUME Control, NEW a \in Actors, pc[a] \in Working, WorkFrame(a), ActorSound(a)'
  PROVE  ActorsSound' /\ MapSound'
<1>1. ActorsSound'
  <2>. SUFFICES ASSUME NEW b \in Actors, b # a PROVE ActorSound(b)'
    BY DEF ActorsSound
  <2>1. ActorSound(b)
    BY DEF Control, ActorsSound
  <2>2. /\ pc'[b] = pc[b] /\ held'[b] = held[b] /\ job'[b] = job[b]
        /\ target'[b] = target[b]
    BY DEF WorkFrame
  <2>3. gate[held[a]] = a /\ held[a] \in OpIds
    BY AtWork
  <2>4. CASE pc[b] \in Working
    <3>1. held[b] # held[a] /\ held[b] \in OpIds
      BY <2>3, <2>4, AtWork
    <3>2. op'[held[b]] = op[held[b]] /\ gate'[held[b]] = gate[held[b]]
      BY <3>1 DEF WorkFrame
    <3>. QED  BY <2>1, <2>2, <2>4, <3>2 DEF ActorSound
  <2>5. CASE pc[b] = "gate"
    <3>1. held[b] \in OpIds
      <4>1. held[b] \in 0..nop /\ nop \in 0..MaxOp /\ MaxOp \in Nat /\ held[b] # 0
        BY <2>1, <2>5, LifecycleAssumption DEF Control, ActorTypes, ObjectTypes, ActorSound
      <4>. QED  BY <4>1 DEF OpIds
    <3>2. op'[held[b]].job = op[held[b]].job /\ op'[held[b]].org = op[held[b]].org
      BY <3>1 DEF WorkFrame
    <3>. QED  BY <2>1, <2>2, <2>5, <3>2 DEF ActorSound, Working
  <2>6. CASE pc[b] \notin Working \cup {"gate"}
    BY <2>1, <2>2, <2>6 DEF ActorSound, Working
  <2>. QED  BY <2>4, <2>5, <2>6
<1>2. MapSound'
  <2>. SUFFICES ASSUME NEW o \in Orgs, NEW k \in Keys, opmap'[o][k] # 0
                PROVE  op'[opmap'[o][k]].org = o /\ KeyOf(op'[opmap'[o][k]].job) = k
    BY DEF MapSound, KeyOf
  <2>1. opmap'[o][k] = opmap[o][k] /\ opmap[o][k] # 0
    BY DEF WorkFrame
  <2>2. opmap[o][k] \in OpIds
    <3>1. opmap[o][k] \in 0..nop /\ nop \in 0..MaxOp /\ MaxOp \in Nat
      BY LifecycleAssumption DEF Control, ObjectTypes
    <3>. QED  BY <2>1, <3>1 DEF OpIds
  <2>3. op[opmap[o][k]].org = o /\ KeyOf(op[opmap[o][k]].job) = k
    BY <2>1 DEF Control, MapSound
  <2>4. op'[opmap[o][k]].org = op[opmap[o][k]].org /\ op'[opmap[o][k]].job = op[opmap[o][k]].job
    BY <2>2 DEF WorkFrame
  <2>. QED  BY <2>1, <2>3, <2>4 DEF KeyOf
<1>. QED  BY <1>1, <1>2

\* removeLifecycleOperation only takes a key out of the map.
LEMMA MapWithoutRemoves ==
  ASSUME Control, NEW p \in 1..nop
  PROVE  /\ MapWithout(p) \in [Orgs -> [Keys -> 0..nop]]
         /\ \A o \in Orgs, k \in Keys : MapWithout(p)[o][k] \in {opmap[o][k], 0}
<1>1. op[p] \in Object /\ opmap \in [Orgs -> [Keys -> 0..nop]] /\ nop \in Nat
  BY LifecycleAssumption DEF Control, ObjectTypes
<1>2. op[p].org \in Orgs /\ KeyOf(op[p].job) \in Keys
  BY <1>1 DEF Object, Job, Defs, KeyOf, Keys
<1>. QED  BY <1>1, <1>2 DEF MapWithout

\* How an actor stops working on its object.
LEMMA Leaving ==
  ASSUME Control, NEW a \in Actors, pc[a] \in Working, LeaveVars(a)
  PROVE  /\ gate' \in [OpIds -> Actors \cup {None}] /\ held' \in [Actors -> 0..nop]
         /\ pc' \in [Actors -> Labels]
         /\ pc'[a] = After(a) /\ pc'[a] \in {"done", "pick"}
         /\ pc'[a] = "pick" => a \in Passes
         /\ \A b \in Actors : b # a => pc'[b] = pc[b] /\ held'[b] = held[b]
         /\ \A q \in OpIds : q # held[a] => gate'[q] = gate[q]
<1>1. /\ held[a] \in OpIds /\ gate \in [OpIds -> Actors \cup {None}]
      /\ held \in [Actors -> 0..nop] /\ pc \in [Actors -> Labels] /\ nop \in Nat
  BY AtWork, LifecycleAssumption DEF Control, ObjectTypes, ActorTypes
<1>2. After(a) \in {"done", "pick"} /\ (After(a) = "pick" => a \in Passes)
  BY DEF After, Actors
<1>. QED  BY <1>1, <1>2 DEF LeaveVars, Goto, Labels

\* How a step of actor a at work moves it: it returns, goes on to its next
\* stage, or stays with its object.
Moves(a) ==
  /\ pc' \in [Actors -> Labels]
  /\ held' \in [Actors -> 0..nop]
  /\ gate' \in [OpIds -> Actors \cup {None}]
  /\ opmap' \in [Orgs -> [Keys -> 0..nop]]
  /\ \A b \in Actors : b # a => pc'[b] = pc[b] /\ held'[b] = held[b]
  /\ \A q \in OpIds : q # held[a] => gate'[q] = gate[q]
  /\ \A o \in Orgs, k \in Keys : opmap'[o][k] \in {opmap[o][k], 0}
  /\ \/ pc'[a] = "done"
     \/ pc'[a] = "pick" /\ a \in Passes
     \/ pc'[a] = "op" /\ a \in Callers
     \/ pc'[a] \in Working /\ held'[a] = held[a] /\ gate'[held[a]] = a

\* What a step may do to the object it works on.
Edits(a) ==
  /\ op' \in [OpIds -> Object \cup {None}]
  /\ op'[held[a]] \in Object /\ op'[held[a]].tx \in 0..ntx'
  /\ \A q \in OpIds : q # held[a] => op'[q] = op[q]
  /\ op'[held[a]].org = op[held[a]].org /\ op'[held[a]].job = op[held[a]].job

LEMMA LeaveMoves ==
  ASSUME Control, NEW a \in Actors, pc[a] \in Working, LeaveVars(a),
         opmap' \in {opmap, MapWithout(held[a])}
  PROVE  Moves(a) /\ pc'[a] \in {"done", "pick"}
<1>1. held[a] \in 1..nop
  BY AtWork
<1>2. /\ opmap' \in [Orgs -> [Keys -> 0..nop]]
      /\ \A o \in Orgs, k \in Keys : opmap'[o][k] \in {opmap[o][k], 0}
  <2>1. CASE opmap' = opmap
    BY <2>1 DEF Control, ObjectTypes
  <2>2. CASE opmap' = MapWithout(held[a])
    BY <1>1, <2>2, MapWithoutRemoves
  <2>. QED  BY <2>1, <2>2
<1>. QED  BY <1>2, Leaving DEF Moves

LEMMA FailMoves ==
  ASSUME Control, NEW a \in Actors, pc[a] \in Working, NEW x, AdvanceFails(a, x)
  PROVE  Moves(a) /\ pc'[a] \in {"done", "pick"}
<1>1. LeaveVars(a) /\ opmap' \in {opmap, MapWithout(held[a])}
  BY DEF AdvanceFails
<1>. QED  BY <1>1, LeaveMoves

LEMMA GotoMoves ==
  ASSUME Control, NEW a \in Actors, pc[a] \in Working, NEW l \in Working, Goto(a, l),
         UNCHANGED <<opmap, gate, held>>
  PROVE  Moves(a) /\ pc'[a] = l
<1>1. gate[held[a]] = a /\ l \in Labels
  BY AtWork DEF Working, Labels
<1>. QED  BY <1>1 DEF Control, ObjectTypes, ActorTypes, Goto, Moves

LEMMA SucceedMoves ==
  ASSUME Control, NEW a \in Actors, pc[a] \in Working, AdvanceSucceeds(a), UNCHANGED opmap
  PROVE  /\ Moves(a) /\ pc'[a] \in {"op", "finalize"}
         /\ stage' \in [Actors -> {"submit", "finalize", "pass"}]
<1>1. /\ held[a] \in OpIds /\ gate[held[a]] = a /\ nop \in Nat
  BY AtWork, LifecycleAssumption DEF Control, ObjectTypes
<1>2. CASE a \in Callers
  <2>1. /\ pc \in [Actors -> Labels] /\ held \in [Actors -> 0..nop]
        /\ gate \in [OpIds -> Actors \cup {None}]
        /\ opmap \in [Orgs -> [Keys -> 0..nop]]
        /\ stage \in [Actors -> {"submit", "finalize", "pass"}]
    BY DEF Control, ObjectTypes, ActorTypes
  <2>2. /\ gate' = [gate EXCEPT ![held[a]] = None] /\ held' = [held EXCEPT ![a] = 0]
        /\ stage' = [stage EXCEPT ![a] = "finalize"] /\ pc' = [pc EXCEPT ![a] = "op"]
    BY <1>2 DEF AdvanceSucceeds, Goto
  <2>3. 0 \in 0..nop /\ "op" \in Labels
    BY <1>1 DEF Labels
  <2>4. gate' \in [OpIds -> Actors \cup {None}] /\ \A q \in OpIds : q # held[a] => gate'[q] = gate[q]
    BY <1>1, <2>1, <2>2
  <2>5. /\ pc' \in [Actors -> Labels] /\ held' \in [Actors -> 0..nop] /\ pc'[a] = "op"
        /\ stage' \in [Actors -> {"submit", "finalize", "pass"}]
        /\ \A b \in Actors : b # a => pc'[b] = pc[b] /\ held'[b] = held[b]
    BY <2>1, <2>2, <2>3
  <2>. QED  BY <1>2, <2>1, <2>4, <2>5 DEF Moves
<1>3. CASE a \notin Callers
  <2>1. Goto(a, "finalize") /\ UNCHANGED <<gate, held, stage>> /\ "finalize" \in Working
    BY <1>3 DEF AdvanceSucceeds, Working
  <2>. QED  BY <2>1, GotoMoves DEF Control, ActorTypes
<1>. QED  BY <1>2, <1>3

\* An object that is not written, or in one of the fields work may write.
LEMMA UntouchedObject ==
  ASSUME Control, NEW a \in Actors, pc[a] \in Working, op' = op, ntx' \in Nat, ntx <= ntx'
  PROVE  Edits(a)
<1>1. ntx \in Nat
  BY LifecycleAssumption DEF Control, TxTypes
<1>. QED  BY <1>1, AtWork DEF Control, ObjectTypes, Edits

LEMMA EditedObject ==
  ASSUME Control, NEW a \in Actors, pc[a] \in Working,
         NEW t \in 0..ntx', NEW s \in {"", "COMMITTED"},
         NEW r \in BOOLEAN, NEW S \in SUBSET Orgs, t \in TxIds \cup {0},
         op' = [op EXCEPT ![held[a]] =
                  [org |-> op[held[a]].org, job |-> op[held[a]].job,
                   tx |-> t, status |-> s, resolved |-> r, left |-> S]]
  PROVE  Edits(a) /\ op'[held[a]].tx = t
<1>1. /\ held[a] \in OpIds /\ op \in [OpIds -> Object \cup {None}]
      /\ op[held[a]].org \in Orgs /\ op[held[a]].job \in Job
  BY AtWork DEF Control, ObjectTypes, Object
<1>. QED  BY <1>1 DEF Edits, Object

LEMMA ObserveMoves ==
  ASSUME Control, NEW a \in Actors, pc[a] \in Working, NEW s \in Final, Observe(a, s),
         UNCHANGED ntx
  PROVE  /\ Moves(a) /\ pc'[a] \in {"op", "finalize", "done", "pick"}
         /\ Edits(a)
         /\ stage' \in [Actors -> {"submit", "finalize", "pass"}]
         /\ op'[held[a]].resolved = op[held[a]].resolved
         /\ op'[held[a]].left = op[held[a]].left
<1>1. /\ held[a] \in OpIds /\ op \in [OpIds -> Object \cup {None}]
      /\ op[held[a]] \in Object /\ op[held[a]].tx \in 0..ntx /\ ntx \in Nat
  <2>1. held[a] \in OpIds /\ op[held[a]] \in Object /\ op[held[a]].tx \in 0..ntx
    BY AtWork
  <2>2. op \in [OpIds -> Object \cup {None}]
    BY DEF Control, ObjectTypes
  <2>3. ntx \in Nat
    BY LifecycleAssumption DEF Control, TxTypes
  <2>. QED  BY <2>1, <2>2, <2>3
<1>2. CASE s = "COMMITTED"
  <2>1. op' = [op EXCEPT ![held[a]].status = s] /\ AdvanceSucceeds(a) /\ UNCHANGED opmap
    BY <1>2 DEF Observe
  <2>2. Edits(a) /\ op'[held[a]].resolved = op[held[a]].resolved
        /\ op'[held[a]].left = op[held[a]].left
    BY <1>1, <1>2, <2>1 DEF Edits, Object
  <2>. QED  BY <2>1, <2>2, SucceedMoves
<1>3. CASE s # "COMMITTED"
  <2>1. /\ op' \in {op, [op EXCEPT ![held[a]].tx = 0, ![held[a]].status = ""]}
        /\ LeaveVars(a) /\ UNCHANGED stage
        /\ opmap' \in {opmap, MapWithout(held[a])}
    BY <1>3 DEF Observe
  <2>2. Edits(a) /\ op'[held[a]].resolved = op[held[a]].resolved
        /\ op'[held[a]].left = op[held[a]].left
    <3>1. CASE op' = op
      BY <1>1, <3>1, UntouchedObject
    <3>2. CASE op' = [op EXCEPT ![held[a]].tx = 0, ![held[a]].status = ""]
      <4>1. op'[held[a]] = [op[held[a]] EXCEPT !.tx = 0, !.status = ""]
        BY <1>1, <3>2
      <4>2. \A q \in OpIds : q # held[a] => op'[q] = op[q]
        BY <1>1, <3>2
      <4>3. op'[held[a]] \in Object /\ op'[held[a]].tx = 0
            /\ op'[held[a]].org = op[held[a]].org /\ op'[held[a]].job = op[held[a]].job
            /\ op'[held[a]].resolved = op[held[a]].resolved
            /\ op'[held[a]].left = op[held[a]].left
        BY <1>1, <4>1 DEF Object
      <4>4. op' \in [OpIds -> Object \cup {None}]
        BY <1>1, <3>2, <4>2, <4>3
      <4>. QED  BY <1>1, <4>2, <4>3, <4>4 DEF Edits
    <3>. QED  BY <2>1, <3>1, <3>2
  <2>3. stage' \in [Actors -> {"submit", "finalize", "pass"}]
    BY <2>1 DEF Control, ActorTypes
  <2>. QED  BY <2>1, <2>2, <2>3, LeaveMoves
<1>. QED  BY <1>2, <1>3

\* The pieces put together: a step of actor a at work keeps Control.
LEMMA Worked ==
  ASSUME Control, NEW a \in Actors, pc[a] \in Working, Moves(a), Edits(a),
         UNCHANGED <<nop, job, batch>>, LedgerTypes', TxTypes', ntx <= ntx',
         stage' \in [Actors -> {"submit", "finalize", "pass"}],
         read' \in [Actors -> [row : Row, high : Watermark]],
         target' \in [Actors -> Orgs \cup {None}],
         \A b \in Actors : b # a => read'[b] = read[b] /\ target'[b] = target[b],
         pc'[a] \in {"send", "wait"} => op'[held[a]].tx # 0,
         pc'[a] \in {"applyRead", "applyWrite"} => target'[a] \in Orgs
  PROVE  Control' /\ WorkFrame(a)
<1>1. /\ held[a] \in 1..nop /\ held[a] \in OpIds /\ job[a] \in Job
      /\ op[held[a]].job = job[a] /\ op[held[a]].org = OrgOf(a)
  BY AtWork
<1>2. WorkFrame(a)
  BY DEF Moves, Edits, WorkFrame
<1>3. ActorSound(a)'
  BY <1>1 DEF Moves, Edits, ActorSound, Working
<1>4. ObjectTypes'
  <2>1. ntx \in Nat /\ ntx' \in Nat /\ nop \in 0..MaxOp
    BY LifecycleAssumption DEF Control, TxTypes, ObjectTypes
  <2>2. ASSUME NEW p \in 1..nop PROVE op'[p] \in Object /\ op'[p].tx \in 0..ntx'
    <3>1. p \in OpIds
      BY <2>1, LifecycleAssumption DEF OpIds
    <3>2. op[p] \in Object /\ op[p].tx \in 0..ntx
      BY DEF Control, ObjectTypes
    <3>3. CASE p = held[a]
      BY <3>3 DEF Edits
    <3>4. CASE p # held[a]
      BY <2>1, <3>1, <3>2, <3>4 DEF Edits
    <3>. QED  BY <3>3, <3>4
  <2>3. \A p \in OpIds \ (1..nop) : op'[p] = None
    BY <1>1 DEF Control, ObjectTypes, Edits
  <2>. QED  BY <2>1, <2>2, <2>3 DEF Moves, Edits, ObjectTypes
<1>5. ActorTypes'
  BY DEF Control, ActorTypes, Moves
<1>. QED  BY <1>2, <1>3, <1>4, <1>5, OthersKeepControl DEF Control

LEMMA StandingTypes ==
  ASSUME Control
  PROVE  /\ UNCHANGED <<row, high, index, mirror, sync>> => LedgerTypes'
         /\ UNCHANGED <<tx, ntx, handed>> => TxTypes' /\ ntx <= ntx'
         /\ UNCHANGED stage => stage' \in [Actors -> {"submit", "finalize", "pass"}]
         /\ UNCHANGED read => /\ read' \in [Actors -> [row : Row, high : Watermark]]
                              /\ \A b \in Actors : read'[b] = read[b]
         /\ UNCHANGED target => /\ target' \in [Actors -> Orgs \cup {None}]
                                /\ \A b \in Actors : target'[b] = target[b]
<1>1. UNCHANGED <<row, high, index, mirror, sync>> => LedgerTypes'
  BY DEF Control, LedgerTypes, Up
<1>2. UNCHANGED <<tx, ntx, handed>> => TxTypes' /\ ntx <= ntx'
  <2>1. ntx \in Nat
    BY LifecycleAssumption DEF Control, TxTypes
  <2>. QED  BY <2>1 DEF Control, TxTypes
<1>. QED  BY <1>1, <1>2 DEF Control, ActorTypes

LEMMA AdvanceKeepsControl ==
  ASSUME Control, NEW a \in Actors, Advance(a)
  PROVE  Control' /\ WorkFrame(a)
<1>1. pc[a] \in Working
  BY DEF Advance, Working
<1>2. /\ UNCHANGED <<row, high, index, mirror, sync>> /\ UNCHANGED <<tx, ntx, handed>>
      /\ UNCHANGED <<nop, job, batch>> /\ UNCHANGED read /\ UNCHANGED target
  BY DEF Advance, ledgerVars, txVars
<1>3. UNCHANGED op => Edits(a)
  <2>1. ntx \in Nat
    BY LifecycleAssumption DEF Control, TxTypes
  <2>. QED  BY <1>1, <1>2, <2>1, UntouchedObject
<1>4. /\ Moves(a) /\ Edits(a) /\ stage' \in [Actors -> {"submit", "finalize", "pass"}]
      /\ pc'[a] \notin {"send", "wait", "applyRead", "applyWrite"}
  <2>1. CASE AdvanceSucceeds(a) /\ UNCHANGED <<opmap, op>>
    BY <1>1, <1>3, <2>1, SucceedMoves
  <2>2. CASE tx[op[held[a]].tx].status \in Final /\ Observe(a, tx[op[held[a]].tx].status)
    BY <1>1, <1>2, <2>2, ObserveMoves
  <2>3. CASE AdvanceFails(a, op[held[a]].tx) /\ UNCHANGED <<op, stage>>
    BY <1>1, <1>3, <2>3, FailMoves, StandingTypes
  <2>4. CASE Goto(a, "readRow") /\ UNCHANGED <<opmap, op, gate, held, stage>>
    <3>1. "readRow" \in Working
      BY DEF Working
    <3>. QED  BY <1>1, <1>3, <2>4, <3>1, GotoMoves, StandingTypes
  <2>. QED  BY <2>1, <2>2, <2>3, <2>4 DEF Advance
<1>. QED  BY <1>1, <1>2, <1>4, StandingTypes, Worked

LEMMA ReadRowKeepsControl ==
  ASSUME Control, NEW a \in Actors, ReadRow(a)
  PROVE  Control' /\ WorkFrame(a)
<1>1. pc[a] \in Working
  BY DEF ReadRow, Working
<1>2. /\ UNCHANGED <<row, high, index, mirror, sync>> /\ UNCHANGED <<tx, ntx, handed>>
      /\ UNCHANGED <<nop, job, batch>> /\ UNCHANGED target
  BY DEF ReadRow, ledgerVars, txVars
<1>3. ntx \in Nat /\ job[a] \in Job /\ held[a] \in OpIds /\ op[held[a]] \in Object
      /\ op[held[a]].tx \in 0..ntx /\ op \in [OpIds -> Object \cup {None}]
  BY <1>1, AtWork, LifecycleAssumption DEF Control, TxTypes, ObjectTypes
<1>4. UNCHANGED op => Edits(a)
  BY <1>1, <1>2, <1>3, UntouchedObject
<1>5. row[job[a].def.name] \in Row
  BY <1>3 DEF Control, LedgerTypes, Job, Defs
<1>6. /\ Moves(a) /\ Edits(a) /\ stage' \in [Actors -> {"submit", "finalize", "pass"}]
      /\ pc'[a] \notin {"send", "wait", "applyRead", "applyWrite"}
      /\ read' \in [Actors -> [row : Row, high : Watermark]]
      /\ \A b \in Actors : b # a => read'[b] = read[b]
  <2>1. CASE LeaveVars(a) /\ opmap' = MapWithout(held[a]) /\ UNCHANGED <<op, read, stage>>
    BY <1>1, <1>4, <2>1, LeaveMoves, StandingTypes
  <2>2. CASE op' = [op EXCEPT ![held[a]].status = "COMMITTED"] /\ AdvanceSucceeds(a)
             /\ UNCHANGED <<opmap, read>>
    <3>1. Edits(a)
      BY <1>2, <1>3, <2>2 DEF Edits, Object
    <3>. QED  BY <1>1, <2>2, <3>1, SucceedMoves, StandingTypes
  <2>3. CASE read' = [read EXCEPT ![a].row = row[job[a].def.name]] /\ Goto(a, "readHigh")
             /\ UNCHANGED <<opmap, op, gate, held, stage>>
    <3>1. "readHigh" \in Working
      BY DEF Working
    <3>2. /\ read' \in [Actors -> [row : Row, high : Watermark]]
          /\ \A b \in Actors : b # a => read'[b] = read[b]
      BY <1>5, <2>3 DEF Control, ActorTypes
    <3>. QED  BY <1>1, <1>4, <2>3, <3>1, <3>2, GotoMoves, StandingTypes
  <2>4. CASE AdvanceFails(a, 0) /\ UNCHANGED <<op, read, stage>>
    BY <1>1, <1>4, <2>4, FailMoves, StandingTypes
  <2>. QED  BY <2>1, <2>2, <2>3, <2>4 DEF ReadRow
<1>. QED  BY <1>1, <1>2, <1>6, StandingTypes, Worked

LEMMA ReadHighKeepsControl ==
  ASSUME Control, NEW a \in Actors, ReadHigh(a)
  PROVE  Control' /\ WorkFrame(a)
<1>1. pc[a] \in Working
  BY DEF ReadHigh, Working
<1>2. /\ UNCHANGED <<row, high, index, mirror, sync>> /\ UNCHANGED <<tx, ntx, handed>>
      /\ UNCHANGED <<nop, job, batch>> /\ UNCHANGED target /\ UNCHANGED op
      /\ UNCHANGED stage
  BY DEF ReadHigh, ledgerVars, txVars
<1>3. Edits(a)
  <2>1. ntx \in Nat
    BY LifecycleAssumption DEF Control, TxTypes
  <2>. QED  BY <1>1, <1>2, <2>1, UntouchedObject
<1>4. /\ Moves(a) /\ pc'[a] \notin {"send", "wait", "applyRead", "applyWrite"}
      /\ read' \in [Actors -> [row : Row, high : Watermark]]
      /\ \A b \in Actors : b # a => read'[b] = read[b]
  <2>1. CASE read' = [read EXCEPT ![a].high = high] /\ Goto(a, "readIndex")
             /\ UNCHANGED <<opmap, gate, held>>
    <3>1. "readIndex" \in Working
      BY DEF Working
    <3>2. /\ read' \in [Actors -> [row : Row, high : Watermark]]
          /\ \A b \in Actors : b # a => read'[b] = read[b]
      BY <2>1 DEF Control, ActorTypes, LedgerTypes
    <3>. QED  BY <1>1, <2>1, <3>1, <3>2, GotoMoves
  <2>2. CASE AdvanceFails(a, 0) /\ UNCHANGED read
    BY <1>1, <2>2, FailMoves, StandingTypes
  <2>. QED  BY <2>1, <2>2 DEF ReadHigh
<1>. QED  BY <1>1, <1>2, <1>3, <1>4, StandingTypes, Worked

\* The transaction ReadIndex prepares.
Prepared(a) ==
  [org |-> OrgOf(a), def |-> job[a].def, event |-> job[a].event,
   init |-> job[a].event = "initialized" \/ ~InitRequired(job[a].def),
   rowVersion |-> read[a].row.version, highVersion |-> read[a].high.version,
   number |-> NextIndex(a), status |-> ""]

LEMMA ReadIndexKeepsControl ==
  ASSUME Control, NEW a \in Actors, ReadIndex(a)
  PROVE  Control' /\ WorkFrame(a)
<1>1. pc[a] \in Working
  BY DEF ReadIndex, Working
<1>2. /\ UNCHANGED <<row, high, index, mirror, sync>> /\ UNCHANGED handed
      /\ UNCHANGED <<nop, job, batch>> /\ UNCHANGED target /\ UNCHANGED read
      /\ UNCHANGED stage
  BY DEF ReadIndex, ledgerVars
<1>3. /\ ntx \in 0..MaxTx /\ MaxTx \in Nat /\ job[a] \in Job
      /\ held[a] \in OpIds /\ op[held[a]] \in Object
      /\ op[held[a]].tx \in 0..ntx /\ op \in [OpIds -> Object \cup {None}]
  BY <1>1, AtWork, LifecycleAssumption DEF Control, TxTypes, ObjectTypes
<1>4. CASE /\ ntx < MaxTx /\ NextIndex(a) \in DOMAIN index
           /\ ntx' = ntx + 1
           /\ tx' = [tx EXCEPT ![ntx + 1] = Prepared(a)]
           /\ op' = [op EXCEPT ![held[a]].tx = ntx + 1]
           /\ Goto(a, "send") /\ UNCHANGED <<opmap, gate, held>>
  <2>1. Prepared(a) \in Transaction
    <3>1. OrgOf(a) \in Orgs /\ job[a].def \in Defs /\ job[a].event \in Events
      BY <1>3, OrgOfActor DEF Job
    <3>2. read[a].row.version \in Nat /\ read[a].high.version \in Nat
      BY DEF Control, ActorTypes, Row, Watermark
    <3>3. NextIndex(a) \in TxIds
      BY <1>4 DEF Control, LedgerTypes, TxIds
    <3>. QED  BY <3>1, <3>2, <3>3 DEF Prepared, Transaction
  <2>2. ntx + 1 \in TxIds /\ ntx \in Nat
    BY <1>3, <1>4 DEF TxIds
  <2>3. TxTypes' /\ ntx <= ntx'
    <3>1. /\ tx \in [TxIds -> Transaction \cup {None}] /\ handed \subseteq 1..ntx
          /\ \A t \in 1..ntx : tx[t] \in Transaction
          /\ \A t \in TxIds \ (1..ntx) : tx[t] = None
      BY DEF Control, TxTypes
    <3>2. tx' \in [TxIds -> Transaction \cup {None}]
      BY <1>4, <2>1, <2>2, <3>1
    <3>3. \A t \in 1..(ntx + 1) : tx'[t] \in Transaction
      BY <1>3, <1>4, <2>1, <2>2, <3>1 DEF TxIds
    <3>4. ASSUME NEW t \in TxIds \ (1..(ntx + 1)) PROVE tx'[t] = None
      <4>1. t # ntx + 1 /\ t \notin 1..ntx
        BY <2>2
      <4>2. tx'[t] = tx[t]
        BY <1>4, <3>1, <4>1
      <4>. QED  BY <3>1, <4>1, <4>2
    <3>. QED  BY <1>2, <1>3, <1>4, <3>1, <3>2, <3>3, <3>4 DEF TxTypes
  <2>4. Edits(a) /\ op'[held[a]].tx # 0
    <3>1. op'[held[a]] = [op[held[a]] EXCEPT !.tx = ntx + 1]
          /\ \A q \in OpIds : q # held[a] => op'[q] = op[q]
      BY <1>3, <1>4
    <3>2. op'[held[a]] \in Object /\ op'[held[a]].tx = ntx + 1
          /\ op'[held[a]].org = op[held[a]].org /\ op'[held[a]].job = op[held[a]].job
      BY <1>3, <2>2, <3>1 DEF Object
    <3>3. op' \in [OpIds -> Object \cup {None}]
      BY <1>3, <1>4, <3>1, <3>2
    <3>. QED  BY <1>4, <2>2, <3>1, <3>2, <3>3 DEF Edits
  <2>5. Moves(a) /\ pc'[a] = "send"
    <3>1. "send" \in Working
      BY DEF Working
    <3>. QED  BY <1>1, <1>4, <3>1, GotoMoves
  <2>. QED  BY <1>1, <1>2, <2>3, <2>4, <2>5, StandingTypes, Worked
<1>5. CASE AdvanceFails(a, 0) /\ UNCHANGED <<tx, ntx, op>>
  <2>1. Edits(a)
    BY <1>1, <1>3, <1>5, UntouchedObject
  <2>. QED  BY <1>1, <1>2, <1>5, <2>1, FailMoves, StandingTypes, Worked
<1>. QED  BY <1>4, <1>5 DEF ReadIndex, Prepared

LEMMA SendKeepsControl ==
  ASSUME Control, NEW a \in Actors, Send(a)
  PROVE  Control' /\ WorkFrame(a)
<1>1. pc[a] \in Working
  BY DEF Send, Working
<1>2. /\ UNCHANGED <<row, high, index, mirror, sync>> /\ UNCHANGED ntx
      /\ UNCHANGED <<nop, job, batch>> /\ UNCHANGED target /\ UNCHANGED read
      /\ UNCHANGED stage
  BY DEF Send, ledgerVars
<1> DEFINE t == op[held[a]].tx
<1>3. /\ ntx \in Nat /\ ntx \in 0..MaxTx /\ MaxTx \in Nat /\ job[a] \in Job
      /\ held[a] \in OpIds /\ op[held[a]] \in Object
      /\ t \in 0..ntx /\ op \in [OpIds -> Object \cup {None}] /\ t # 0
  <2>1. t # 0
    BY DEF Send, Control, ActorsSound, ActorSound
  <2>. QED  BY <1>1, <2>1, AtWork, LifecycleAssumption DEF Control, TxTypes, ObjectTypes
<1>4. UNCHANGED op => Edits(a)
  BY <1>1, <1>2, <1>3, UntouchedObject
<1>5. t \in 1..ntx /\ t \in TxIds
  BY <1>3 DEF TxIds
<1>6. ASSUME handed' = handed \cup {t},
             tx' = [tx EXCEPT ![t].status = "ORDERED"] \/ UNCHANGED tx
      PROVE  TxTypes' /\ ntx <= ntx'
  <2>1. /\ tx \in [TxIds -> Transaction \cup {None}] /\ handed \subseteq 1..ntx
        /\ \A u \in 1..ntx : tx[u] \in Transaction
        /\ \A u \in TxIds \ (1..ntx) : tx[u] = None
    BY DEF Control, TxTypes
  <2>2. [tx[t] EXCEPT !.status = "ORDERED"] \in Transaction
    BY <1>5, <2>1 DEF Transaction
  <2>3. tx' \in [TxIds -> Transaction \cup {None}] /\ \A u \in 1..ntx : tx'[u] \in Transaction
    BY <1>3, <1>5, <1>6, <2>1, <2>2 DEF TxIds
  <2>4. \A u \in TxIds \ (1..ntx) : tx'[u] = None
    BY <1>5, <1>6, <2>1
  <2>. QED  BY <1>2, <1>3, <1>5, <1>6, <2>1, <2>3, <2>4 DEF TxTypes
<1>7. CASE op' = [op EXCEPT ![held[a]].tx = 0] /\ AdvanceFails(a, 0) /\ UNCHANGED <<tx, handed>>
  <2>1. op'[held[a]] = [op[held[a]] EXCEPT !.tx = 0]
        /\ \A q \in OpIds : q # held[a] => op'[q] = op[q]
    BY <1>3, <1>7
  <2>2. op'[held[a]] \in Object /\ op'[held[a]].tx = 0
        /\ op'[held[a]].org = op[held[a]].org /\ op'[held[a]].job = op[held[a]].job
    BY <1>3, <2>1 DEF Object
  <2>3. op' \in [OpIds -> Object \cup {None}]
    BY <1>3, <1>7, <2>1, <2>2
  <2>4. Edits(a)
    BY <1>2, <1>3, <2>1, <2>2, <2>3 DEF Edits
  <2>. QED  BY <1>1, <1>2, <1>7, <2>4, FailMoves, StandingTypes, Worked
<1>8. CASE handed' = handed \cup {t} /\ AdvanceFails(a, t) /\ UNCHANGED op
           /\ (tx' = [tx EXCEPT ![t].status = "ORDERED"] \/ UNCHANGED tx)
  BY <1>1, <1>2, <1>4, <1>6, <1>8, FailMoves, StandingTypes, Worked
<1>9. CASE handed' = handed \cup {t} /\ tx' = [tx EXCEPT ![t].status = "ORDERED"]
           /\ Goto(a, "wait") /\ UNCHANGED <<opmap, op, gate, held>>
  <2>1. Moves(a) /\ pc'[a] = "wait"
    <3>1. "wait" \in Working
      BY DEF Working
    <3>. QED  BY <1>1, <1>9, <3>1, GotoMoves
  <2>2. op'[held[a]].tx # 0
    BY <1>3, <1>9
  <2>. QED  BY <1>1, <1>2, <1>4, <1>6, <1>9, <2>1, <2>2, StandingTypes, Worked
<1>. QED  BY <1>7, <1>8, <1>9 DEF Send

LEMMA WaitFinalityKeepsControl ==
  ASSUME Control, NEW a \in Actors, WaitFinality(a)
  PROVE  Control' /\ WorkFrame(a)
<1>1. pc[a] \in Working
  BY DEF WaitFinality, Working
<1>2. /\ UNCHANGED <<row, high, index, mirror, sync>> /\ UNCHANGED <<tx, ntx, handed>>
      /\ UNCHANGED <<nop, job, batch>> /\ UNCHANGED read /\ UNCHANGED target
  BY DEF WaitFinality, ledgerVars, txVars
<1>3. UNCHANGED op => Edits(a)
  <2>1. ntx \in Nat
    BY LifecycleAssumption DEF Control, TxTypes
  <2>. QED  BY <1>1, <1>2, <2>1, UntouchedObject
<1>4. /\ Moves(a) /\ Edits(a) /\ stage' \in [Actors -> {"submit", "finalize", "pass"}]
      /\ pc'[a] \notin {"send", "wait", "applyRead", "applyWrite"}
  <2>1. CASE tx[op[held[a]].tx].status \in Final /\ Observe(a, tx[op[held[a]].tx].status)
    BY <1>1, <1>2, <2>1, ObserveMoves
  <2>2. CASE AdvanceFails(a, op[held[a]].tx) /\ UNCHANGED <<op, stage>>
    BY <1>1, <1>3, <2>2, FailMoves, StandingTypes
  <2>. QED  BY <2>1, <2>2 DEF WaitFinality
<1>. QED  BY <1>1, <1>2, <1>4, StandingTypes, Worked

LEMMA FinalizeKeepsControl ==
  ASSUME Control, NEW a \in Actors, Finalize(a)
  PROVE  Control' /\ WorkFrame(a)
<1>1. pc[a] \in Working
  BY DEF Finalize, Superseded, Working
<1>2. /\ UNCHANGED <<row, high, index, mirror, sync>> /\ UNCHANGED <<tx, ntx, handed>>
      /\ UNCHANGED <<nop, job, batch>> /\ UNCHANGED read /\ UNCHANGED stage
      /\ UNCHANGED op
  BY DEF Finalize, Superseded, ledgerVars, txVars
<1>3. Edits(a)
  <2>1. ntx \in Nat
    BY LifecycleAssumption DEF Control, TxTypes
  <2>. QED  BY <1>1, <1>2, <2>1, UntouchedObject
<1>4. /\ Moves(a) /\ pc'[a] \notin {"send", "wait"}
      /\ target' \in [Actors -> Orgs \cup {None}]
      /\ \A b \in Actors : b # a => target'[b] = target[b]
      /\ pc'[a] \in {"applyRead", "applyWrite"} => target'[a] \in Orgs
  <2>1. CASE LeaveVars(a) /\ opmap' \in {opmap, MapWithout(held[a])} /\ UNCHANGED target
    BY <1>1, <2>1, LeaveMoves, StandingTypes
  <2>2. CASE target' = [target EXCEPT ![a] = OrgOf(a)] /\ Goto(a, "applyRead")
             /\ UNCHANGED <<opmap, gate, held>>
    <3>1. "applyRead" \in Working
      BY DEF Working
    <3>. QED  BY <1>1, <2>2, <3>1, GotoMoves, OrgOfActor DEF Control, ActorTypes
  <2>. QED  BY <2>1, <2>2 DEF Finalize, Superseded
<1>. QED  BY <1>1, <1>2, <1>3, <1>4, StandingTypes, Worked

LEMMA ApplyReadKeepsControl ==
  ASSUME Control, NEW a \in Actors, ApplyRead(a)
  PROVE  Control' /\ WorkFrame(a)
<1>1. pc[a] \in Working /\ pc[a] = "applyRead"
  BY DEF ApplyRead, Working
<1>2. /\ UNCHANGED <<row, high, index, mirror, sync>> /\ UNCHANGED <<tx, ntx, handed>>
      /\ UNCHANGED <<nop, job, batch>> /\ UNCHANGED target /\ UNCHANGED stage
      /\ UNCHANGED op /\ UNCHANGED opmap
  BY DEF ApplyRead, ledgerVars, txVars
<1>3. Edits(a)
  <2>1. ntx \in Nat
    BY LifecycleAssumption DEF Control, TxTypes
  <2>. QED  BY <1>1, <1>2, <2>1, UntouchedObject
<1>4. row[job[a].def.name] \in Row /\ target[a] \in Orgs
  <2>1. job[a] \in Job
    BY <1>1, AtWork
  <2>. QED  BY <1>1, <2>1 DEF Control, LedgerTypes, Job, Defs, ActorsSound, ActorSound
<1>5. /\ Moves(a) /\ pc'[a] \notin {"send", "wait"}
      /\ read' \in [Actors -> [row : Row, high : Watermark]]
      /\ \A b \in Actors : b # a => read'[b] = read[b]
  <2>1. CASE LeaveVars(a) /\ UNCHANGED read
    BY <1>1, <1>2, <2>1, LeaveMoves, StandingTypes
  <2>2. CASE read' = [read EXCEPT ![a].row = row[job[a].def.name]] /\ Goto(a, "applyWrite")
             /\ UNCHANGED <<gate, held>>
    <3>1. "applyWrite" \in Working
      BY DEF Working
    <3>2. /\ read' \in [Actors -> [row : Row, high : Watermark]]
          /\ \A b \in Actors : b # a => read'[b] = read[b]
      BY <1>4, <2>2 DEF Control, ActorTypes
    <3>. QED  BY <1>1, <1>2, <2>2, <3>1, <3>2, GotoMoves
  <2>. QED  BY <2>1, <2>2 DEF ApplyRead
<1>. QED  BY <1>1, <1>2, <1>3, <1>4, <1>5, StandingTypes, Worked

\* upsertCommitted writes rows of the table.
LEMMA UpsertTyped ==
  ASSUME NEW m \in TableRow, NEW d, d.seq \in 0..MaxSeq, d.ver \in Versions \cup {None},
         NEW b \in BOOLEAN
  PROVE  Upsert(m, d, b) \in TableRow
<1> DEFINE f == [m EXCEPT !.init = m.init \/ b]
<1>1. m.seq \in 0..MaxSeq /\ m.ver \in Versions \cup {None} /\ m.init \in BOOLEAN
  BY DEF TableRow
<1>2. [seq |-> d.seq, ver |-> d.ver, init |-> b] \in TableRow
  BY DEF TableRow
<1>3. f \in TableRow
  BY <1>1 DEF TableRow
<1>. QED  BY <1>2, <1>3, Zenon DEF Upsert

LEMMA TableTyped ==
  ASSUME Control, NEW o \in Orgs, NEW n \in Names, NEW d,
         d.seq \in 0..MaxSeq, d.ver \in Versions \cup {None}, NEW b \in BOOLEAN,
         mirror' = [mirror EXCEPT ![o][n] = Upsert(@, d, b)]
  PROVE  mirror' \in [Orgs -> [Names -> TableRow]]
<1>1. mirror \in [Orgs -> [Names -> TableRow]]
  BY DEF Control, LedgerTypes
<1>2. Upsert(mirror[o][n], d, b) \in TableRow
  BY <1>1, UpsertTyped
<1>. QED  BY <1>1, <1>2

LEMMA ApplyWriteKeepsControl ==
  ASSUME Control, NEW a \in Actors, ApplyWrite(a)
  PROVE  Control' /\ WorkFrame(a)
<1>1. pc[a] \in Working /\ pc[a] = "applyWrite"
  BY DEF ApplyWrite, Working
<1>2. /\ UNCHANGED <<row, high, index, sync>> /\ UNCHANGED <<tx, ntx, handed>>
      /\ UNCHANGED <<nop, job, batch>> /\ UNCHANGED target /\ UNCHANGED stage
      /\ UNCHANGED read /\ UNCHANGED opmap
  BY DEF ApplyWrite, ledgerVars, txVars
<1>3. /\ ntx \in Nat /\ job[a] \in Job /\ target[a] \in Orgs /\ held[a] \in OpIds
      /\ op[held[a]] \in Object /\ op[held[a]].tx \in 0..ntx
      /\ op \in [OpIds -> Object \cup {None}]
  BY <1>1, AtWork, LifecycleAssumption
  DEF Control, TxTypes, ObjectTypes, ActorsSound, ActorSound
<1>4. LedgerTypes'
  <2>1. /\ job[a].def.name \in Names /\ job[a].def.seq \in 0..MaxSeq
        /\ job[a].def.ver \in Versions \cup {None}
    BY <1>3 DEF Job, Defs
  <2>2. read[a].row.init \in BOOLEAN
    BY DEF Control, ActorTypes, Row
  <2>3. mirror' \in [Orgs -> [Names -> TableRow]]
    BY <1>3, <2>1, <2>2, TableTyped DEF ApplyWrite
  <2>. QED  BY <1>2, <2>3 DEF Control, LedgerTypes, Up
<1>5. CASE op' = [op EXCEPT ![held[a]].left = @ \ {target[a]}] /\ Goto(a, "spread")
           /\ UNCHANGED <<gate, held>>
  <2>1. op'[held[a]] = [op[held[a]] EXCEPT !.left = @ \ {target[a]}]
        /\ \A q \in OpIds : q # held[a] => op'[q] = op[q]
    BY <1>3, <1>5
  <2>2. op'[held[a]] \in Object /\ op'[held[a]].tx = op[held[a]].tx
        /\ op'[held[a]].org = op[held[a]].org /\ op'[held[a]].job = op[held[a]].job
    BY <1>3, <2>1 DEF Object
  <2>3. op' \in [OpIds -> Object \cup {None}]
    BY <1>3, <1>5, <2>1, <2>2
  <2>4. Edits(a)
    BY <1>2, <1>3, <2>1, <2>2, <2>3 DEF Edits
  <2>5. Moves(a) /\ pc'[a] = "spread"
    <3>1. "spread" \in Working
      BY DEF Working
    <3>. QED  BY <1>1, <1>2, <1>5, <3>1, GotoMoves
  <2>. QED  BY <1>1, <1>2, <1>4, <2>4, <2>5, StandingTypes, Worked
<1>6. CASE LeaveVars(a) /\ UNCHANGED op
  <2>1. Edits(a)
    BY <1>1, <1>2, <1>3, <1>6, UntouchedObject
  <2>. QED  BY <1>1, <1>2, <1>4, <1>6, <2>1, LeaveMoves, StandingTypes, Worked
<1>. QED  BY <1>5, <1>6 DEF ApplyWrite

\* What is left is a set of organizations, listed without a change to the rest.
LEMMA ListedEdits ==
  ASSUME Control, NEW a \in Actors, pc[a] \in Working, UNCHANGED ntx,
         NEW left \in SUBSET Orgs, Listed(a, left)
  PROVE  Edits(a)
<1>1. /\ ntx \in Nat /\ job[a] \in Job /\ held[a] \in OpIds
      /\ op[held[a]] \in Object /\ op[held[a]].tx \in 0..ntx
      /\ op \in [OpIds -> Object \cup {None}]
  BY AtWork, LifecycleAssumption DEF Control, TxTypes, ObjectTypes
<1>2. op'[held[a]] = [op[held[a]] EXCEPT !.resolved = TRUE, !.left = left]
      /\ \A q \in OpIds : q # held[a] => op'[q] = op[q]
  BY <1>1 DEF Listed
<1>3. op'[held[a]] \in Object /\ op'[held[a]].tx = op[held[a]].tx
      /\ op'[held[a]].org = op[held[a]].org /\ op'[held[a]].job = op[held[a]].job
  BY <1>1, <1>2 DEF Object
<1>4. op' \in [OpIds -> Object \cup {None}]
  BY <1>1, <1>2, <1>3 DEF Listed
<1>. QED  BY <1>1, <1>2, <1>3, <1>4 DEF Edits

LEMMA OutstandingTyped ==
  ASSUME Control, NEW a \in Actors, pc[a] \in Working
  PROVE  Outstanding(held[a]) \subseteq SUBSET Orgs
<1>1. op[held[a]] \in Object
  BY AtWork
<1>2. op[held[a]].left \in SUBSET Orgs
  BY <1>1 DEF Object
<1>. QED  BY <1>2 DEF Outstanding, RemotePeers

LEMMA SpreadKeepsControl ==
  ASSUME Control, NEW a \in Actors, Spread(a)
  PROVE  Control' /\ WorkFrame(a)
<1>1. pc[a] \in Working
  BY DEF Spread, SpreadDone, SpreadOn, SpreadStops, Working
<1>2. /\ UNCHANGED <<row, high, index, mirror, sync>> /\ UNCHANGED <<tx, ntx, handed>>
      /\ UNCHANGED <<nop, job, batch>> /\ UNCHANGED stage /\ UNCHANGED read
  BY DEF Spread, ledgerVars, txVars
<1>3. ASSUME NEW left \in Outstanding(held[a]), Listed(a, left) PROVE Edits(a)
  BY <1>1, <1>2, <1>3, OutstandingTyped, ListedEdits
<1>4. CASE LeaveVars(a) /\ opmap' \in {opmap, MapWithout(held[a])} /\ UNCHANGED target
           /\ Edits(a)
  BY <1>1, <1>2, <1>4, LeaveMoves, StandingTypes, Worked
<1>5. CASE SpreadDone(a)
  BY <1>3, <1>4, <1>5 DEF SpreadDone
<1>6. CASE SpreadOn(a)
  <2>1. PICK left \in Outstanding(held[a]) :
          Listed(a, left) /\ \E o \in left : target' = [target EXCEPT ![a] = o]
    BY <1>6 DEF SpreadOn
  <2>2. left \subseteq Orgs /\ Edits(a)
    BY <1>1, <1>3, <2>1, OutstandingTyped
  <2>3. Moves(a) /\ pc'[a] = "applyRead"
    <3>1. "applyRead" \in Working /\ Goto(a, "applyRead") /\ UNCHANGED <<opmap, gate, held>>
      BY <1>6 DEF Working, SpreadOn
    <3>. QED  BY <1>1, <3>1, GotoMoves
  <2>4. target' \in [Actors -> Orgs \cup {None}] /\ target'[a] \in Orgs
        /\ \A b \in Actors : b # a => target'[b] = target[b]
    BY <2>1, <2>2 DEF Control, ActorTypes
  <2>. QED  BY <1>1, <1>2, <2>2, <2>3, <2>4, StandingTypes, Worked
<1>7. CASE SpreadStops(a)
  <2>1. Edits(a)
    <3>1. CASE UNCHANGED op
      BY <1>1, <1>2, <3>1, UntouchedObject, AtWork, LifecycleAssumption DEF Control, TxTypes
    <3>2. CASE \E left \in Outstanding(held[a]) : Listed(a, left)
      BY <1>3, <3>2
    <3>. QED  BY <1>7, <3>1, <3>2 DEF SpreadStops
  <2>. QED  BY <1>4, <1>7, <2>1 DEF SpreadStops
<1>. QED  BY <1>5, <1>6, <1>7 DEF Spread

\* Every step of an actor at work.
LEMMA WorkKeepsControl ==
  ASSUME Control, NEW a \in Actors, WorkStep(a)
  PROVE  Control' /\ WorkFrame(a) /\ pc[a] \in Working
<1>1. pc[a] \in Working
  BY DEF WorkStep, Advance, ReadRow, ReadHigh, ReadIndex, Send, WaitFinality, Finalize,
         ApplyRead, ApplyWrite, Spread, SpreadDone, SpreadOn, SpreadStops, Superseded, Working
<1>. QED  BY <1>1, AdvanceKeepsControl, ReadRowKeepsControl, ReadHighKeepsControl,
          ReadIndexKeepsControl, SendKeepsControl, WaitFinalityKeepsControl,
          FinalizeKeepsControl, ApplyReadKeepsControl, ApplyWriteKeepsControl,
          SpreadKeepsControl DEF WorkStep

\* An actor that a step outside the work leaves alone.
LEMMA StillSound ==
  ASSUME Control, NEW b \in Actors, \A q \in 1..nop : op'[q] = op[q],
         pc'[b] = pc[b], held'[b] = held[b], job'[b] = job[b], target'[b] = target[b],
         pc[b] \in Working => gate'[held[b]] = gate[held[b]]
  PROVE  ActorSound(b)'
<1>1. ActorSound(b) /\ held[b] \in 0..nop /\ nop \in Nat
  BY LifecycleAssumption DEF Control, ActorsSound, ActorTypes, ObjectTypes
<1>2. CASE pc[b] \in Working \cup {"gate"}
  <2>1. op'[held[b]] = op[held[b]]
    BY <1>1, <1>2 DEF ActorSound
  <2>. QED  BY <1>1, <1>2, <2>1 DEF ActorSound, Working
<1>3. CASE pc[b] \notin Working \cup {"gate"}
  BY <1>1, <1>3 DEF ActorSound, Working
<1>. QED  BY <1>2, <1>3

LEMMA StartKeepsControl ==
  ASSUME Control, NEW a \in Callers, NEW j \in Job, Start(a, j)
  PROVE  Control'
<1>0. a \in Actors
  BY DEF Actors
<1>1. /\ UNCHANGED <<row, high, index, mirror, sync>> /\ UNCHANGED <<tx, ntx, handed>>
      /\ UNCHANGED <<opmap, op, nop, gate>> /\ UNCHANGED <<held, read, target, batch>>
      /\ job' = [job EXCEPT ![a] = j] /\ stage' = [stage EXCEPT ![a] = "submit"]
      /\ pc' = [pc EXCEPT ![a] = "op"]
  BY DEF Start, Goto, ledgerVars, txVars, opVars
<1>2. ActorTypes' /\ pc'[a] = "op" /\ job'[a] = j
      /\ \A b \in Actors : b # a => pc'[b] = pc[b] /\ job'[b] = job[b]
  BY <1>0, <1>1 DEF Control, ActorTypes, Labels
<1>3. ActorsSound'
  <2>. SUFFICES ASSUME NEW b \in Actors PROVE ActorSound(b)'
    BY DEF ActorsSound
  <2>1. CASE b = a
    BY <1>2, <2>1 DEF ActorSound, Working
  <2>2. CASE b # a
    BY <1>1, <1>2, <2>2, StillSound
  <2>. QED  BY <2>1, <2>2
<1>4. LedgerTypes' /\ TxTypes' /\ ObjectTypes' /\ MapSound'
  BY <1>1 DEF Control, LedgerTypes, TxTypes, ObjectTypes, MapSound, Up
<1>. QED  BY <1>2, <1>3, <1>4 DEF Control

\* A new object, held by its creator or, for an expired caller, by nobody.
Creates(a, owner) ==
  LET o == Home[a]
      k == KeyOf(job[a])
  IN
  /\ nop < MaxOp
  /\ nop' = nop + 1
  /\ op' = [op EXCEPT ![nop + 1] =
              [org |-> o, job |-> job[a], tx |-> 0, status |-> "",
               resolved |-> FALSE, left |-> {}]]
  /\ opmap' = [opmap EXCEPT ![o][k] = nop + 1]
  /\ gate' = [gate EXCEPT ![nop + 1] = owner]

LEMMA CreateKeepsObjects ==
  ASSUME Control, NEW a \in Callers, pc[a] = "op", NEW w \in Actors \cup {None},
         Creates(a, w), UNCHANGED ntx
  PROVE  /\ ObjectTypes' /\ MapSound'
         /\ \A q \in 1..nop : op'[q] = op[q] /\ gate'[q] = gate[q]
         /\ op'[nop + 1].job = job[a] /\ op'[nop + 1].org = OrgOf(a)
         /\ gate'[nop + 1] = w
         /\ nop \in Nat /\ nop + 1 \in OpIds
         /\ ~op'[nop + 1].resolved
<1>0. a \in Actors
  BY DEF Actors
<1> DEFINE o == Home[a]
           k == KeyOf(job[a])
           x == [org |-> o, job |-> job[a], tx |-> 0, status |-> "",
                 resolved |-> FALSE, left |-> {}]
<1>1. job[a] \in Job
  BY <1>0 DEF Control, ActorsSound, ActorSound
<1>2. o \in Orgs /\ OrgOf(a) = o /\ k \in Keys
  <2>1. o \in Orgs /\ OrgOf(a) = o
    BY LifecycleAssumption DEF OrgOf
  <2>2. k \in Keys
    BY <1>1 DEF Job, Defs, KeyOf, Keys
  <2>. QED  BY <2>1, <2>2
<1>3. x \in Object
  BY <1>1, <1>2 DEF Object
<1>4. nop \in Nat /\ nop + 1 \in OpIds /\ ntx \in Nat /\ nop + 1 \in 0..MaxOp /\ MaxOp \in Nat
  <2>1. nop \in 0..MaxOp /\ MaxOp \in Nat /\ ntx \in 0..MaxTx /\ MaxTx \in Nat /\ nop < MaxOp
    BY LifecycleAssumption DEF Control, ObjectTypes, TxTypes, Creates
  <2>. QED  BY <2>1 DEF OpIds
<1>5. /\ op \in [OpIds -> Object \cup {None}] /\ gate \in [OpIds -> Actors \cup {None}]
      /\ opmap \in [Orgs -> [Keys -> 0..nop]]
  BY DEF Control, ObjectTypes
<1>6. /\ nop' = nop + 1 /\ op' = [op EXCEPT ![nop + 1] = x]
      /\ opmap' = [opmap EXCEPT ![o][k] = nop + 1] /\ gate' = [gate EXCEPT ![nop + 1] = w]
  BY DEF Creates
<1> HIDE DEF o, k, x
<1>7. op' \in [OpIds -> Object \cup {None}] /\ op'[nop + 1] = x
      /\ \A q \in OpIds : q # nop + 1 => op'[q] = op[q]
  BY <1>3, <1>4, <1>5, <1>6
<1>8. gate' \in [OpIds -> Actors \cup {None}] /\ gate'[nop + 1] = w
      /\ \A q \in OpIds : q # nop + 1 => gate'[q] = gate[q]
  BY <1>4, <1>5, <1>6
<1>9. \A q \in 1..nop : q \in OpIds /\ q # nop + 1
  BY <1>4 DEF OpIds
<1>10. opmap' \in [Orgs -> [Keys -> 0..nop']]
  <2>1. nop' \in Nat /\ 0..nop \subseteq 0..nop' /\ nop + 1 \in 0..nop'
    BY <1>4, <1>6
  <2>2. opmap \in [Orgs -> [Keys -> 0..nop']]
    BY <1>5, <2>1
  <2>. QED  BY <1>2, <1>6, <2>1, <2>2
<1>11. x.tx = 0 /\ x.org = o /\ x.job = job[a] /\ x.resolved = FALSE
  BY DEF x
<1>12. ObjectTypes'
  <2>1. ASSUME NEW p \in 1..nop' PROVE op'[p] \in Object /\ op'[p].tx \in 0..ntx'
    <3>1. CASE p = nop + 1
      BY <1>3, <1>4, <1>7, <1>11, <3>1
    <3>2. CASE p # nop + 1
      <4>1. p \in 1..nop
        BY <1>4, <1>6, <3>2
      <4>. QED  BY <1>7, <1>9, <4>1 DEF Control, ObjectTypes
    <3>. QED  BY <3>1, <3>2
  <2>2. ASSUME NEW p \in OpIds \ (1..nop') PROVE op'[p] = None
    <3>1. p # nop + 1 /\ p \notin 1..nop
      BY <1>4, <1>6 DEF OpIds
    <3>. QED  BY <1>7, <3>1 DEF Control, ObjectTypes
  <2>. QED  BY <1>4, <1>6, <1>7, <1>8, <1>10, <2>1, <2>2 DEF ObjectTypes
<1>13. MapSound'
  <2>. SUFFICES ASSUME NEW u \in Orgs, NEW l \in Keys, opmap'[u][l] # 0
                PROVE  op'[opmap'[u][l]].org = u /\ KeyOf(op'[opmap'[u][l]].job) = l
    BY DEF MapSound, KeyOf
  <2>1. CASE u = o /\ l = k
    <3>1. opmap'[u][l] = nop + 1
      BY <1>2, <1>5, <1>6, <2>1
    <3>. QED  BY <1>7, <1>11, <2>1, <3>1 DEF k
  <2>2. CASE ~(u = o /\ l = k)
    <3>1. opmap'[u][l] = opmap[u][l]
      BY <1>2, <1>5, <1>6, <2>2
    <3>2. opmap[u][l] \in 1..nop
      BY <1>4, <1>5, <3>1
    <3>3. op'[opmap[u][l]] = op[opmap[u][l]]
      BY <1>7, <1>9, <3>2
    <3>. QED  BY <3>1, <3>3 DEF Control, MapSound
  <2>. QED  BY <2>1, <2>2
<1>. QED  BY <1>2, <1>4, <1>7, <1>8, <1>9, <1>11, <1>12, <1>13

\* Actors and batches are typed also when there are more objects.
LEMMA MoreObjects ==
  ASSUME Control, nop' \in Nat, nop <= nop', NEW a \in Actors,
         pc' = [pc EXCEPT ![a] = pc'[a]], pc'[a] \in Labels,
         held' = [held EXCEPT ![a] = held'[a]], held'[a] \in 0..nop',
         UNCHANGED <<stage, job, read, target, batch>>
  PROVE  /\ ActorTypes'
         /\ \A b \in Actors : b # a =>
              /\ pc'[b] = pc[b] /\ held'[b] = held[b]
              /\ job'[b] = job[b] /\ target'[b] = target[b]
<1>1. nop \in Nat /\ 0..nop \subseteq 0..nop' /\ 1..nop \subseteq 1..nop'
  BY LifecycleAssumption DEF Control, ObjectTypes
<1>2. /\ pc \in [Actors -> Labels] /\ held \in [Actors -> 0..nop]
      /\ batch \in [Orgs -> SUBSET (1..nop)]
  BY DEF Control, ActorTypes
<1>3. held \in [Actors -> 0..nop'] /\ batch' \in [Orgs -> SUBSET (1..nop')]
  BY <1>1, <1>2
<1>4. pc' \in [Actors -> Labels] /\ \A b \in Actors : b # a => pc'[b] = pc[b]
  BY <1>2
<1>5. held' \in [Actors -> 0..nop'] /\ \A b \in Actors : b # a => held'[b] = held[b]
  BY <1>3
<1>. QED  BY <1>3, <1>4, <1>5 DEF Control, ActorTypes

LEMMA OperationKeepsControl ==
  ASSUME Control, NEW a \in Callers, Operation(a)
  PROVE  Control'
<1>0. a \in Actors
  BY DEF Actors
<1>1. /\ UNCHANGED <<row, high, index, mirror, sync>> /\ UNCHANGED <<tx, ntx, handed>>
      /\ UNCHANGED <<stage, job, read, target, batch>> /\ pc[a] = "op"
  BY DEF Operation, ledgerVars, txVars
<1>2. LedgerTypes' /\ TxTypes'
  BY <1>1, StandingTypes
<1>3. /\ job[a] \in Job /\ Home[a] \in Orgs /\ OrgOf(a) = Home[a] /\ KeyOf(job[a]) \in Keys
      /\ nop \in Nat /\ pc \in [Actors -> Labels] /\ held \in [Actors -> 0..nop]
  <2>1. job[a] \in Job
    BY <1>0, <1>1 DEF Control, ActorsSound, ActorSound
  <2>2. KeyOf(job[a]) \in Keys
    BY <2>1 DEF Job, Defs, KeyOf, Keys
  <2>. QED  BY <2>1, <2>2, LifecycleAssumption DEF OrgOf, Control, ActorTypes, ObjectTypes
<1> DEFINE p == opmap[Home[a]][KeyOf(job[a])]
<1>4. CASE /\ p # 0 /\ op[p].job.def = job[a].def
           /\ held' = [held EXCEPT ![a] = p] /\ Goto(a, "gate") /\ UNCHANGED opVars
  <2>1. p \in 1..nop
    BY <1>3, <1>4 DEF Control, ObjectTypes
  <2>2. op[p].job = job[a] /\ op[p].org = OrgOf(a)
    <3>1. op[p].org = Home[a] /\ KeyOf(op[p].job) = KeyOf(job[a])
      BY <1>3, <1>4 DEF Control, MapSound
    <3>2. op[p].job \in Job
      BY <2>1 DEF Control, ObjectTypes, Object
    <3>3. op[p].job.event = job[a].event
      BY <3>1 DEF KeyOf
    <3>. QED  BY <1>3, <1>4, <3>1, <3>2, <3>3 DEF Job
  <2> HIDE DEF p
  <2>3. UNCHANGED <<opmap, op, nop, gate>>
    BY <1>4 DEF opVars
  <2>4. /\ pc' = [pc EXCEPT ![a] = pc'[a]] /\ pc'[a] = "gate" /\ pc'[a] \in Labels
        /\ held' = [held EXCEPT ![a] = held'[a]] /\ held'[a] = p /\ held'[a] \in 0..nop'
    BY <1>0, <1>3, <1>4, <2>1, <2>3 DEF Goto, Labels
  <2>5. /\ ActorTypes'
        /\ \A b \in Actors : b # a =>
             /\ pc'[b] = pc[b] /\ held'[b] = held[b]
             /\ job'[b] = job[b] /\ target'[b] = target[b]
    BY <1>0, <1>1, <1>3, <2>3, <2>4, MoreObjects
  <2>6. ActorSound(a)'
    BY <1>1, <1>3, <1>4, <2>2, <2>3, <2>4 DEF ActorSound, Working
  <2>7. ActorsSound'
    BY <2>3, <2>5, <2>6, StillSound DEF ActorsSound
  <2>8. ObjectTypes' /\ MapSound'
    BY <1>1, <2>3 DEF Control, ObjectTypes, MapSound
  <2>. QED  BY <1>2, <2>5, <2>7, <2>8 DEF Control
<1>5. ASSUME NEW w \in Actors \cup {None}, Creates(a, w), Goto(a, pc'[a]), pc'[a] \in Labels,
             held' = [held EXCEPT ![a] = held'[a]], held'[a] \in 0..(nop + 1),
             \/ pc'[a] = "done"
             \/ pc'[a] \in {"advance", "finalize"} /\ held'[a] = nop + 1 /\ w = a
      PROVE  Control'
  <2>1. /\ ObjectTypes' /\ MapSound'
        /\ \A q \in 1..nop : op'[q] = op[q] /\ gate'[q] = gate[q]
        /\ op'[nop + 1].job = job[a] /\ op'[nop + 1].org = OrgOf(a)
        /\ gate'[nop + 1] = w /\ nop' = nop + 1
    BY <1>1, <1>5, CreateKeepsObjects DEF Creates
  <2>2. /\ ActorTypes'
        /\ \A b \in Actors : b # a =>
             /\ pc'[b] = pc[b] /\ held'[b] = held[b]
             /\ job'[b] = job[b] /\ target'[b] = target[b]
    BY <1>0, <1>1, <1>3, <1>5, <2>1, MoreObjects DEF Goto
  <2>3. ActorSound(a)'
    BY <1>1, <1>3, <1>5, <2>1 DEF ActorSound, Working
  <2>4. ASSUME NEW b \in Actors, b # a PROVE ActorSound(b)'
    <3>1. pc[b] \in Working => gate'[held[b]] = gate[held[b]]
      BY <2>1, AtWork
    <3>. QED  BY <2>1, <2>2, <2>4, <3>1, StillSound
  <2>. QED  BY <1>2, <2>1, <2>2, <2>3, <2>4 DEF Control, ActorsSound
<1>6. CASE /\ Creates(a, a) /\ held' = [held EXCEPT ![a] = nop + 1]
           /\ Goto(a, IF stage[a] = "submit" THEN "advance" ELSE "finalize")
  <2>1. /\ Goto(a, pc'[a]) /\ pc'[a] \in Labels /\ held' = [held EXCEPT ![a] = held'[a]]
        /\ held'[a] = nop + 1 /\ pc'[a] \in {"advance", "finalize"}
    BY <1>0, <1>3, <1>6 DEF Goto, Labels
  <2>2. held'[a] \in 0..(nop + 1)
    BY <1>3, <2>1
  <2>. QED  BY <1>0, <1>5, <1>6, <2>1, <2>2
<1>7. CASE Creates(a, None) /\ Goto(a, "done") /\ UNCHANGED held
  <2>1. /\ Goto(a, pc'[a]) /\ pc'[a] \in Labels /\ held' = [held EXCEPT ![a] = held'[a]]
        /\ held'[a] \in 0..(nop + 1) /\ pc'[a] = "done"
    BY <1>0, <1>3, <1>7 DEF Goto, Labels
  <2>. QED  BY <1>5, <1>7, <2>1
<1>8. CASE Goto(a, "done") /\ UNCHANGED <<opVars, held>>
  <2>1. UNCHANGED <<opmap, op, nop, gate>>
    BY <1>8 DEF opVars
  <2>2. /\ pc' = [pc EXCEPT ![a] = pc'[a]] /\ pc'[a] \in Labels /\ pc'[a] = "done"
        /\ held' = [held EXCEPT ![a] = held'[a]] /\ held'[a] \in 0..nop'
    BY <1>0, <1>3, <1>8, <2>1 DEF Goto, Labels
  <2>3. /\ ActorTypes'
        /\ \A b \in Actors : b # a =>
             /\ pc'[b] = pc[b] /\ held'[b] = held[b]
             /\ job'[b] = job[b] /\ target'[b] = target[b]
    BY <1>0, <1>1, <1>3, <2>1, <2>2, MoreObjects
  <2>4. ActorSound(a)'
    BY <2>2 DEF ActorSound, Working
  <2>5. ActorsSound'
    BY <2>1, <2>3, <2>4, StillSound DEF ActorsSound
  <2>6. ObjectTypes' /\ MapSound'
    BY <1>1, <2>1 DEF Control, ObjectTypes, MapSound
  <2>. QED  BY <1>2, <2>3, <2>5, <2>6 DEF Control
<1>. QED  BY <1>4, <1>6, <1>7, <1>8 DEF Operation, Creates

\* Taking a gate that is free disturbs nobody at work.
LEMMA FreeGate ==
  ASSUME Control, NEW p \in OpIds, GateFree(p), NEW a, gate' = [gate EXCEPT ![p] = a],
         NEW b \in Actors, pc[b] \in Working
  PROVE  gate'[held[b]] = gate[held[b]]
<1>1. held[b] \in OpIds /\ gate[held[b]] = b /\ b # None
  BY AtWork, LifecycleAssumption DEF Actors
<1>. QED  BY <1>1 DEF GateFree, Control, ObjectTypes

LEMMA TakeGateKeepsControl ==
  ASSUME Control, NEW a \in Callers, TakeGate(a)
  PROVE  Control'
<1>0. a \in Actors
  BY DEF Actors
<1>1. /\ UNCHANGED <<row, high, index, mirror, sync>> /\ UNCHANGED <<tx, ntx, handed>>
      /\ UNCHANGED <<stage, job, read, target, batch>> /\ pc[a] = "gate"
      /\ UNCHANGED <<opmap, op, nop>>
  BY DEF TakeGate, ledgerVars, txVars
<1>2. LedgerTypes' /\ TxTypes'
  BY <1>1, StandingTypes
<1>3. /\ job[a] \in Job /\ held[a] # 0 /\ op[held[a]].job = job[a]
      /\ op[held[a]].org = OrgOf(a) /\ nop \in Nat /\ held[a] \in 0..nop
      /\ pc \in [Actors -> Labels] /\ held \in [Actors -> 0..nop]
      /\ gate \in [OpIds -> Actors \cup {None}] /\ held[a] \in OpIds
  <2>1. nop \in 0..MaxOp /\ MaxOp \in Nat /\ held[a] \in 0..nop
    BY <1>0, LifecycleAssumption DEF Control, ActorTypes, ObjectTypes
  <2>2. held[a] # 0
    BY <1>0, <1>1 DEF Control, ActorsSound, ActorSound
  <2>3. held[a] \in OpIds /\ nop \in Nat
    BY <2>1, <2>2 DEF OpIds
  <2>. QED  BY <1>0, <1>1, <2>1, <2>2, <2>3
            DEF Control, ActorTypes, ObjectTypes, ActorsSound, ActorSound
<1>4. CASE /\ GateFree(held[a]) /\ gate' = [gate EXCEPT ![held[a]] = a]
           /\ Goto(a, IF stage[a] = "submit" THEN "advance" ELSE "finalize")
           /\ UNCHANGED held
  <2>1. /\ pc' = [pc EXCEPT ![a] = pc'[a]] /\ pc'[a] \in Labels
        /\ pc'[a] \in {"advance", "finalize"}
        /\ held' = [held EXCEPT ![a] = held'[a]] /\ held'[a] = held[a] /\ held'[a] \in 0..nop'
    BY <1>0, <1>1, <1>3, <1>4 DEF Goto, Labels
  <2>2. /\ ActorTypes'
        /\ \A b \in Actors : b # a =>
             /\ pc'[b] = pc[b] /\ held'[b] = held[b]
             /\ job'[b] = job[b] /\ target'[b] = target[b]
    BY <1>0, <1>1, <1>3, <2>1, MoreObjects
  <2>3. gate' \in [OpIds -> Actors \cup {None}] /\ gate'[held[a]] = a
    BY <1>0, <1>3, <1>4
  <2>4. ActorSound(a)'
    BY <1>1, <1>3, <2>1, <2>3 DEF ActorSound, Working
  <2>5. ASSUME NEW b \in Actors, b # a PROVE ActorSound(b)'
    <3>1. pc[b] \in Working => gate'[held[b]] = gate[held[b]]
      BY <1>3, <1>4, FreeGate
    <3>. QED  BY <1>1, <2>2, <2>5, <3>1, StillSound
  <2>6. ObjectTypes' /\ MapSound'
    BY <1>1, <2>3 DEF Control, ObjectTypes, MapSound
  <2>. QED  BY <1>2, <2>2, <2>4, <2>5, <2>6 DEF Control, ActorsSound
<1>5. CASE held' = [held EXCEPT ![a] = 0] /\ Goto(a, "done") /\ UNCHANGED gate
  <2>1. /\ pc' = [pc EXCEPT ![a] = pc'[a]] /\ pc'[a] \in Labels /\ pc'[a] = "done"
        /\ held' = [held EXCEPT ![a] = held'[a]] /\ held'[a] \in 0..nop'
    BY <1>0, <1>1, <1>3, <1>5 DEF Goto, Labels
  <2>2. /\ ActorTypes'
        /\ \A b \in Actors : b # a =>
             /\ pc'[b] = pc[b] /\ held'[b] = held[b]
             /\ job'[b] = job[b] /\ target'[b] = target[b]
    BY <1>0, <1>1, <1>3, <2>1, MoreObjects
  <2>3. ActorSound(a)'
    BY <2>1 DEF ActorSound, Working
  <2>4. ActorsSound'
    BY <1>1, <1>5, <2>2, <2>3, StillSound DEF ActorsSound
  <2>5. ObjectTypes' /\ MapSound'
    BY <1>1, <1>5 DEF Control, ObjectTypes, MapSound
  <2>. QED  BY <1>2, <2>2, <2>4, <2>5 DEF Control
<1>. QED  BY <1>4, <1>5 DEF TakeGate

LEMMA PassStartKeepsControl ==
  ASSUME Control, NEW o \in Passes, PassStart(o)
  PROVE  Control'
<1>0. o \in Actors /\ o \in Orgs
  BY LifecycleAssumption DEF Actors
<1>1. /\ UNCHANGED <<row, high, index, mirror, sync>> /\ UNCHANGED <<tx, ntx, handed>>
      /\ UNCHANGED <<opmap, op, nop, gate>> /\ UNCHANGED <<stage, job, held, read, target>>
      /\ pc' = [pc EXCEPT ![o] = "pick"]
      /\ \E B \in SUBSET PendingOf(o) : batch' = [batch EXCEPT ![o] = B]
  BY DEF PassStart, Batches, Goto, ledgerVars, txVars, opVars
<1>2. PendingOf(o) \subseteq 1..nop
  <2>1. nop \in Nat /\ opmap \in [Orgs -> [Keys -> 0..nop]]
    BY LifecycleAssumption DEF Control, ObjectTypes
  <2>. QED  BY <1>0, <2>1 DEF PendingOf
<1>3. /\ ActorTypes' /\ pc'[o] = "pick"
      /\ \A b \in Actors : b # o => pc'[b] = pc[b]
  BY <1>0, <1>1, <1>2 DEF Control, ActorTypes, Labels
<1>4. ActorSound(o)'
  BY <1>3 DEF ActorSound, Working
<1>5. ActorsSound'
  BY <1>1, <1>3, <1>4, StillSound DEF ActorsSound
<1>6. LedgerTypes' /\ TxTypes' /\ ObjectTypes' /\ MapSound'
  BY <1>1 DEF Control, LedgerTypes, TxTypes, ObjectTypes, MapSound, Up
<1>. QED  BY <1>3, <1>5, <1>6 DEF Control

LEMMA PassPickKeepsControl ==
  ASSUME Control, NEW o \in Passes, PassPick(o)
  PROVE  Control'
<1>0. o \in Actors /\ o \in Orgs /\ o \notin Callers /\ OrgOf(o) = o
  BY LifecycleAssumption DEF Actors, OrgOf
<1>1. /\ UNCHANGED <<row, high, index, mirror, sync>> /\ UNCHANGED <<tx, ntx, handed>>
      /\ UNCHANGED <<op, nop>> /\ UNCHANGED <<read, target>> /\ pc[o] = "pick"
  BY DEF PassPick, ledgerVars, txVars
<1>2. LedgerTypes' /\ TxTypes'
  BY <1>1, StandingTypes
<1>3. CASE Goto(o, "idle") /\ UNCHANGED <<batch, opmap, gate, held, stage, job>>
  <2>1. ActorTypes' /\ pc'[o] = "idle" /\ \A b \in Actors : b # o => pc'[b] = pc[b]
    BY <1>0, <1>1, <1>3 DEF Control, ActorTypes, Goto, Labels
  <2>2. ActorSound(o)'
    BY <2>1 DEF ActorSound, Working
  <2>3. ActorsSound'
    BY <1>1, <1>3, <2>1, <2>2, StillSound DEF ActorsSound
  <2>4. ObjectTypes' /\ MapSound'
    BY <1>1, <1>3 DEF Control, ObjectTypes, MapSound
  <2>. QED  BY <1>2, <2>1, <2>3, <2>4 DEF Control
<1>4. ASSUME NEW p \in batch[o], batch' = [batch EXCEPT ![o] = @ \ {p}]
      PROVE  /\ p \in 1..nop /\ p \in OpIds /\ nop \in Nat
             /\ batch' \in [Orgs -> SUBSET (1..nop)]
  <2>1. nop \in 0..MaxOp /\ MaxOp \in Nat /\ batch \in [Orgs -> SUBSET (1..nop)]
    BY LifecycleAssumption DEF Control, ObjectTypes, ActorTypes
  <2>2. p \in 1..nop
    BY <1>0, <2>1
  <2>3. p \in OpIds /\ nop \in Nat
    BY <2>1, <2>2 DEF OpIds
  <2>4. batch' \in [Orgs -> SUBSET (1..nop)]
    BY <1>0, <1>4, <2>1
  <2>. QED  BY <2>2, <2>3, <2>4
<1>5. ASSUME NEW p \in batch[o], batch' = [batch EXCEPT ![o] = @ \ {p}],
             GateFree(p), opmap[o][KeyOf(op[p].job)] = p,
             gate' = [gate EXCEPT ![p] = o], held' = [held EXCEPT ![o] = p],
             job' = [job EXCEPT ![o] = op[p].job], stage' = [stage EXCEPT ![o] = "pass"],
             Goto(o, "advance"), UNCHANGED opmap
      PROVE  Control'
  <2>1. /\ p \in 1..nop /\ p \in OpIds /\ nop \in Nat /\ p # 0
        /\ batch' \in [Orgs -> SUBSET (1..nop)]
    <3>1. p \in 1..nop /\ p \in OpIds /\ nop \in Nat /\ batch' \in [Orgs -> SUBSET (1..nop)]
      BY <1>4, <1>5
    <3>. QED  BY <3>1
  <2>2. op[p] \in Object /\ op[p].job \in Job /\ op[p].org = o
    <3>1. op[p] \in Object
      BY <2>1 DEF Control, ObjectTypes
    <3>2. op[p].job \in Job /\ KeyOf(op[p].job) \in Keys
      BY <3>1 DEF Object, Job, Defs, KeyOf, Keys
    <3>. QED  BY <1>0, <1>5, <2>1, <3>1, <3>2 DEF Control, MapSound
  <2>3. gate' \in [OpIds -> Actors \cup {None}] /\ gate'[p] = o
    BY <1>0, <1>5, <2>1 DEF Control, ObjectTypes
  <2>4. /\ pc' \in [Actors -> Labels] /\ pc'[o] = "advance"
        /\ held' \in [Actors -> 0..nop] /\ held'[o] = p
        /\ job' \in [Actors -> Job \cup {None}] /\ job'[o] = op[p].job
        /\ stage' \in [Actors -> {"submit", "finalize", "pass"}]
        /\ \A b \in Actors : b # o => pc'[b] = pc[b] /\ held'[b] = held[b] /\ job'[b] = job[b]
    BY <1>0, <1>5, <2>1, <2>2 DEF Control, ActorTypes, Goto, Labels
  <2>5. ActorTypes'
    BY <1>1, <2>1, <2>4 DEF Control, ActorTypes
  <2>6. ActorSound(o)'
    BY <1>0, <1>1, <2>1, <2>2, <2>3, <2>4 DEF ActorSound, Working
  <2>7. ASSUME NEW b \in Actors, b # o PROVE ActorSound(b)'
    <3>1. pc[b] \in Working => gate'[held[b]] = gate[held[b]]
      BY <1>5, <2>1, FreeGate
    <3>. QED  BY <1>1, <2>4, <2>7, <3>1, StillSound
  <2>8. ObjectTypes' /\ MapSound'
    BY <1>1, <1>5, <2>3 DEF Control, ObjectTypes, MapSound
  <2>. QED  BY <1>2, <2>5, <2>6, <2>7, <2>8 DEF Control, ActorsSound
<1>6. ASSUME NEW p \in batch[o], batch' = [batch EXCEPT ![o] = @ \ {p}],
             opmap' \in {opmap, MapWithout(p)},
             UNCHANGED <<pc, gate, held, stage, job>>
      PROVE  Control'
  <2>1. p \in 1..nop /\ nop \in Nat /\ batch' \in [Orgs -> SUBSET (1..nop)]
    BY <1>4, <1>6
  <2>2. ActorTypes'
    BY <1>1, <1>6, <2>1 DEF Control, ActorTypes
  <2>3. ActorsSound'
    BY <1>1, <1>6, StillSound DEF ActorsSound
  <2>4. /\ opmap' \in [Orgs -> [Keys -> 0..nop]]
        /\ \A u \in Orgs, k \in Keys : opmap'[u][k] \in {opmap[u][k], 0}
    BY <1>6, <2>1, MapWithoutRemoves DEF Control, ObjectTypes
  <2>5. ObjectTypes' /\ MapSound'
    BY <1>1, <1>6, <2>4 DEF Control, ObjectTypes, MapSound
  <2>. QED  BY <1>2, <2>2, <2>3, <2>5 DEF Control
<1>. QED  BY <1>3, <1>5, <1>6 DEF PassPick

LEMMA ValidateKeepsControl ==
  ASSUME Control, NEW t \in TxIds, Validate(t)
  PROVE  Control'
<1>1. /\ UNCHANGED <<ntx, handed, mirror, sync>> /\ UNCHANGED <<opmap, op, nop, gate>>
      /\ UNCHANGED <<pc, stage, job, held, read, target, batch>>
  BY DEF Validate, opVars, actorVars
<1> DEFINE x == tx[t]
<1>2. x \in Transaction
  BY DEF Control, TxTypes, Validate
<1>2a. t \in 1..ntx
  BY DEF Control, TxTypes, Validate
<1>3. /\ x.def \in Defs /\ x.def.name \in Names /\ x.def.seq \in 0..MaxSeq
      /\ x.def.ver \in Versions \cup {None} /\ x.event \in Events /\ x.init \in BOOLEAN
      /\ x.number \in 1..MaxTx /\ MaxTx \in Nat
  <2>1. x.def \in Defs /\ x.event \in Events /\ x.init \in BOOLEAN /\ x.number \in 1..MaxTx
    BY <1>2 DEF Transaction, TxIds
  <2>2. x.def.name \in Names /\ x.def.seq \in 1..MaxSeq /\ x.def.ver \in Versions
    BY <2>1 DEF Defs
  <2>. QED  BY <2>1, <2>2, LifecycleAssumption
<1>4. /\ tx' = [tx EXCEPT ![t].status = tx'[t].status]
      /\ tx'[t].status \in {"COMMITTED", "ABORTED"}
  <2>1. PICK s \in {"COMMITTED", "ABORTED"} : tx' = [tx EXCEPT ![t].status = s]
    BY DEF Validate
  <2>2. tx'[t] = [x EXCEPT !.status = s]
    BY <2>1 DEF Control, TxTypes
  <2>3. tx'[t].status = s
    BY <1>2, <2>2 DEF Transaction
  <2>. QED  BY <2>1, <2>3
<1>5. TxTypes'
  <2>1. [x EXCEPT !.status = tx'[t].status] \in Transaction
    BY <1>2, <1>4 DEF Transaction, Final
  <2>2. /\ tx \in [TxIds -> Transaction \cup {None}] /\ handed \subseteq 1..ntx
        /\ \A u \in 1..ntx : tx[u] \in Transaction
        /\ \A u \in TxIds \ (1..ntx) : tx[u] = None
        /\ ntx \in 0..MaxTx
    BY DEF Control, TxTypes
  <2>3. /\ tx' \in [TxIds -> Transaction \cup {None}]
        /\ \A u \in 1..ntx : tx'[u] \in Transaction
        /\ \A u \in TxIds \ (1..ntx) : tx'[u] = None
    BY <1>2a, <1>3, <1>4, <2>1, <2>2 DEF TxIds
  <2>. QED  BY <1>1, <2>2, <2>3 DEF TxTypes
<1>6. LedgerTypes'
  <2>1. CASE UNCHANGED ledgerVars
    BY <1>1, <2>1 DEF Control, LedgerTypes, ledgerVars, Up
  <2>2. CASE /\ row' = [row EXCEPT ![x.def.name] =
                          [seq |-> x.def.seq, ver |-> x.def.ver, init |-> x.init,
                           version |-> row[x.def.name].version + 1]]
             /\ index' = [index EXCEPT ![x.number] =
                            [def |-> x.def, event |-> x.event, init |-> x.init]]
             /\ high' = [value |-> x.number, version |-> high.version + 1]
    <3>1. row' \in [Names -> Row]
      <4>1. row[x.def.name].version \in Nat
        BY <1>3 DEF Control, LedgerTypes, Row
      <4>2. [seq |-> x.def.seq, ver |-> x.def.ver, init |-> x.init,
             version |-> row[x.def.name].version + 1] \in Row
        BY <1>3, <4>1 DEF Row
      <4>. QED  BY <1>3, <2>2, <4>2 DEF Control, LedgerTypes
    <3>2. index' \in [1..MaxTx -> Entry \cup {None}]
      <4>1. [def |-> x.def, event |-> x.event, init |-> x.init] \in Entry
        BY <1>3 DEF Entry
      <4>. QED  BY <1>3, <2>2, <4>1 DEF Control, LedgerTypes
    <3>3. high' \in Watermark /\ high'.value <= MaxTx
      BY <1>3, <2>2 DEF Control, LedgerTypes, Watermark
    <3>. QED  BY <1>1, <3>1, <3>2, <3>3 DEF Control, LedgerTypes, Up
  <2>. QED  BY <2>1, <2>2 DEF Validate
<1>7. ObjectTypes' /\ ActorTypes' /\ MapSound'
  BY <1>1 DEF Control, ObjectTypes, ActorTypes, MapSound
<1>8. ActorsSound'
  BY <1>1, StillSound DEF ActorsSound
<1>. QED  BY <1>5, <1>6, <1>7, <1>8 DEF Control

\* Who dies with organization o, and whose call to it fails.
Dead(o) == {a \in Actors : OrgOf(a) = o /\ pc[a] # "idle"}
Cut(o) == {a \in Actors \ Dead(o) : target[a] = o /\ pc[a] \in {"applyRead", "applyWrite"}}

LEMMA CrashMoves ==
  ASSUME Control, NEW o \in Orgs, Crash(o), NEW a \in Actors
  PROVE  /\ a \in Dead(o) /\ a \in Callers => pc'[a] = "done"
         /\ a \in Dead(o) /\ a \notin Callers => pc'[a] = "idle"
         /\ a \in Cut(o) => pc'[a] = After(a)
         /\ a \notin Dead(o) \cup Cut(o) => pc'[a] = pc[a] /\ held'[a] = held[a]
         /\ a \in Dead(o) \cup Cut(o) => held'[a] = 0
         /\ pc'[a] \in Labels
         /\ pc'[a] = "pick" => a \in Passes \/ pc[a] = "pick"
<1>1. /\ pc' = [b \in Actors |->
                  CASE b \in Dead(o) \cap Callers -> "done"
                    [] b \in Dead(o) \cap Passes -> "idle"
                    [] b \in Cut(o) -> After(b)
                    [] OTHER -> pc[b]]
      /\ held' = [b \in Actors |-> IF b \in Dead(o) \cup Cut(o) THEN 0 ELSE held[b]]
  BY DEF Crash, Dead, Cut
<1>2. pc'[a] = CASE a \in Dead(o) \cap Callers -> "done"
                 [] a \in Dead(o) \cap Passes -> "idle"
                 [] a \in Cut(o) -> After(a)
                 [] OTHER -> pc[a]
  BY <1>1
<1>3. a \in Callers \/ a \in Passes
  BY DEF Actors
<1>4. a \in Callers => a \notin Passes
  BY LifecycleAssumption
<1>5. a \in Cut(o) => a \notin Dead(o)
  BY DEF Cut
<1>6. CASE a \in Dead(o) /\ a \in Callers
  <2>1. pc'[a] = "done"
    BY <1>2, <1>4, <1>5, <1>6
  <2>. QED  BY <1>1, <1>5, <1>6, <2>1 DEF Labels
<1>7. CASE a \in Dead(o) /\ a \notin Callers
  <2>1. pc'[a] = "idle"
    BY <1>2, <1>3, <1>5, <1>7
  <2>. QED  BY <1>1, <1>5, <1>7, <2>1 DEF Labels
<1>8. CASE a \in Cut(o)
  <2>1. pc'[a] = After(a)
    BY <1>2, <1>5, <1>8
  <2>. QED  BY <1>1, <1>3, <1>5, <1>8, <2>1 DEF Labels, After
<1>9. CASE a \notin Dead(o) \cup Cut(o)
  <2>1. pc'[a] = pc[a]
    BY <1>2, <1>9
  <2>. QED  BY <1>1, <1>9, <2>1 DEF Control, ActorTypes
<1>. QED  BY <1>6, <1>7, <1>8, <1>9

LEMMA CrashKeepsControl ==
  ASSUME Control, NEW o \in Orgs, Crash(o)
  PROVE  Control'
<1>1. /\ UNCHANGED <<row, high, index>> /\ UNCHANGED <<tx, ntx, handed>>
      /\ UNCHANGED <<op, nop>> /\ UNCHANGED <<stage, job, read, target>>
      /\ gate' = [p \in OpIds |-> IF gate[p] \in Dead(o) \cup Cut(o) THEN None ELSE gate[p]]
      /\ pc' = [b \in Actors |-> pc'[b]] /\ held' = [b \in Actors |-> held'[b]]
      /\ opmap' = [opmap EXCEPT ![o] = [k \in Keys |-> 0]]
      /\ batch' = [batch EXCEPT ![o] = {}]
      /\ mirror' = [mirror EXCEPT ![o] = [n \in Names |-> Absent]]
      /\ sync' = [sync EXCEPT ![o] = [at |-> 1, to |-> high.value]]
  BY DEF Crash, Dead, Cut, ledgerVars, txVars
<1>2. nop \in Nat /\ 0 \in 0..nop
  BY LifecycleAssumption DEF Control, ObjectTypes
<1>3. LedgerTypes'
  <2>1. Absent \in TableRow
    BY LifecycleAssumption DEF Absent, TableRow
  <2>2. mirror' \in [Orgs -> [Names -> TableRow]]
    BY <1>1, <2>1 DEF Control, LedgerTypes
  <2>3. high.value \in 0..MaxTx
    BY LifecycleAssumption DEF Control, LedgerTypes, Watermark
  <2>4. sync' \in [Orgs -> [at : Nat, to : 0..MaxTx]]
        /\ \A u \in Orgs : ~Up(u)' => sync'[u].at # 0
    BY <1>1, <2>3 DEF Control, LedgerTypes, Up
  <2>. QED  BY <1>1, <2>2, <2>4 DEF Control, LedgerTypes
<1>4. TxTypes'
  BY <1>1, StandingTypes
<1>5. ActorTypes'
  <2>1. pc' \in [Actors -> Labels]
    BY <1>1, CrashMoves
  <2>2. held' \in [Actors -> 0..nop]
    <3>1. \A a \in Actors : held'[a] \in 0..nop
      BY <1>2, CrashMoves DEF Control, ActorTypes
    <3>. QED  BY <1>1, <3>1
  <2>3. batch' \in [Orgs -> SUBSET (1..nop)]
    BY <1>1 DEF Control, ActorTypes
  <2>. QED  BY <1>1, <2>1, <2>2, <2>3 DEF Control, ActorTypes
<1>6. ObjectTypes'
  <2>1. opmap' \in [Orgs -> [Keys -> 0..nop]]
    BY <1>1, <1>2 DEF Control, ObjectTypes
  <2>2. gate' \in [OpIds -> Actors \cup {None}]
    BY <1>1 DEF Control, ObjectTypes
  <2>. QED  BY <1>1, <2>1, <2>2 DEF Control, ObjectTypes
<1>7. ASSUME NEW b \in Actors PROVE ActorSound(b)'
  <2>1. CASE b \in Dead(o) \cup Cut(o)
    <3>1. pc'[b] \in {"done", "idle"} \/ (pc'[b] = "pick" /\ b \in Passes)
      BY <2>1, CrashMoves DEF After, Actors
    <3>. QED  BY <3>1 DEF ActorSound, Working
  <2>2. CASE b \notin Dead(o) \cup Cut(o)
    <3>1. pc'[b] = pc[b] /\ held'[b] = held[b] /\ job'[b] = job[b] /\ target'[b] = target[b]
      BY <1>1, <2>2, CrashMoves
    <3>2. pc[b] \in Working => gate'[held[b]] = gate[held[b]]
      <4>. SUFFICES ASSUME pc[b] \in Working PROVE gate'[held[b]] = gate[held[b]]
        OBVIOUS
      <4>1. gate[held[b]] = b /\ held[b] \in OpIds
        BY AtWork
      <4>. QED  BY <1>1, <2>2, <4>1
    <3>. QED  BY <1>1, <3>1, <3>2, StillSound
  <2>. QED  BY <2>1, <2>2
<1>8. MapSound'
  <2>. SUFFICES ASSUME NEW u \in Orgs, NEW k \in Keys, opmap'[u][k] # 0
                PROVE  op'[opmap'[u][k]].org = u /\ KeyOf(op'[opmap'[u][k]].job) = k
    BY DEF MapSound, KeyOf
  <2>1. opmap'[u][k] = opmap[u][k]
    BY <1>1 DEF Control, ObjectTypes
  <2>. QED  BY <1>1, <2>1 DEF Control, MapSound
<1>. QED  BY <1>3, <1>4, <1>5, <1>6, <1>7, <1>8 DEF Control, ActorsSound

LEMMA SyncStepKeepsControl ==
  ASSUME Control, NEW o \in Orgs, SyncStep(o)
  PROVE  Control'
<1>1. /\ UNCHANGED <<row, high, index>> /\ UNCHANGED <<tx, ntx, handed>>
      /\ UNCHANGED <<opmap, op, nop, gate>>
      /\ UNCHANGED <<pc, stage, job, held, read, target, batch>>
  BY DEF SyncStep, ledgerVars, txVars, opVars, actorVars
<1>2. /\ sync' \in [Orgs -> [at : Nat, to : 0..MaxTx]]
      /\ \A u \in Orgs : ~Up(u)' => sync'[u].at # 0
      /\ mirror' \in [Orgs -> [Names -> TableRow]]
  <2>1. CASE Replayed(o)
    <3>1. sync' = [sync EXCEPT ![o] = NotSyncing] /\ UNCHANGED mirror
      BY <2>1 DEF SyncStep
    <3>2. NotSyncing \in [at : Nat, to : 0..MaxTx]
      BY LifecycleAssumption DEF NotSyncing
    <3>. QED  BY <3>1, <3>2 DEF Control, LedgerTypes, Up
  <2>2. CASE ~Replayed(o)
    <3> DEFINE i == sync[o].at
               n == index[i].def.name
    <3>1. /\ index[i] # None /\ sync' = [sync EXCEPT ![o].at = i + 1]
          /\ mirror' = [mirror EXCEPT ![o][n] = Upsert(@, DefOf(n, row[n]), row[n].init)]
      BY <2>2 DEF SyncStep
    <3>2. i \in 1..MaxTx /\ sync \in [Orgs -> [at : Nat, to : 0..MaxTx]]
      <4>1. /\ sync[o] \in [at : Nat, to : 0..MaxTx] /\ sync[o].at # 0
            /\ ~(sync[o].at > sync[o].to) /\ MaxTx \in Nat
        BY <2>2, LifecycleAssumption DEF Control, LedgerTypes, SyncStep, Replayed
      <4>. QED  BY <4>1 DEF Control, LedgerTypes
    <3>3. sync' \in [Orgs -> [at : Nat, to : 0..MaxTx]]
          /\ \A u \in Orgs : ~Up(u)' => sync'[u].at # 0
      <4>1. sync' \in [Orgs -> [at : Nat, to : 0..MaxTx]]
        BY <3>1, <3>2
      <4>2. ASSUME NEW u \in Orgs, ~Up(u)' PROVE sync'[u].at # 0
        <5>1. CASE u = o
          BY <3>1, <3>2, <5>1
        <5>2. CASE u # o
          BY <3>1, <3>2, <4>2, <5>2 DEF Control, LedgerTypes, Up
        <5>. QED  BY <5>1, <5>2
      <4>. QED  BY <4>1, <4>2
    <3>4. n \in Names /\ row[n] \in Row
      <4>1. index[i] \in Entry
        BY <3>1, <3>2 DEF Control, LedgerTypes
      <4>. QED  BY <4>1 DEF Control, LedgerTypes, Entry, Defs
    <3>5. /\ DefOf(n, row[n]).seq \in 0..MaxSeq /\ DefOf(n, row[n]).ver \in Versions \cup {None}
          /\ row[n].init \in BOOLEAN
      BY <3>4 DEF DefOf, Row
    <3> HIDE DEF n, i
    <3>. QED  BY <3>1, <3>3, <3>4, <3>5, TableTyped
  <2>. QED  BY <2>1, <2>2
<1>3. LedgerTypes' /\ TxTypes' /\ ObjectTypes' /\ ActorTypes' /\ MapSound'
  BY <1>1, <1>2 DEF Control, LedgerTypes, TxTypes, ObjectTypes, ActorTypes, MapSound
<1>4. ActorsSound'
  BY <1>1, StillSound DEF ActorsSound
<1>. QED  BY <1>3, <1>4 DEF Control

LEMMA ControlInitially == Init => Control
<1>. SUFFICES ASSUME Init PROVE Control
  OBVIOUS
<1>1. /\ MaxTx \in Nat /\ MaxOp \in Nat /\ MaxSeq \in Nat
  BY LifecycleAssumption
<1>2. LedgerTypes
  <2>1. NoRow \in Row /\ Absent \in TableRow
    BY <1>1 DEF NoRow, Row, Absent, TableRow
  <2>2. NotSyncing \in [at : Nat, to : 0..MaxTx]
    BY <1>1 DEF NotSyncing
  <2>3. sync \in [Orgs -> [at : Nat, to : 0..MaxTx]] /\ \A o \in Orgs : Up(o)
    BY <2>2 DEF Init, Up
  <2>4. high \in Watermark /\ high.value <= MaxTx
    BY <1>1 DEF Init, Watermark
  <2>. QED  BY <2>1, <2>3, <2>4 DEF Init, LedgerTypes
<1>3. TxTypes
  BY <1>1 DEF Init, TxTypes
<1>4. ObjectTypes
  BY <1>1 DEF Init, ObjectTypes
<1>5. ActorTypes
  <2>1. NoRead \in [row : Row, high : Watermark]
    BY <1>1 DEF NoRead, NoRow, Row, Watermark
  <2>. QED  BY <1>1, <2>1 DEF Init, ActorTypes, Labels
<1>6. ActorsSound /\ MapSound
  BY DEF Init, ActorsSound, ActorSound, MapSound, Working
<1>. QED  BY <1>2, <1>3, <1>4, <1>5, <1>6 DEF Control

LEMMA ControlInductive == Control /\ [Next]_vars => Control'
<1>. SUFFICES ASSUME Control, [Next]_vars PROVE Control'
  OBVIOUS
<1>1. CASE UNCHANGED vars
  BY <1>1 DEF vars, ledgerVars, txVars, opVars, actorVars, Control, LedgerTypes, TxTypes,
              ObjectTypes, ActorTypes, ActorsSound, ActorSound, MapSound, Up
<1>2. CASE Next
  BY <1>2, StartKeepsControl, OperationKeepsControl, TakeGateKeepsControl,
     WorkKeepsControl, PassStartKeepsControl, PassPickKeepsControl,
     ValidateKeepsControl, CrashKeepsControl, SyncStepKeepsControl DEF Next, CallerStep
<1>. QED  BY <1>1, <1>2

-----------------------------------------------------------------------------
(* The ledger: a transaction that passes validation extends the log.       *)

\* What validation has established about the transaction it commits.
Valid(t) ==
  /\ tx[t] # None
  /\ tx[t].status = "ORDERED"
  /\ row[tx[t].def.name].version = tx[t].rowVersion
  /\ high.version = tx[t].highVersion
  /\ index[tx[t].number] = None

Commits(t) ==
  LET x == tx[t]
      n == x.def.name
  IN
  /\ row' = [row EXCEPT ![n] = [seq |-> x.def.seq, ver |-> x.def.ver,
                                init |-> x.init, version |-> row[n].version + 1]]
  /\ index' = [index EXCEPT ![x.number] =
                 [def |-> x.def, event |-> x.event, init |-> x.init]]
  /\ high' = [value |-> x.number, version |-> high.version + 1]

\* The entry that transaction t appends.
EntryOf(t) == [def |-> tx[t].def, event |-> tx[t].event, init |-> tx[t].init]

\* The reads may be old, but if validation passes they are not: the
\* transaction's number is the next one and its conditions hold now.
LEMMA ValidatedTransaction ==
  ASSUME Control, Ledger, NEW t \in TxIds, Valid(t), Commits(t)
  PROVE  LET x == tx[t]
             n == x.def.name
             h == high.value + 1
         IN /\ x \in Transaction /\ x.def \in Defs /\ n \in Names
            /\ x.def.seq \in 1..MaxSeq /\ x.event \in Events /\ x.init \in BOOLEAN
            /\ x.number = h /\ high.value \in Nat /\ h \in 1..MaxTx
            /\ MayPrepare([def |-> x.def, event |-> x.event], row[n])
            /\ x.init <=> (x.event = "initialized" \/ ~InitRequired(x.def))
            /\ EntryOf(t) \in Entry /\ EntryOf(t) # None
            /\ index'[h] = EntryOf(t)
            /\ index'[h].def = x.def /\ index'[h].init = x.init
            /\ \A i \in 1..MaxTx : i # h => index'[i] = index[i]
            /\ \A m \in Names : m # n => row'[m] = row[m]
            /\ row'[n].seq = x.def.seq /\ row'[n].ver = x.def.ver
            /\ row'[n].init = x.init /\ row'[n].version = row[n].version + 1
            /\ high'.value = h /\ high'.version = high.version + 1
<1> DEFINE x == tx[t]
           n == x.def.name
           h == high.value + 1
<1>1. x \in Transaction
  BY DEF Control, TxTypes, Valid
<1>2. x.def \in Defs /\ x.event \in Events /\ x.init \in BOOLEAN /\ x.number \in 1..MaxTx
      /\ x.highVersion \in Nat
  BY <1>1 DEF Transaction, TxIds
<1>3. n \in Names /\ x.def.seq \in 1..MaxSeq
  BY <1>2 DEF Defs
<1>4. high.value \in Nat /\ high.version = high.value
  BY DEF Control, LedgerTypes, Watermark, Ledger
<1>5. TxSound(t) /\ t \in 1..ntx
  BY DEF Ledger, Valid, Control, TxTypes
<1>6. x.number = h
  BY <1>4, <1>5 DEF TxSound, Valid
<1>7. MayPrepare([def |-> x.def, event |-> x.event], row[n])
      /\ (x.init <=> (x.event = "initialized" \/ ~InitRequired(x.def)))
  BY <1>5 DEF TxSound, PreparedFrom, Valid
<1>8. EntryOf(t) \in Entry
  BY <1>2 DEF EntryOf, Entry
<1>9. EntryOf(t) # None
  BY <1>8, LifecycleAssumption DEF Entry, Defs, Events
<1>10. index'[h] = EntryOf(t) /\ \A i \in 1..MaxTx : i # h => index'[i] = index[i]
  BY <1>2, <1>6 DEF Commits, EntryOf, Control, LedgerTypes
<1>11. /\ \A m \in Names : m # n => row'[m] = row[m]
       /\ row'[n] = [seq |-> x.def.seq, ver |-> x.def.ver, init |-> x.init,
                     version |-> row[n].version + 1]
  BY <1>3 DEF Commits, Control, LedgerTypes
<1>12. high'.value = h /\ high'.version = high.version + 1
  BY <1>6 DEF Commits
<1>13. index'[h].def = x.def /\ index'[h].init = x.init
  BY <1>10 DEF EntryOf
<1>14. /\ row'[n].seq = x.def.seq /\ row'[n].ver = x.def.ver
       /\ row'[n].init = x.init /\ row'[n].version = row[n].version + 1
  BY <1>11
<1>. QED  BY <1>1, <1>2, <1>3, <1>4, <1>6, <1>7, <1>8, <1>9, <1>10, <1>11, <1>12,
             <1>13, <1>14

\* Entries up to the watermark are entries.
LEMMA LogTyped ==
  ASSUME Control, Ledger
  PROVE  /\ high.value \in Nat
         /\ \A i \in 1..high.value :
              /\ i \in 1..MaxTx /\ index[i] \in Entry /\ index[i] # None
              /\ index[i].def \in Defs /\ index[i].def.name \in Names
              /\ index[i].def.seq \in 1..MaxSeq /\ index[i].def.ver \in Versions
              /\ index[i].init \in BOOLEAN
<1>1. high.value \in Nat /\ high.value <= MaxTx /\ MaxTx \in Nat
  BY LifecycleAssumption DEF Control, LedgerTypes, Watermark
<1>. SUFFICES ASSUME NEW i \in 1..high.value
              PROVE  /\ i \in 1..MaxTx /\ index[i] \in Entry /\ index[i] # None
                     /\ index[i].def \in Defs /\ index[i].def.name \in Names
                     /\ index[i].def.seq \in 1..MaxSeq /\ index[i].def.ver \in Versions
                     /\ index[i].init \in BOOLEAN
  BY <1>1
<1>2. i \in 1..MaxTx /\ i <= high.value
  BY <1>1
<1>3. index[i] # None
  BY <1>2 DEF Ledger, IndexMatchesRows
<1>4. index[i] \in Entry
  BY <1>2, <1>3 DEF Control, LedgerTypes
<1>5. index[i].def \in Defs /\ index[i].init \in BOOLEAN
  BY <1>4 DEF Entry
<1>6. index[i].def.name \in Names /\ index[i].def.seq \in 1..MaxSeq /\ index[i].def.ver \in Versions
  BY <1>5 DEF Defs
<1>. QED  BY <1>2, <1>3, <1>4, <1>5, <1>6

\* What happens to an old entry, to the new one, and to the rows.
LEMMA CommitExtends ==
  ASSUME Control, Ledger, NEW t \in TxIds, Valid(t), Commits(t)
  PROVE  /\ \A i \in 1..high.value : index'[i] = index[i]
         /\ \A i \in 1..high'.value : i \in 1..high.value \/ i = high.value + 1
         /\ 1..high.value \subseteq 1..high'.value /\ high.value + 1 \in 1..high'.value
         /\ \A i \in 1..high.value : index[i].def.name = tx[t].def.name =>
              LET d == index[i].def
                  r == row'[d.name]
              IN /\ d.seq <= r.seq
                 /\ d.seq = r.seq => d = tx[t].def /\ r.init
         /\ \A n \in Names : row[n].seq \in Nat /\ row[n].version \in Nat
<1> DEFINE x == tx[t]
           n == x.def.name
           h == high.value + 1
<1>1. /\ high.value \in Nat /\ h \in 1..MaxTx /\ high'.value = h /\ n \in Names
      /\ x.def \in Defs /\ x.def.seq \in 1..MaxSeq
      /\ \A i \in 1..MaxTx : i # h => index'[i] = index[i]
      /\ MayPrepare([def |-> x.def, event |-> x.event], row[n])
      /\ x.event \in Events
      /\ x.init <=> (x.event = "initialized" \/ ~InitRequired(x.def))
      /\ row'[n].seq = x.def.seq /\ row'[n].ver = x.def.ver /\ row'[n].init = x.init
  BY ValidatedTransaction
<1>2. \A i \in 1..high.value : index'[i] = index[i]
  BY <1>1, LogTyped
<1>3. /\ \A i \in 1..high'.value : i \in 1..high.value \/ i = h
      /\ 1..high.value \subseteq 1..high'.value /\ h \in 1..high'.value
  BY <1>1
<1>4. \A m \in Names : row[m].seq \in Nat /\ row[m].version \in Nat
  BY DEF Control, LedgerTypes, Row
<1>5. ASSUME NEW i \in 1..high.value, index[i].def.name = n
      PROVE  /\ index[i].def.seq <= row'[n].seq
             /\ index[i].def.seq = row'[n].seq => index[i].def = x.def /\ row'[n].init
  <2>1. /\ index[i].def \in Defs /\ index[i].def.seq \in Nat
        /\ index[i].def.seq <= row[n].seq
        /\ index[i].def.seq = row[n].seq => index[i].def.ver = row[n].ver
    BY <1>5, LogTyped DEF Ledger, LogOrdered
  <2>2. CASE x.event = "commit"
    <3>1. x.def.seq = row[n].seq + 1
      BY <1>1, <2>2 DEF MayPrepare
    <3>. QED  BY <1>1, <1>4, <2>1, <3>1
  <2>3. CASE x.event = "initialized"
    <3>1. DefOf(n, row[n]) = x.def
      BY <1>1, <2>3 DEF MayPrepare
    <3>2. x.def.seq = row[n].seq /\ x.def.ver = row[n].ver
      BY <3>1 DEF DefOf
    <3>3. row'[n].init
      BY <1>1, <2>3
    <3>4. index[i].def.seq = row[n].seq => index[i].def = x.def
      BY <1>1, <1>5, <2>1, <3>2 DEF Defs
    <3>. QED  BY <1>1, <2>1, <3>2, <3>3, <3>4
  <2>. QED  BY <1>1, <2>2, <2>3 DEF Events
<1>. QED  BY <1>2, <1>3, <1>4, <1>5

LEMMA CommitKeepsOrder ==
  ASSUME Control, Ledger, NEW t \in TxIds, Valid(t), Commits(t)
  PROVE  LogOrdered' /\ LogUnique'
<1> DEFINE x == tx[t]
           n == x.def.name
           h == high.value + 1
<1>1. /\ n \in Names /\ x.def.seq \in 1..MaxSeq /\ index'[h].def = x.def
      /\ index'[h].init = x.init
      /\ row'[n].seq = x.def.seq /\ row'[n].ver = x.def.ver /\ row'[n].init = x.init
      /\ \A m \in Names : m # n => row'[m] = row[m]
  BY ValidatedTransaction
<1>2. LogOrdered'
  <2>. SUFFICES ASSUME NEW i \in 1..high'.value
                PROVE  LET d == index'[i].def
                           r == row'[d.name]
                       IN /\ d.seq <= r.seq
                          /\ d.seq = r.seq => d.ver = r.ver /\ (index'[i].init => r.init)
    BY DEF LogOrdered
  <2>1. CASE i = h
    BY <1>1, <2>1
  <2>2. CASE i \in 1..high.value /\ index[i].def.name = n
    <3>1. /\ index'[i] = index[i] /\ index[i].def.seq <= row'[n].seq
          /\ index[i].def.seq = row'[n].seq => index[i].def = x.def /\ row'[n].init
      BY <2>2, CommitExtends
    <3>. QED  BY <1>1, <2>2, <3>1
  <2>3. CASE i \in 1..high.value /\ index[i].def.name # n
    <3>1. index'[i] = index[i] /\ row'[index[i].def.name] = row[index[i].def.name]
      BY <1>1, <2>3, CommitExtends, LogTyped
    <3>. QED  BY <2>3, <3>1 DEF Ledger, LogOrdered
  <2>. QED  BY <2>1, <2>2, <2>3, CommitExtends
<1>3. LogUnique'
  <2>1. ASSUME NEW i \in 1..high.value, index[i].def.name = n, index[i].def.seq = x.def.seq
        PROVE  index[i].def = x.def
    <3>1. index[i].def.seq = row'[n].seq => index[i].def = x.def
      BY <2>1, CommitExtends
    <3>. QED  BY <1>1, <2>1, <3>1
  <2>. SUFFICES ASSUME NEW i \in 1..high'.value, NEW j \in 1..high'.value,
                       index'[i].def.name = index'[j].def.name,
                       index'[i].def.seq = index'[j].def.seq
                PROVE  index'[i].def = index'[j].def
    BY DEF LogUnique
  <2>2. /\ (i \in 1..high.value /\ index'[i] = index[i]) \/ i = h
        /\ (j \in 1..high.value /\ index'[j] = index[j]) \/ j = h
    BY CommitExtends
  <2>3. CASE i = h /\ j = h
    BY <2>3
  <2>4. CASE i = h /\ j \in 1..high.value /\ index'[j] = index[j]
    BY <1>1, <2>1, <2>4
  <2>5. CASE j = h /\ i \in 1..high.value /\ index'[i] = index[i]
    BY <1>1, <2>1, <2>5
  <2>6. CASE i \in 1..high.value /\ j \in 1..high.value
             /\ index'[i] = index[i] /\ index'[j] = index[j]
    BY <2>6 DEF Ledger, LogUnique
  <2>. QED  BY <2>2, <2>3, <2>4, <2>5, <2>6
<1>. QED  BY <1>2, <1>3

\* An entry once logged stays logged.
LEMMA StaysLogged ==
  ASSUME Control, Ledger, NEW t \in TxIds, Valid(t), Commits(t), NEW d, NEW b, Logged(d, b)
  PROVE  Logged(d, b)'
<1>1. PICK i \in 1..high.value : index[i].def = d /\ index[i].init = b
  BY DEF Logged
<1>2. index'[i] = index[i] /\ i \in 1..high'.value
  BY CommitExtends
<1>. QED  BY <1>1, <1>2 DEF Logged

LEMMA CommitKeepsRows ==
  ASSUME Control, Ledger, NEW t \in TxIds, Valid(t), Commits(t)
  PROVE  RowsLogged' /\ (high.version = high.value)'
<1> DEFINE x == tx[t]
           n == x.def.name
           h == high.value + 1
<1>1. /\ n \in Names /\ x.def \in Defs /\ index'[h].def = x.def /\ index'[h].init = x.init
      /\ row'[n].seq = x.def.seq /\ row'[n].ver = x.def.ver /\ row'[n].init = x.init
      /\ row'[n].version = row[n].version + 1
      /\ \A m \in Names : m # n => row'[m] = row[m]
      /\ high'.value = h /\ high'.version = high.version + 1
  BY ValidatedTransaction
<1>2. high.version = high.value /\ high.version \in Nat
  BY DEF Ledger, Control, LedgerTypes, Watermark
<1>3. \A m \in Names : row[m].version <= high.version /\ row[m].version \in Nat
  BY CommitExtends DEF Ledger, RowsLogged
<1>4. \A m \in Names : row'[m].version <= high'.version
  BY <1>1, <1>2, <1>3
<1>5. ASSUME NEW m \in Names, row'[m].seq # 0
      PROVE  \E i \in 1..high'.value : index'[i].def = DefOf(m, row'[m])
                                       /\ index'[i].init = row'[m].init
  <2>1. CASE m = n
    <3>1. DefOf(m, row'[m]) = x.def
      BY <1>1, <2>1 DEF DefOf, Defs
    <3>. QED  BY <1>1, <2>1, <3>1, CommitExtends
  <2>2. CASE m # n
    <3>1. row'[m] = row[m] /\ Logged(DefOf(m, row[m]), row[m].init)
      BY <1>1, <1>5, <2>2 DEF Ledger, RowsLogged
    <3>2. PICK i \in 1..high.value : index[i].def = DefOf(m, row[m]) /\ index[i].init = row[m].init
      BY <3>1 DEF Logged
    <3>3. index'[i] = index[i] /\ i \in 1..high'.value
      BY CommitExtends
    <3>4. DefOf(m, row'[m]) = DefOf(m, row[m])
      BY <3>1 DEF DefOf
    <3>. QED  BY <3>1, <3>2, <3>3, <3>4
  <2>. QED  BY <2>1, <2>2
<1>6. RowsLogged'
  BY <1>4, <1>5 DEF RowsLogged, Logged, DefOf
<1>. QED  BY <1>1, <1>2, <1>6

\* What CHOOSE returns for the newest entry.
LEMMA NewestChosen ==
  ASSUME NEW S \in SUBSET Nat, NEW i \in S, \A j \in S : j <= i
  PROVE  (CHOOSE k \in S : \A j \in S : j <= k) = i
<1> DEFINE c == CHOOSE k \in S : \A j \in S : j <= k
<1>1. c \in S /\ \A j \in S : j <= c
  OBVIOUS
<1>2. c <= i /\ i <= c /\ c \in Nat /\ i \in Nat
  BY <1>1
<1> HIDE DEF c
<1>3. c = i
  BY <1>2
<1>. QED  BY <1>3 DEF c

LEMMA EntriesFinite ==
  ASSUME Control, NEW n
  PROVE  IsFiniteSet(Entries(n)) /\ Entries(n) \in SUBSET Nat
<1>1. high.value \in Nat
  BY DEF Control, LedgerTypes, Watermark
<1>2. IsFiniteSet(1..high.value)
  BY <1>1, FS_Interval
<1>3. Entries(n) \subseteq 1..high.value
  BY DEF Entries
<1>. QED  BY <1>1, <1>2, <1>3, FS_Subset

LEMMA CommitExtendsEntries ==
  ASSUME Control, Ledger, NEW t \in TxIds, Valid(t), Commits(t), NEW n, n = tx[t].def.name
  PROVE  /\ Entries(n)' = Entries(n) \cup {high.value + 1}
         /\ \A m \in Names : m # n => Entries(m)' = Entries(m)
<1> DEFINE x == tx[t]
           h == high.value + 1
<1>1. index'[h] = EntryOf(t) /\ EntryOf(t) # None /\ index'[h].def = x.def
  BY ValidatedTransaction
<1>2. \A i \in 1..high'.value : (i \in 1..high.value /\ index'[i] = index[i]) \/ i = h
  BY CommitExtends
<1>3. \A i \in 1..high.value : i \in 1..high'.value /\ index'[i] = index[i]
  BY CommitExtends
<1>4. h \in 1..high'.value
  BY CommitExtends
<1>5. Entries(n)' = Entries(n) \cup {h}
  BY <1>1, <1>2, <1>3, <1>4 DEF Entries
<1>6. ASSUME NEW m \in Names, m # n PROVE Entries(m)' = Entries(m)
  BY <1>1, <1>2, <1>3, <1>4, <1>6 DEF Entries
<1>. QED  BY <1>5, <1>6

LEMMA CommitKeepsIndex ==
  ASSUME Control, Control', Ledger, NEW t \in TxIds, Valid(t), Commits(t)
  PROVE  IndexMatchesRows' /\ NewestExists'
<1> DEFINE x == tx[t]
           h == high.value + 1
<1>0. PICK n \in Names : n = x.def.name
  BY ValidatedTransaction
<1>1. /\ n \in Names /\ x.def \in Defs /\ high.value \in Nat /\ h \in 1..MaxTx
      /\ index'[h].def = x.def /\ index'[h].init = x.init /\ index'[h] # None
      /\ \A i \in 1..MaxTx : i # h => index'[i] = index[i]
      /\ row'[n].seq = x.def.seq /\ row'[n].ver = x.def.ver /\ row'[n].init = x.init
      /\ row'[n].version = row[n].version + 1
      /\ \A m \in Names : m # n => row'[m] = row[m]
      /\ high'.value = h
  BY <1>0, ValidatedTransaction
<1>2. \A i \in 1..MaxTx : index'[i] # None <=> i <= high'.value
  <2>1. \A i \in 1..MaxTx : index[i] # None <=> i <= high.value
    BY DEF Ledger, IndexMatchesRows
  <2>. QED  BY <1>1, <2>1
<1>3. ASSUME NEW m \in Names
      PROVE  (IF Entries(m) = {} THEN row[m] = NoRow
              ELSE LET last == CHOOSE i \in Entries(m) : \A j \in Entries(m) : j <= i
                   IN /\ DefOf(m, row[m]) = index[last].def
                      /\ row[m].init = index[last].init
                      /\ row[m].version = Cardinality(Entries(m)))'
  <2>0. IF Entries(m) = {} THEN row[m] = NoRow
        ELSE LET last == CHOOSE i \in Entries(m) : \A j \in Entries(m) : j <= i
             IN /\ DefOf(m, row[m]) = index[last].def
                /\ row[m].init = index[last].init
                /\ row[m].version = Cardinality(Entries(m))
    BY DEF Ledger, IndexMatchesRows
  <2>1. CASE m = n
    <3>1. Entries(n)' = Entries(n) \cup {h} /\ Entries(n)' # {}
      BY <1>0, CommitExtendsEntries
    <3>2. Entries(n) \subseteq 1..high.value /\ h \notin Entries(n)
      BY <1>1 DEF Entries
    <3>3. (CHOOSE i \in Entries(n)' : \A j \in Entries(n)' : j <= i) = h
      <4>1. Entries(n)' \in SUBSET Nat /\ h \in Entries(n)' /\ \A j \in Entries(n)' : j <= h
        BY <1>1, <3>1, <3>2
      <4>. QED  BY <4>1, NewestChosen
    <3>4. DefOf(n, row'[n]) = x.def
      BY <1>0, <1>1 DEF DefOf, Defs
    <3>5. Cardinality(Entries(n)') = Cardinality(Entries(n)) + 1
      <4>1. IsFiniteSet(Entries(n))
        BY EntriesFinite
      <4>. QED  BY <3>1, <3>2, <4>1, FS_AddElement
    <3>6. row[n].version = Cardinality(Entries(n))
      <4>1. CASE Entries(n) = {}
        <5>1. row[n].version = 0
          BY <2>0, <2>1, <4>1 DEF NoRow
        <5>. QED  BY <4>1, <5>1, FS_EmptySet
      <4>2. CASE Entries(n) # {}
        BY <2>0, <2>1, <4>2
      <4>. QED  BY <4>1, <4>2
    <3>. QED  BY <1>1, <2>1, <3>1, <3>3, <3>4, <3>5, <3>6 DEF DefOf
  <2>2. CASE m # n
    <3>1. Entries(m)' = Entries(m) /\ row'[m] = row[m]
      BY <1>0, <1>1, <2>2, CommitExtendsEntries
    <3>2. CASE Entries(m) = {}
      BY <2>0, <3>1, <3>2
    <3>3. CASE Entries(m) # {}
      <4> DEFINE last == CHOOSE i \in Entries(m) : \A j \in Entries(m) : j <= i
      <4>1. last \in Entries(m)
        <5>1. \E i \in Entries(m) : \A j \in Entries(m) : j <= i
          BY <3>3 DEF Ledger, NewestExists
        <5>. QED  BY <5>1
      <4>2. index'[last] = index[last]
        BY <4>1, CommitExtends DEF Entries
      <4>. QED  BY <2>0, <3>1, <3>3, <4>2 DEF DefOf
    <3>. QED  BY <3>2, <3>3
  <2>. QED  BY <2>1, <2>2
<1>4. NewestExists'
  <2>. SUFFICES ASSUME NEW m \in Names, Entries(m)' # {}
                PROVE  \E i \in Entries(m)' : \A j \in Entries(m)' : j <= i
    BY DEF NewestExists
  <2>1. CASE m = n
    <3>1. Entries(n)' = Entries(n) \cup {h} /\ Entries(n) \subseteq 1..high.value
      BY <1>0, CommitExtendsEntries DEF Entries
    <3>. QED  BY <1>1, <2>1, <3>1
  <2>2. CASE m # n
    <3>1. Entries(m)' = Entries(m)
      BY <1>0, <2>2, CommitExtendsEntries
    <3>. QED  BY <3>1 DEF Ledger, NewestExists
  <2>. QED  BY <2>1, <2>2
<1>. QED  BY <1>2, <1>3, <1>4 DEF IndexMatchesRows

\* What was read stays usable, or validation will notice.
LEMMA CommitKeepsPrepared ==
  ASSUME Control, Ledger, NEW t \in TxIds, Valid(t), Commits(t),
         NEW j, j.def.name \in Names, NEW v \in Nat, PreparedFrom(j, v)
  PROVE  PreparedFrom(j, v)'
<1>1. /\ row'[tx[t].def.name].version = row[tx[t].def.name].version + 1
      /\ \A m \in Names : m # tx[t].def.name => row'[m] = row[m]
  BY ValidatedTransaction
<1>2. \A m \in Names : row[m].version \in Nat
  BY CommitExtends
<1>3. CASE j.def.name = tx[t].def.name
  BY <1>1, <1>2, <1>3 DEF PreparedFrom
<1>4. CASE j.def.name # tx[t].def.name
  BY <1>1, <1>4 DEF PreparedFrom, MayPrepare, DefOf
<1>. QED  BY <1>3, <1>4

LEMMA CommitKeepsLedger ==
  ASSUME Control, Control', Ledger, NEW t \in TxIds, Valid(t), Commits(t),
         tx' = [tx EXCEPT ![t].status = "COMMITTED"], UNCHANGED <<ntx, pc, job, read>>
  PROVE  Ledger'
<1>0. high.version \in Nat /\ high'.version = high.version + 1
  BY ValidatedTransaction DEF Control, LedgerTypes, Watermark
<1>1. ASSUME NEW u \in TxIds PROVE TxSound(u)'
  <2>. SUFFICES ASSUME NEW y, y = tx'[u], u \in 1..ntx
                PROVE  /\ PreparedFrom([def |-> y.def, event |-> y.event], y.rowVersion)'
                       /\ y.highVersion <= high'.version /\ y.number = y.highVersion + 1
                       /\ y.init <=> (y.event = "initialized" \/ ~InitRequired(y.def))
    BY DEF TxSound, PreparedFrom, MayPrepare, DefOf, InitRequired
  <2>1. /\ tx[u] \in Transaction /\ y.def = tx[u].def /\ y.event = tx[u].event
        /\ y.rowVersion = tx[u].rowVersion /\ y.highVersion = tx[u].highVersion
        /\ y.number = tx[u].number /\ y.init = tx[u].init
    <3>1. tx \in [TxIds -> Transaction \cup {None}] /\ tx[u] \in Transaction
      BY DEF Control, TxTypes
    <3>2. CASE u = t
      <4>1. tx[u] \in Transaction /\ y = [tx[u] EXCEPT !.status = "COMMITTED"]
        BY <3>1, <3>2
      <4>. QED  BY <3>1, <3>2, <4>1 DEF Transaction
    <3>3. CASE u # t
      BY <3>1, <3>3
    <3>. QED  BY <3>2, <3>3
  <2>2. TxSound(u)
    BY DEF Ledger
  <2>3. /\ tx[u].def.name \in Names /\ tx[u].rowVersion \in Nat /\ tx[u].highVersion \in Nat
    BY <2>1 DEF Transaction, Defs
  <2> DEFINE j == [def |-> y.def, event |-> y.event]
  <2>4. PreparedFrom(j, y.rowVersion) /\ y.highVersion <= high.version
        /\ y.number = y.highVersion + 1
        /\ (y.init <=> (y.event = "initialized" \/ ~InitRequired(y.def)))
    BY <2>1, <2>2 DEF TxSound
  <2>5. j.def.name \in Names
    BY <2>1, <2>3
  <2> HIDE DEF j
  <2>6. PreparedFrom(j, y.rowVersion)'
    BY <2>1, <2>3, <2>4, <2>5, CommitKeepsPrepared
  <2>. QED  BY <1>0, <2>1, <2>3, <2>4, <2>6 DEF j
<1>2. ASSUME NEW a \in Actors PROVE ReadSound(a)'
  <2>1. ReadSound(a)
    BY DEF Ledger
  <2>2. pc[a] \in {"readHigh", "readIndex", "applyWrite"} => job[a] \in Job
    BY AtWork DEF Working
  <2>3. read[a].row.version \in Nat /\ read[a].high.version \in Nat
    BY DEF Control, ActorTypes, Row, Watermark
  <2>4. pc[a] \in {"readHigh", "readIndex"} => PreparedFrom(job[a], read[a].row.version)'
    <3>. SUFFICES ASSUME pc[a] \in {"readHigh", "readIndex"}, NEW j, j = job[a],
                         NEW v, v = read[a].row.version
                  PROVE  PreparedFrom(j, v)'
      BY DEF PreparedFrom, MayPrepare, DefOf
    <3>1. PreparedFrom(j, v) /\ j.def.name \in Names /\ v \in Nat
      BY <2>1, <2>2, <2>3 DEF ReadSound, Job, Defs
    <3>. QED  BY <3>1, CommitKeepsPrepared
  <2>5. pc[a] = "applyWrite" => Logged(job[a].def, read[a].row.init)'
    <3>. SUFFICES ASSUME pc[a] = "applyWrite", NEW d, d = job[a].def, NEW b, b = read[a].row.init
                  PROVE  Logged(d, b)'
      BY DEF Logged
    <3>1. Logged(d, b)
      BY <2>1 DEF ReadSound
    <3>. QED  BY <3>1, StaysLogged
  <2>. QED  BY <1>0, <2>1, <2>3, <2>4, <2>5 DEF ReadSound, PreparedFrom, MayPrepare, DefOf, Logged
<1>. QED  BY <1>1, <1>2, CommitKeepsIndex, CommitKeepsOrder, CommitKeepsRows DEF Ledger

\* A step that leaves the three rows alone keeps what is said of them, and of
\* every actor that does not arrive at a place with fresh reads.
Bystander(b) ==
  pc'[b] \in {"readHigh", "readIndex", "applyWrite"} =>
    pc'[b] = pc[b] /\ job'[b] = job[b] /\ read'[b] = read[b]

LEMMA QuietRead ==
  ASSUME Ledger, UNCHANGED <<row, high, index>>, NEW b \in Actors, Bystander(b)
  PROVE  ReadSound(b)'
<1>1. ReadSound(b)
  BY DEF Ledger
<1>. QED  BY <1>1 DEF ReadSound, Bystander, PreparedFrom, MayPrepare, DefOf, Logged

LEMMA QuietLedger ==
  ASSUME Ledger, UNCHANGED <<row, high, index>>, \A t \in TxIds : TxSound(t)',
         \A b \in Actors : ReadSound(b)'
  PROVE  Ledger'
<1>1. IndexMatchesRows' /\ NewestExists'
  <2>1. \A n : Entries(n)' = Entries(n)
    BY DEF Entries
  <2>2. IndexMatchesRows'
    <3>1. \A i \in 1..MaxTx : index'[i] # None <=> i <= high'.value
      BY DEF Ledger, IndexMatchesRows
    <3>2. ASSUME NEW n \in Names
          PROVE  (IF Entries(n) = {} THEN row[n] = NoRow
                  ELSE LET last == CHOOSE i \in Entries(n) : \A j \in Entries(n) : j <= i
                       IN /\ DefOf(n, row[n]) = index[last].def
                          /\ row[n].init = index[last].init
                          /\ row[n].version = Cardinality(Entries(n)))'
      <4>1. IF Entries(n) = {} THEN row[n] = NoRow
            ELSE LET last == CHOOSE i \in Entries(n) : \A j \in Entries(n) : j <= i
                 IN /\ DefOf(n, row[n]) = index[last].def
                    /\ row[n].init = index[last].init
                    /\ row[n].version = Cardinality(Entries(n))
        BY DEF Ledger, IndexMatchesRows
      <4>. QED  BY <2>1, <4>1 DEF DefOf
    <3>. QED  BY <3>1, <3>2 DEF IndexMatchesRows
  <2>. QED  BY <2>1, <2>2 DEF Ledger, NewestExists
<1>2. LogOrdered' /\ LogUnique' /\ RowsLogged'
  BY DEF Ledger, LogOrdered, LogUnique, RowsLogged, Logged, DefOf
<1>. QED  BY <1>1, <1>2 DEF Ledger

LEMMA QuietTx ==
  ASSUME Ledger, UNCHANGED <<row, high, index>>, NEW t \in TxIds, tx'[t] = tx[t],
         t \in 1..ntx' => t \in 1..ntx
  PROVE  TxSound(t)'
BY DEF Ledger, TxSound, PreparedFrom, MayPrepare, DefOf, InitRequired

\* Where the steps that read nothing lead.
LEMMA GoesTo ==
  ASSUME Control, NEW a \in Actors
  PROVE  /\ LeaveVars(a) => pc'[a] \in {"done", "pick"}
         /\ \A x : AdvanceFails(a, x) => pc'[a] \in {"done", "pick"}
         /\ AdvanceSucceeds(a) => pc'[a] \in {"op", "finalize"}
         /\ \A x : Observe(a, x) => pc'[a] \in {"done", "pick", "op", "finalize"}
         /\ \A l : Goto(a, l) => pc'[a] = l
<1>1. \A l : Goto(a, l) => pc'[a] = l
  BY DEF Goto, Control, ActorTypes
<1>2. LeaveVars(a) => pc'[a] \in {"done", "pick"}
  BY <1>1 DEF LeaveVars, After
<1>3. \A x : AdvanceFails(a, x) => pc'[a] \in {"done", "pick"}
  BY <1>2 DEF AdvanceFails
<1>4. AdvanceSucceeds(a) => pc'[a] \in {"op", "finalize"}
  BY <1>1 DEF AdvanceSucceeds
<1>5. \A x : Observe(a, x) => pc'[a] \in {"done", "pick", "op", "finalize"}
  BY <1>2, <1>4 DEF Observe
<1>. QED  BY <1>1, <1>2, <1>3, <1>4, <1>5

\* A step of actor a at work, from its own part.
LEMMA WorkQuiet ==
  ASSUME Control, Ledger, NEW a \in Actors, WorkFrame(a), UNCHANGED <<row, high, index>>,
         \A t \in TxIds : TxSound(t)', ReadSound(a)'
  PROVE  Ledger'
<1>1. \A b \in Actors : b # a => Bystander(b)
  BY DEF WorkFrame, Bystander
<1>2. \A b \in Actors : ReadSound(b)'
  BY <1>1, QuietRead
<1>. QED  BY <1>2, QuietLedger

LEMMA ReadRowKeepsLedger ==
  ASSUME Control, Ledger, NEW a \in Actors, WorkFrame(a), ReadRow(a)
  PROVE  Ledger'
<1>1. UNCHANGED <<row, high, index>> /\ UNCHANGED <<tx, ntx>> /\ UNCHANGED job /\ pc[a] \in Working
  BY DEF ReadRow, ledgerVars, txVars, Working
<1>2. \A t \in TxIds : TxSound(t)'
  BY <1>1, QuietTx
<1>3. job[a] \in Job
  BY <1>1, AtWork
<1>4. row[job[a].def.name].version \in Nat
  BY <1>3 DEF Control, LedgerTypes, Row, Job, Defs
<1>5. CASE /\ MayPrepare(job[a], row[job[a].def.name])
           /\ read' = [read EXCEPT ![a].row = row[job[a].def.name]] /\ Goto(a, "readHigh")
  <2>1. pc'[a] = "readHigh"
    BY <1>5, GoesTo
  <2>2. read'[a].row = row[job[a].def.name]
    BY <1>5 DEF Control, ActorTypes
  <2>3. ReadSound(a)'
    BY <1>1, <1>4, <1>5, <2>1, <2>2 DEF ReadSound, PreparedFrom, MayPrepare, DefOf
  <2>. QED  BY <1>1, <1>2, <2>3, WorkQuiet
<1>6. CASE LeaveVars(a) \/ AdvanceSucceeds(a) \/ AdvanceFails(a, 0)
  <2>1. pc'[a] \in {"done", "pick", "op", "finalize"}
    BY <1>6, GoesTo
  <2>2. ReadSound(a)'
    BY <2>1 DEF ReadSound
  <2>. QED  BY <1>1, <1>2, <2>2, WorkQuiet
<1>. QED  BY <1>5, <1>6 DEF ReadRow

LEMMA ReadHighKeepsLedger ==
  ASSUME Control, Ledger, NEW a \in Actors, WorkFrame(a), ReadHigh(a)
  PROVE  Ledger'
<1>1. UNCHANGED <<row, high, index>> /\ UNCHANGED <<tx, ntx>> /\ UNCHANGED job /\ pc[a] = "readHigh"
  BY DEF ReadHigh, ledgerVars, txVars
<1>2. \A t \in TxIds : TxSound(t)'
  BY <1>1, QuietTx
<1>3. CASE read' = [read EXCEPT ![a].high = high] /\ Goto(a, "readIndex")
  <2>1. pc'[a] = "readIndex"
    BY <1>3, GoesTo
  <2>2. read'[a].high = high /\ read'[a].row = read[a].row
    BY <1>3 DEF Control, ActorTypes
  <2>3. high.value = high.version /\ high.version \in Nat
    BY DEF Ledger, Control, LedgerTypes, Watermark
  <2>4. PreparedFrom(job[a], read[a].row.version)
    BY <1>1 DEF Ledger, ReadSound
  <2>5. ReadSound(a)'
    BY <1>1, <2>1, <2>2, <2>3, <2>4 DEF ReadSound, PreparedFrom, MayPrepare, DefOf
  <2>. QED  BY <1>1, <1>2, <2>5, WorkQuiet
<1>4. CASE AdvanceFails(a, 0)
  <2>1. pc'[a] \in {"done", "pick"}
    BY <1>4, GoesTo
  <2>2. ReadSound(a)'
    BY <2>1 DEF ReadSound
  <2>. QED  BY <1>1, <1>2, <2>2, WorkQuiet
<1>. QED  BY <1>3, <1>4 DEF ReadHigh

LEMMA ReadIndexKeepsLedger ==
  ASSUME Control, Ledger, NEW a \in Actors, WorkFrame(a), ReadIndex(a)
  PROVE  Ledger'
<1>1. UNCHANGED <<row, high, index>> /\ UNCHANGED job /\ pc[a] = "readIndex"
  BY DEF ReadIndex, ledgerVars
<1>2. pc'[a] \in {"done", "pick", "send"}
  BY GoesTo DEF ReadIndex
<1>3. ReadSound(a)'
  BY <1>2 DEF ReadSound
<1>4. CASE UNCHANGED <<tx, ntx>>
  <2>1. \A t \in TxIds : TxSound(t)'
    BY <1>1, <1>4, QuietTx
  <2>. QED  BY <1>1, <1>3, <2>1, WorkQuiet
<1>5. CASE tx' = [tx EXCEPT ![ntx + 1] = Prepared(a)] /\ ntx' = ntx + 1
  <2>1. ReadSound(a)
    BY DEF Ledger
  <2>2. job[a] \in Job
    BY <1>1, AtWork DEF Working
  <2>3. job[a] = [def |-> job[a].def, event |-> job[a].event]
    BY <2>2 DEF Job
  <2>4. PreparedFrom([def |-> Prepared(a).def, event |-> Prepared(a).event], Prepared(a).rowVersion)
    <3>1. Prepared(a).def = job[a].def /\ Prepared(a).event = job[a].event
          /\ Prepared(a).rowVersion = read[a].row.version
      BY DEF Prepared
    <3>2. PreparedFrom(job[a], read[a].row.version)
      BY <1>1, <2>1 DEF ReadSound
    <3>. QED  BY <2>3, <3>1, <3>2
  <2>5. /\ Prepared(a).highVersion <= high.version
        /\ Prepared(a).number = Prepared(a).highVersion + 1
    BY <1>1, <2>1 DEF ReadSound, Prepared, NextIndex
  <2>6. Prepared(a).init <=> (Prepared(a).event = "initialized" \/ ~InitRequired(Prepared(a).def))
    BY DEF Prepared
  <2>7. ASSUME NEW t \in TxIds PROVE TxSound(t)'
    <3>1. CASE t = ntx + 1
      <4>1. tx'[t] = Prepared(a)
        BY <1>5, <3>1 DEF Control, TxTypes
      <4>. QED  BY <1>1, <2>4, <2>5, <2>6, <4>1
                DEF TxSound, PreparedFrom, MayPrepare, DefOf, InitRequired
    <3>2. CASE t # ntx + 1
      <4>1. tx'[t] = tx[t]
        BY <1>5, <3>2 DEF Control, TxTypes
      <4>2. t \in 1..ntx' => t \in 1..ntx
        BY <1>5, <3>2 DEF Control, TxTypes
      <4>. QED  BY <1>1, <4>1, <4>2, QuietTx
    <3>. QED  BY <3>1, <3>2
  <2>. QED  BY <1>1, <1>3, <2>7, WorkQuiet
<1>. QED  BY <1>4, <1>5 DEF ReadIndex, Prepared

LEMMA OnlyStatus ==
  ASSUME NEW x \in Transaction, NEW s, NEW y, y = [x EXCEPT !.status = s]
  PROVE  /\ y.def = x.def /\ y.event = x.event /\ y.init = x.init
         /\ y.rowVersion = x.rowVersion /\ y.highVersion = x.highVersion
         /\ y.number = x.number
BY DEF Transaction

\* A transaction keeps what was read for it whatever its status.
LEMMA SameReads ==
  ASSUME UNCHANGED <<row, high, index>>, NEW u, TxSound(u), u \in 1..ntx' => u \in 1..ntx,
         tx'[u].def = tx[u].def, tx'[u].event = tx[u].event, tx'[u].init = tx[u].init,
         tx'[u].rowVersion = tx[u].rowVersion, tx'[u].highVersion = tx[u].highVersion,
         tx'[u].number = tx[u].number
  PROVE  TxSound(u)'
<1>. SUFFICES ASSUME u \in 1..ntx' PROVE
       /\ PreparedFrom([def |-> tx[u].def, event |-> tx[u].event], tx[u].rowVersion)'
       /\ (tx[u].highVersion <= high.version)'
       /\ (tx[u].number = tx[u].highVersion + 1)'
       /\ (tx[u].init <=> (tx[u].event = "initialized" \/ ~InitRequired(tx[u].def)))'
  BY DEF TxSound
<1>1. PreparedFrom([def |-> tx[u].def, event |-> tx[u].event], tx[u].rowVersion)
  BY DEF TxSound
<1>2. PreparedFrom([def |-> tx[u].def, event |-> tx[u].event], tx[u].rowVersion)'
  BY <1>1 DEF PreparedFrom, MayPrepare, DefOf
<1>3. /\ tx[u].highVersion <= high.version
      /\ tx[u].number = tx[u].highVersion + 1
      /\ tx[u].init <=> (tx[u].event = "initialized" \/ ~InitRequired(tx[u].def))
  BY DEF TxSound
<1>. QED  BY <1>2, <1>3 DEF InitRequired

LEMMA StatusKeepsTx ==
  ASSUME Control, Ledger, UNCHANGED <<row, high, index>>, NEW t \in TxIds, NEW s,
         tx' = [tx EXCEPT ![t].status = s], ntx' = ntx, tx[t] \in Transaction,
         NEW u \in TxIds
  PROVE  TxSound(u)'
<1>1. tx \in [TxIds -> Transaction \cup {None}] /\ TxSound(u)
  BY DEF Control, TxTypes, Ledger
<1>2. CASE u = t
  <2>1. tx'[u] = [tx[u] EXCEPT !.status = s] /\ tx[u] \in Transaction
    BY <1>1, <1>2
  <2>2. /\ tx'[u].def = tx[u].def /\ tx'[u].event = tx[u].event /\ tx'[u].init = tx[u].init
        /\ tx'[u].rowVersion = tx[u].rowVersion /\ tx'[u].highVersion = tx[u].highVersion
        /\ tx'[u].number = tx[u].number
    BY <2>1, OnlyStatus
  <2>3. u \in 1..ntx' => u \in 1..ntx
    OBVIOUS
  <2>. QED  BY <1>1, <2>2, <2>3, SameReads
<1>3. CASE u # t
  <2>1. tx'[u] = tx[u] /\ (u \in 1..ntx' => u \in 1..ntx)
    BY <1>1, <1>3
  <2>. QED  BY <2>1, QuietTx
<1>. QED  BY <1>2, <1>3

LEMMA SendKeepsLedger ==
  ASSUME Control, Ledger, NEW a \in Actors, WorkFrame(a), Send(a)
  PROVE  Ledger'
<1>1. UNCHANGED <<row, high, index>> /\ UNCHANGED ntx /\ pc[a] = "send"
  BY DEF Send, ledgerVars
<1>2. pc'[a] \in {"done", "pick", "wait"}
  BY GoesTo DEF Send
<1>3. ReadSound(a)'
  BY <1>2 DEF ReadSound
<1>4. CASE UNCHANGED tx
  BY <1>1, <1>3, <1>4, QuietTx, WorkQuiet
<1>5. CASE tx' = [tx EXCEPT ![op[held[a]].tx].status = "ORDERED"]
  <2>1. op[held[a]].tx \in 0..ntx /\ op[held[a]].tx # 0 /\ ntx \in 0..MaxTx /\ MaxTx \in Nat
    BY <1>1, AtWork, LifecycleAssumption DEF Working, Control, TxTypes, ActorsSound, ActorSound
  <2>2. op[held[a]].tx \in 1..ntx /\ op[held[a]].tx \in TxIds
    BY <2>1 DEF TxIds
  <2>3. tx[op[held[a]].tx] \in Transaction
    BY <2>2 DEF Control, TxTypes
  <2>4. \A u \in TxIds : TxSound(u)'
    BY <1>1, <1>5, <2>2, <2>3, StatusKeepsTx
  <2>. QED  BY <1>1, <1>3, <2>4, WorkQuiet
<1>. QED  BY <1>4, <1>5 DEF Send

LEMMA ApplyReadKeepsLedger ==
  ASSUME Control, Ledger, NEW a \in Actors, WorkFrame(a), ApplyRead(a)
  PROVE  Ledger'
<1>1. UNCHANGED <<row, high, index>> /\ UNCHANGED <<tx, ntx>> /\ UNCHANGED job /\ pc[a] = "applyRead"
  BY DEF ApplyRead, ledgerVars, txVars
<1>2. \A t \in TxIds : TxSound(t)'
  BY <1>1, QuietTx
<1> DEFINE d == job[a].def
           n == d.name
<1>3. CASE /\ DefOf(n, row[n]) = d /\ (job[a].event = "initialized" => row[n].init)
           /\ read' = [read EXCEPT ![a].row = row[n]] /\ Goto(a, "applyWrite")
  <2>1. pc'[a] = "applyWrite"
    BY <1>3, GoesTo
  <2>2. read'[a].row = row[n]
    BY <1>3 DEF Control, ActorTypes
  <2>3. d \in Defs
    BY <1>1, AtWork DEF Working, Job
  <2>4. n \in Names /\ d.seq \in 1..MaxSeq
    BY <2>3 DEF Defs
  <2>5. row[n].seq # 0
    BY <1>3, <2>4 DEF DefOf
  <2>6. Logged(d, row[n].init)
    BY <1>3, <2>4, <2>5 DEF Ledger, RowsLogged
  <2>7. Logged(job[a].def, read[a].row.init)'
    BY <1>1, <2>2, <2>6 DEF Logged
  <2>8. ReadSound(a)'
    BY <1>1, <1>3, <2>1, <2>2, <2>7 DEF ReadSound
  <2>. QED  BY <1>1, <1>2, <2>8, WorkQuiet
<1>4. CASE LeaveVars(a)
  <2>1. pc'[a] \in {"done", "pick"}
    BY <1>4, GoesTo
  <2>2. ReadSound(a)'
    BY <2>1 DEF ReadSound
  <2>. QED  BY <1>1, <1>2, <2>2, WorkQuiet
<1>. QED  BY <1>3, <1>4 DEF ApplyRead

\* A step that writes no row and no transaction, and leads nobody to a place
\* with fresh reads.
LEMMA BystandersKeepLedger ==
  ASSUME Ledger, UNCHANGED <<row, high, index>>, UNCHANGED <<tx, ntx>>,
         \A b \in Actors : Bystander(b)
  PROVE  Ledger'
<1>1. \A t \in TxIds : TxSound(t)'
  BY QuietTx
<1>2. \A b \in Actors : ReadSound(b)'
  BY QuietRead
<1>. QED  BY <1>1, <1>2, QuietLedger

LEMMA OtherWorkKeepsLedger ==
  ASSUME Control, Ledger, NEW a \in Actors, WorkFrame(a),
         Advance(a) \/ WaitFinality(a) \/ Finalize(a) \/ ApplyWrite(a) \/ Spread(a)
  PROVE  Ledger'
<1>1. UNCHANGED <<row, high, index>> /\ UNCHANGED <<tx, ntx>>
  BY DEF Advance, WaitFinality, Finalize, Superseded, ApplyWrite, Spread, SpreadDone,
         SpreadOn, SpreadStops, ledgerVars, txVars
<1>2. pc'[a] \in {"op", "finalize", "done", "pick", "readRow", "applyRead", "spread"}
  BY GoesTo DEF Advance, WaitFinality, Finalize, Superseded, ApplyWrite, Spread, SpreadDone,
                SpreadOn, SpreadStops
<1>3. \A b \in Actors : Bystander(b)
  BY <1>2 DEF WorkFrame, Bystander
<1>. QED  BY <1>1, <1>3, BystandersKeepLedger

LEMMA WorkKeepsLedger ==
  ASSUME Control, Ledger, NEW a \in Actors, WorkStep(a)
  PROVE  Ledger'
<1>1. WorkFrame(a)
  BY WorkKeepsControl
<1>. QED  BY <1>1, ReadRowKeepsLedger, ReadHighKeepsLedger, ReadIndexKeepsLedger,
             SendKeepsLedger, ApplyReadKeepsLedger, OtherWorkKeepsLedger DEF WorkStep

LEMMA StepsAsideKeepLedger ==
  ASSUME Control, Ledger,
         \/ \E a \in Callers : (\E j \in Job : Start(a, j)) \/ CallerStep(a)
         \/ \E o \in Passes : PassStart(o) \/ PassPick(o)
         \/ \E o \in Orgs : Crash(o) \/ SyncStep(o)
  PROVE  Ledger'
<1>1. UNCHANGED <<row, high, index>> /\ UNCHANGED <<tx, ntx>> /\ UNCHANGED read
  BY DEF Start, CallerStep, Operation, TakeGate, PassStart, PassPick, Crash, SyncStep,
         ledgerVars, txVars, actorVars
<1>2. pc \in [Actors -> Labels] /\ job \in [Actors -> Job \cup {None}]
  BY DEF Control, ActorTypes
<1>3. ASSUME NEW a \in Callers, NEW j \in Job, Start(a, j), NEW b \in Actors PROVE Bystander(b)
  BY <1>1, <1>2, <1>3 DEF Start, Goto, Bystander, Actors
<1>4. ASSUME NEW a \in Callers, CallerStep(a), NEW b \in Actors PROVE Bystander(b)
  <2>1. UNCHANGED job
    BY <1>4 DEF CallerStep, Operation, TakeGate
  <2>2. \E l \in {"gate", "advance", "finalize", "done"} : Goto(a, l)
    BY <1>4 DEF CallerStep, Operation, TakeGate
  <2>. QED  BY <1>1, <1>2, <2>1, <2>2 DEF Goto, Bystander
<1>5. ASSUME NEW o \in Passes, PassStart(o) \/ PassPick(o), NEW b \in Actors PROVE Bystander(b)
  <2>1. CASE UNCHANGED <<pc, job>>
    BY <1>1, <2>1 DEF Bystander
  <2>2. CASE \E l \in {"pick", "idle", "advance"} : Goto(o, l)
    <3>1. b # o => job'[b] = job[b]
      <4>1. \/ UNCHANGED job
            \/ \E j : job' = [job EXCEPT ![o] = j]
        BY <1>5 DEF PassStart, PassPick
      <4>. QED  BY <1>2, <4>1
    <3>. QED  BY <1>1, <1>2, <2>2, <3>1 DEF Goto, Bystander
  <2>. QED  BY <1>5, <2>1, <2>2 DEF PassStart, PassPick
<1>6. ASSUME NEW o \in Orgs, Crash(o), NEW b \in Actors PROVE Bystander(b)
  <2>1. UNCHANGED job
    BY <1>6 DEF Crash
  <2>2. pc'[b] = pc[b] \/ pc'[b] \in {"done", "idle", "pick"}
    BY <1>6, CrashMoves DEF After
  <2>. QED  BY <1>1, <2>1, <2>2 DEF Bystander
<1>7. ASSUME NEW o \in Orgs, SyncStep(o), NEW b \in Actors PROVE Bystander(b)
  BY <1>7 DEF SyncStep, actorVars, Bystander
<1>8. \A b \in Actors : Bystander(b)
  BY <1>3, <1>4, <1>5, <1>6, <1>7
<1>. QED  BY <1>1, <1>8, BystandersKeepLedger

\* Validation commits, or only marks the transaction aborted.
LEMMA ValidateKeepsLedger ==
  ASSUME Control, Control', Ledger, NEW t \in TxIds, Validate(t)
  PROVE  Ledger'
<1>1. UNCHANGED <<ntx, pc, job, read>>
  BY DEF Validate, actorVars
<1>2. CASE Valid(t)
  <2>1. Commits(t) /\ tx' = [tx EXCEPT ![t].status = "COMMITTED"]
    BY <1>2 DEF Validate, Valid, Commits
  <2>. QED  BY <1>1, <1>2, <2>1, CommitKeepsLedger
<1>3. CASE ~Valid(t)
  <2>1. tx' = [tx EXCEPT ![t].status = "ABORTED"] /\ UNCHANGED <<row, high, index>>
    BY <1>3 DEF Validate, Valid, ledgerVars
  <2>2. tx[t] \in Transaction
    BY DEF Validate, Control, TxTypes
  <2>3. \A u \in TxIds : TxSound(u)'
    BY <1>1, <2>1, <2>2, StatusKeepsTx
  <2>4. \A b \in Actors : ReadSound(b)'
    BY <1>1, <2>1, QuietRead DEF Bystander
  <2>. QED  BY <2>1, <2>3, <2>4, QuietLedger
<1>. QED  BY <1>2, <1>3

LEMMA LedgerInitially == Init => Ledger
<1>. SUFFICES ASSUME Init PROVE Ledger
  OBVIOUS
<1>1. high.value = 0 /\ high.version = 0 /\ ntx = 0 /\ 1..0 = {} /\ MaxTx \in Nat
  BY LifecycleAssumption DEF Init
<1>2. \A n : Entries(n) = {}
  BY <1>1 DEF Entries
<1>3. \A i \in 1..MaxTx : index[i] # None <=> i <= high.value
  BY <1>1 DEF Init
<1>4. \A n \in Names : row[n] = NoRow
  BY DEF Init
<1>5. IndexMatchesRows /\ NewestExists
  BY <1>2, <1>3, <1>4 DEF IndexMatchesRows, NewestExists
<1>6. LogOrdered /\ LogUnique /\ RowsLogged
  BY <1>1, <1>4 DEF LogOrdered, LogUnique, RowsLogged, NoRow
<1>7. \A t \in TxIds : TxSound(t)
  BY <1>1 DEF TxSound
<1>8. \A a \in Actors : ReadSound(a)
  BY DEF Init, ReadSound
<1>. QED  BY <1>1, <1>5, <1>6, <1>7, <1>8 DEF Ledger

LEMMA LedgerInductive == Control /\ Control' /\ Ledger /\ [Next]_vars => Ledger'
<1>. SUFFICES ASSUME Control, Control', Ledger, [Next]_vars PROVE Ledger'
  OBVIOUS
<1>1. CASE UNCHANGED vars
  <2>1. UNCHANGED <<row, high, index>> /\ UNCHANGED <<tx, ntx>> /\ UNCHANGED <<pc, job, read>>
    BY <1>1 DEF vars, ledgerVars, txVars, actorVars
  <2>. QED  BY <2>1, BystandersKeepLedger DEF Bystander
<1>2. CASE Next
  BY <1>2, WorkKeepsLedger, StepsAsideKeepLedger, ValidateKeepsLedger DEF Next
<1>. QED  BY <1>1, <1>2

-----------------------------------------------------------------------------
(* The theorems.                                                           *)

\* The types, the gates and the ledger rows are as described in every
\* reachable state (lifecycle_ledger.go, lifecycle_sync.go, the committer).
THEOREM Invariance == Spec => [](Control /\ Ledger)
<1>1. Init => Control /\ Ledger
  BY ControlInitially, LedgerInitially
<1>2. (Control /\ Ledger) /\ [Next]_vars => (Control /\ Ledger)'
  BY ControlInductive, LedgerInductive
<1>. QED  BY <1>1, <1>2, PTL DEF Spec

LEMMA TypesFollow == Control /\ Ledger => TypeOK
<1>. SUFFICES ASSUME Control, Ledger PROVE TypeOK
  OBVIOUS
<1>0. MaxTx \in Nat /\ MaxOp \in Nat
  BY LifecycleAssumption
<1>1. high.value \in 0..MaxTx /\ high.version \in 0..MaxTx
  BY <1>0 DEF Control, LedgerTypes, Watermark, Ledger
<1>2. \A n \in Names : row[n].seq \in 0..MaxSeq /\ row[n].version \in 0..MaxTx
  <2>. SUFFICES ASSUME NEW n \in Names
                PROVE  row[n].seq \in 0..MaxSeq /\ row[n].version \in 0..MaxTx
    OBVIOUS
  <2>1. row[n].seq \in 0..MaxSeq /\ row[n].version \in Nat
    BY DEF Control, LedgerTypes, Row
  <2>2. row[n].version <= high.version
    BY DEF Ledger, RowsLogged
  <2>. QED  BY <1>0, <1>1, <2>1, <2>2
<1>3. \A t \in TxIds : tx[t] # None =>
        tx[t].def \in Defs /\ tx[t].status \in {"", "ORDERED"} \cup Final
  BY DEF Control, TxTypes, Transaction
<1>4. \A p \in OpIds : op[p] # None =>
        op[p].job \in Job /\ op[p].tx \in 0..ntx /\ op[p].left \subseteq Orgs
  <2>. SUFFICES ASSUME NEW p \in OpIds, op[p] # None
                PROVE  op[p].job \in Job /\ op[p].tx \in 0..ntx /\ op[p].left \subseteq Orgs
    OBVIOUS
  <2>1. op[p] \in Object /\ op[p].tx \in 0..ntx
    BY DEF Control, ObjectTypes
  <2>. QED  BY <2>1 DEF Object
<1>5. handed \subseteq 1..ntx /\ pc \in [Actors -> Labels]
      /\ (\A o \in Orgs, k \in Keys : opmap[o][k] \in 0..nop)
      /\ (\A a \in Actors : held[a] \in 0..nop) /\ \A o \in Orgs : batch[o] \subseteq 1..nop
  BY DEF Control, TxTypes, ObjectTypes, ActorTypes
<1>. QED  BY <1>1, <1>2, <1>3, <1>4, <1>5 DEF TypeOK

\* Sequences, versions, transaction and object numbers stay in their ranges:
\* a row's version never passes the watermark's.
THEOREM TypeCorrect == Spec => []TypeOK
BY Invariance, TypesFollow, PTL

\* The index has no gap up to the watermark and nothing above it, and each
\* definition row is the newest entry of its name, however the three separate
\* reads of prepareLifecycleTransaction interleave with other commits.
THEOREM RowsFollowIndex == Spec => []IndexMatchesRows
<1>1. Control /\ Ledger => IndexMatchesRows
  BY DEF Ledger
<1>. QED  BY <1>1, Invariance, PTL

=============================================================================

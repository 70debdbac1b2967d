------------------------ MODULE ChaincodeEvents_proofs ------------------------
(***************************************************************************)
(* Proofs about ChaincodeEvents, for any number of blocks, any size of     *)
(* them and any number of broken subscriptions.                            *)
(*                                                                         *)
(* What the client has processed is complete up to the last event of it,   *)
(* what it has processed and what is on its way are complete up to the     *)
(* place where the stream is.  While the checkpoint is looked for nothing  *)
(* is on its way, and where it is found the first gives the second.        *)
(***************************************************************************)
EXTENDS ChaincodeEvents, SequenceTheorems, TLAPS

Streaming == pc \in {"open", "visit"}

\* The next transaction that the stream looks at.
Ahead == IF pc = "visit" THEN place ELSE <<expected, 1>>

\* What is not rejected has its own ID.
OwnIDs ==
  \A n \in 0..Len(ledger) - 1 : \A i \in 1..Len(ledger[n + 1]) :
    ledger[n + 1][i].kind # "rejected" => ledger[n + 1][i].id = <<n, i>>

Events(s) == \A i \in 1..Len(s) : s[i] \in Mine
Increasing(s) == \A i, j \in 1..Len(s) : i < j => Before(s[i], s[j])
Precedes(s, t) == \A i \in 1..Len(s), j \in 1..Len(t) : Before(s[i], t[j])
Below(s, id) == \A i \in 1..Len(s) : Before(s[i], id)
In(id, s) == \E i \in 1..Len(s) : s[i] = id

Order ==
  /\ Events(got) /\ Events(sent) /\ Events(matching)
  /\ Increasing(got) /\ Increasing(sent) /\ Increasing(matching)
  /\ Precedes(got, sent) /\ Precedes(got, matching) /\ Precedes(sent, matching)

\* What the subscription may hold, and where it is.
Stage ==
  /\ ~Streaming => sent = <<>>
  /\ pc # "visit" => matching = <<>>
  /\ previous # NoTx => sent = <<>> /\ matching = <<>>
  /\ pc = "lookup" => mark # NoTx /\ expected <= height /\ height <= Len(ledger)
  /\ pc = "lookup" \/ (Streaming /\ previous # NoTx) => previous = mark
  /\ (pc = "lookup" \/ Streaming) /\ got = <<>> =>
       base = IF mark # NoTx THEN mark ELSE <<start, 0>>
  /\ got # <<>> => mark = Last(got)
  /\ Streaming => expected <= Len(ledger)
  /\ pc = "visit" => /\ place[1] = expected /\ expected < Len(ledger) /\ start <= expected
                     /\ place[2] <= Len(ledger[expected + 1]) + 1
  /\ Streaming /\ expected < start /\ previous = NoTx =>
       mark = NoTx /\ got = <<>> /\ sent = <<>>

\* The stream is complete up to where it is.
Complete ==
  Streaming /\ previous = NoTx =>
    /\ Below(got, Ahead) /\ Below(sent, Ahead) /\ Below(matching, Ahead)
    /\ \A id \in Mine : Before(base, id) /\ Before(id, Ahead) =>
         In(id, got) \/ In(id, sent) \/ In(id, matching)

Processed ==
  got # <<>> => \A id \in Mine :
    Before(base, id) /\ ~Before(Last(got), id) => In(id, got)

IInv == TypeOK /\ OwnIDs /\ Order /\ Stage /\ Complete /\ Processed

(* The order of places.                                                    *)

Places == Nat \X Nat

LEMMA Natural ==
  /\ MaxBlocks \in Nat /\ BlockSize \in Nat /\ MaxBreaks \in Nat
  /\ MaxBlocks > 0 /\ BlockSize > 0
BY EventsAssumption

LEMMA IDs ==
  ASSUME NEW id \in TxIDs
  PROVE  /\ id \in Places /\ id = <<id[1], id[2]>> /\ id # NoTx
         /\ id[1] \in 0..MaxBlocks - 1 /\ id[2] \in 1..BlockSize
BY Natural DEF TxIDs, Places, NoTx

LEMMA BeforeTransitive ==
  ASSUME NEW p \in Places, NEW q \in Places, NEW r \in Places, Before(p, q), Before(q, r)
  PROVE  Before(p, r)
BY DEF Places, Before

LEMMA BeforeStrict ==
  ASSUME NEW p \in Places, NEW q \in Places
  PROVE  ~Before(p, p) /\ (Before(p, q) => ~Before(q, p))
BY DEF Places, Before

LEMMA BeforeTotal ==
  ASSUME NEW p \in Places, NEW q \in Places
  PROVE  p = q \/ Before(p, q) \/ Before(q, p)
<1>1. /\ p = <<p[1], p[2]>> /\ q = <<q[1], q[2]>>
      /\ p[1] \in Nat /\ p[2] \in Nat /\ q[1] \in Nat /\ q[2] \in Nat
  BY DEF Places
<1>2. CASE p[1] = q[1] /\ p[2] = q[2]
  BY <1>1, <1>2
<1>3. CASE ~(p[1] = q[1] /\ p[2] = q[2])
  BY <1>1, <1>3 DEF Before
<1>. QED  BY <1>2, <1>3

(* Blocks and transactions.                                                *)

Txs == [id : TxIDs, kind : Kinds]

LEMMA Blocks ==
  ASSUME TypeOK, NEW n \in 0..Len(ledger) - 1
  PROVE  /\ Block(n) \in Seq(Txs) /\ Len(Block(n)) \in Nat /\ Len(Block(n)) <= BlockSize
         /\ DOMAIN Block(n) = 1..Len(Block(n)) /\ n < MaxBlocks
<1>1. ledger \in Seq(Seq(Txs)) /\ Len(ledger) \in Nat /\ Len(ledger) <= MaxBlocks
  BY LenProperties DEF TypeOK, Txs
<1>2. n + 1 \in 1..Len(ledger) /\ DOMAIN ledger = 1..Len(ledger)
  BY <1>1, LenProperties
<1>3. ledger[n + 1] \in Seq(Txs) /\ Len(ledger[n + 1]) <= BlockSize
  BY <1>1, <1>2, ElementOfSeq DEF TypeOK
<1>4. Len(ledger[n + 1]) \in Nat /\ DOMAIN ledger[n + 1] = 1..Len(ledger[n + 1])
  BY <1>3, LenProperties
<1>. QED  BY <1>1, <1>3, <1>4, Natural DEF Block

LEMMA StoredIDs ==
  ASSUME TypeOK, OwnIDs, NEW id \in Nat \X Nat, Stored(id)
  PROVE  /\ id \in TxIDs /\ id[1] \in 0..Len(ledger) - 1 /\ id[2] \in 1..Len(Block(id[1]))
         /\ Block(id[1])[id[2]] \in Txs
         /\ Kind(id) # "rejected" => Block(id[1])[id[2]].id = id
<1>1. Len(ledger) \in Nat
  BY LenProperties DEF TypeOK
<1>2. id[1] \in 0..Len(ledger) - 1 /\ id = <<id[1], id[2]>> /\ id[2] \in Nat
  BY <1>1 DEF Stored
<1>3. /\ Block(id[1]) \in Seq(Txs) /\ Len(Block(id[1])) \in Nat
      /\ Len(Block(id[1])) <= BlockSize /\ id[1] < MaxBlocks
      /\ id[2] \in 1..Len(Block(id[1]))
  BY <1>2, Blocks DEF Stored
<1>4. Block(id[1])[id[2]] \in Txs
  BY <1>3, ElementOfSeq
<1>5. id[1] \in 0..MaxBlocks - 1 /\ id[2] \in 1..BlockSize
  BY <1>1, <1>2, <1>3, Natural
<1>6. id \in TxIDs
  BY <1>2, <1>5 DEF TxIDs
<1>7. Kind(id) # "rejected" => Block(id[1])[id[2]].id = id
  BY <1>2, <1>3 DEF OwnIDs, Kind, Block
<1>. QED  BY <1>2, <1>3, <1>4, <1>6, <1>7

LEMMA MineIDs ==
  ASSUME NEW id \in Mine
  PROVE  id \in TxIDs /\ Stored(id) /\ Kind(id) = "mine" /\ id \in Places
BY IDs DEF Mine

LEMMA MineStays == ledger' = ledger => Mine' = Mine
BY DEF Mine, Stored, Kind, Block

(* Sequences of events.                                                    *)

LEMMA Empty ==
  /\ Len(<<>>) = 0
  /\ Events(<<>>) /\ Increasing(<<>>)
  /\ \A s : Precedes(<<>>, s) /\ Precedes(s, <<>>)
  /\ \A id : Below(<<>>, id) /\ ~In(id, <<>>)
BY DEF Events, Increasing, Precedes, Below, In

LEMMA Last1 ==
  ASSUME NEW s \in Seq(TxIDs), s # <<>>
  PROVE  /\ Len(s) \in Nat /\ Len(s) >= 1 /\ Last(s) = s[Len(s)]
         /\ Len(s) \in 1..Len(s) /\ Last(s) \in TxIDs
<1>1. Len(s) \in Nat /\ Len(s) # 0
  BY EmptySeq, LenProperties
<1>2. Len(s) \in 1..Len(s) /\ Len(s) >= 1
  BY <1>1
<1>3. s[Len(s)] \in TxIDs
  BY <1>2, ElementOfSeq
<1>. QED  BY <1>1, <1>2, <1>3 DEF Last

LEMMA ContainsIn ==
  ASSUME NEW s \in Seq(TxIDs), NEW id
  PROVE  Contains(s, id) <=> In(id, s)
BY LenProperties DEF Contains, In


LEMMA Appended ==
  ASSUME NEW s \in Seq(TxIDs), NEW id \in TxIDs
  PROVE  /\ Append(s, id) \in Seq(TxIDs) /\ Append(s, id) # <<>> /\ Last(Append(s, id)) = id
         /\ \A x : In(x, Append(s, id)) <=> In(x, s) \/ x = id
         /\ Events(s) /\ id \in Mine => Events(Append(s, id))
         /\ Increasing(s) /\ Below(s, id) => Increasing(Append(s, id))
         /\ \A t : Precedes(t, s) /\ Below(t, id) => Precedes(t, Append(s, id))
         /\ \A t : Precedes(s, t) /\ Precedes(<<id>>, t) => Precedes(Append(s, id), t)
         /\ \A q : Below(s, q) /\ Before(id, q) => Below(Append(s, id), q)
<1>. DEFINE a == Append(s, id)
<1>1. /\ a \in Seq(TxIDs) /\ Len(a) = Len(s) + 1 /\ a[Len(s) + 1] = id /\ Len(s) \in Nat
      /\ \A i \in 1..Len(s) : a[i] = s[i]
  BY AppendProperties, LenProperties
<1>. HIDE DEF a
<1>2. \A i \in 1..Len(a) : i \in 1..Len(s) \/ i = Len(s) + 1
  BY <1>1
<1>3. /\ Len(s) + 1 \in 1..Len(a) /\ \A i \in 1..Len(s) : i \in 1..Len(a) /\ i < Len(s) + 1
  BY <1>1
<1>4. a # <<>> /\ Last(a) = id
  BY <1>1, EmptySeq DEF Last
<1>5. \A x : In(x, a) <=> In(x, s) \/ x = id
  BY <1>1, <1>2, <1>3 DEF In
<1>6. Events(s) /\ id \in Mine => Events(a)
  BY <1>1, <1>2 DEF Events
<1>7. Increasing(s) /\ Below(s, id) => Increasing(a)
  <2>1. ASSUME Increasing(s), Below(s, id), NEW i \in 1..Len(a), NEW j \in 1..Len(a), i < j
        PROVE  Before(a[i], a[j])
    <3>1. i \in 1..Len(s)
      BY <1>1, <2>1
    <3>2. CASE j \in 1..Len(s)
      BY <1>1, <2>1, <3>1, <3>2 DEF Increasing
    <3>3. CASE j = Len(s) + 1
      BY <1>1, <2>1, <3>1, <3>3 DEF Below
    <3>. QED  BY <1>2, <3>2, <3>3
  <2>. QED  BY <2>1 DEF Increasing
<1>8. \A t : Precedes(t, s) /\ Below(t, id) => Precedes(t, a)
  BY <1>1, <1>2 DEF Precedes, Below
<1>9. \A t : Precedes(s, t) /\ Precedes(<<id>>, t) => Precedes(a, t)
  BY <1>1, <1>2 DEF Precedes
<1>10. \A q : Below(s, q) /\ Before(id, q) => Below(a, q)
  BY <1>1, <1>2 DEF Below
<1>. QED  BY <1>1, <1>4, <1>5, <1>6, <1>7, <1>8, <1>9, <1>10 DEF a

LEMMA HeadAndTail ==
  ASSUME NEW s \in Seq(TxIDs), s # <<>>
  PROVE  /\ Head(s) \in TxIDs /\ Tail(s) \in Seq(TxIDs)
         /\ \A x : In(x, s) <=> x = Head(s) \/ In(x, Tail(s))
         /\ Events(s) => Head(s) \in Mine /\ Events(Tail(s))
         /\ Increasing(s) => Precedes(<<Head(s)>>, Tail(s)) /\ Increasing(Tail(s))
         /\ \A t : Precedes(t, s) => Below(t, Head(s)) /\ Precedes(t, Tail(s))
         /\ \A t : Precedes(s, t) => Precedes(<<Head(s)>>, t) /\ Precedes(Tail(s), t)
         /\ \A q : Below(s, q) => Before(Head(s), q) /\ Below(Tail(s), q)
<1>. DEFINE h == Head(s)
            r == Tail(s)
<1>1. /\ h \in TxIDs /\ r \in Seq(TxIDs) /\ Len(r) = Len(s) - 1 /\ h = s[1]
      /\ \A i \in 1..Len(r) : r[i] = s[i + 1]
  BY HeadTailProperties
<1>2. Len(s) \in Nat /\ Len(s) >= 1
  BY Last1
<1>. HIDE DEF h, r
<1>3. 1 \in 1..Len(s) /\ \A i \in 1..Len(r) : i + 1 \in 1..Len(s) /\ 1 < i + 1
  BY <1>1, <1>2
<1>4. ASSUME NEW x PROVE In(x, s) <=> x = h \/ In(x, r)
  <2>1. ASSUME NEW i \in 1..Len(s), s[i] = x, x # h PROVE In(x, r)
    <3>1. i - 1 \in 1..Len(r) /\ (i - 1) + 1 = i
      BY <1>1, <1>2, <2>1
    <3>2. r[i - 1] = x
      BY <1>1, <2>1, <3>1
    <3>. QED  BY <3>1, <3>2 DEF In
  <2>2. x = h => In(x, s)
    BY <1>1, <1>3 DEF In
  <2>3. In(x, r) => In(x, s)
    BY <1>1, <1>3 DEF In
  <2>. QED  BY <2>1, <2>2, <2>3 DEF In
<1>5. Events(s) => h \in Mine /\ Events(r)
  BY <1>1, <1>3 DEF Events
<1>6. Increasing(s) => Precedes(<<h>>, r) /\ Increasing(r)
  <2>1. Increasing(s) => Precedes(<<h>>, r)
    BY <1>1, <1>3 DEF Increasing, Precedes
  <2>2. ASSUME Increasing(s), NEW i \in 1..Len(r), NEW j \in 1..Len(r), i < j
        PROVE  Before(r[i], r[j])
    <3>1. i + 1 < j + 1
      BY <2>2
    <3>. QED  BY <1>1, <1>3, <2>2, <3>1 DEF Increasing
  <2>. QED  BY <2>1, <2>2 DEF Increasing
<1>7. \A t : Precedes(t, s) => Below(t, h) /\ Precedes(t, r)
  BY <1>1, <1>3 DEF Precedes, Below
<1>8. ASSUME NEW t, Precedes(s, t) PROVE Precedes(<<h>>, t) /\ Precedes(r, t)
  <2>1. Precedes(<<h>>, t)
    BY <1>1, <1>3, <1>8 DEF Precedes
  <2>2. Precedes(r, t)
    BY <1>1, <1>3, <1>8 DEF Precedes
  <2>. QED  BY <2>1, <2>2
<1>9. \A q : Below(s, q) => Before(h, q) /\ Below(r, q)
  BY <1>1, <1>3 DEF Below
<1>. QED  BY <1>1, <1>4, <1>5, <1>6, <1>7, <1>8, <1>9 DEF h, r

LEMMA Joined ==
  ASSUME NEW s \in Seq(TxIDs), NEW t \in Seq(TxIDs)
  PROVE  /\ s \o t \in Seq(TxIDs)
         /\ \A x : In(x, s \o t) <=> In(x, s) \/ In(x, t)
         /\ Events(s) /\ Events(t) => Events(s \o t)
         /\ Increasing(s) /\ Increasing(t) /\ Precedes(s, t) => Increasing(s \o t)
         /\ \A u : Precedes(u, s) /\ Precedes(u, t) => Precedes(u, s \o t)
         /\ \A q : Below(s, q) /\ Below(t, q) => Below(s \o t, q)
<1>. DEFINE c == s \o t
            m == Len(s)
<1>1. /\ c \in Seq(TxIDs) /\ Len(c) = m + Len(t) /\ m \in Nat /\ Len(t) \in Nat
      /\ \A i \in 1..Len(c) : c[i] = IF i <= m THEN s[i] ELSE t[i - m]
  BY ConcatProperties, LenProperties
<1>. HIDE DEF c, m
<1>m. m = Len(s)
  BY DEF m
<1>2. \A i \in 1..Len(c) : \/ i \in 1..m /\ c[i] = s[i]
                           \/ i - m \in 1..Len(t) /\ c[i] = t[i - m] /\ i > m
  BY <1>1
<1>3. \A i \in 1..m : i \in 1..Len(c) /\ c[i] = s[i]
  BY <1>1
<1>4. \A i \in 1..Len(t) : i + m \in 1..Len(c) /\ c[i + m] = t[i]
  BY <1>1
<1>5. ASSUME NEW x PROVE In(x, c) <=> In(x, s) \/ In(x, t)
  <2>1. In(x, c) => In(x, s) \/ In(x, t)
    BY <1>2, <1>m DEF In
  <2>2. In(x, s) => In(x, c)
    BY <1>3, <1>m DEF In
  <2>3. In(x, t) => In(x, c)
    BY <1>4 DEF In
  <2>. QED  BY <2>1, <2>2, <2>3
<1>6. Events(s) /\ Events(t) => Events(c)
  BY <1>2, <1>m DEF Events
<1>7. ASSUME Increasing(s), Increasing(t), Precedes(s, t),
             NEW i \in 1..Len(c), NEW j \in 1..Len(c), i < j
      PROVE  Before(c[i], c[j])
  <2>1. CASE i \in 1..m /\ c[i] = s[i] /\ j \in 1..m /\ c[j] = s[j]
    BY <1>7, <1>m, <2>1 DEF Increasing
  <2>2. CASE i \in 1..m /\ c[i] = s[i] /\ j - m \in 1..Len(t) /\ c[j] = t[j - m]
    BY <1>7, <1>m, <2>2 DEF Precedes
  <2>3. CASE i - m \in 1..Len(t) /\ c[i] = t[i - m] /\ j - m \in 1..Len(t) /\ c[j] = t[j - m]
    <3>1. i - m < j - m
      BY <1>1, <1>7
    <3>. QED  BY <1>7, <2>3, <3>1 DEF Increasing
  <2>4. i > m => j > m
    BY <1>1, <1>7
  <2>5. j > m => ~(j \in 1..m)
    BY <1>1
  <2>. QED  BY <1>2, <2>1, <2>2, <2>3, <2>4, <2>5
<1>8. \A u : Precedes(u, s) /\ Precedes(u, t) => Precedes(u, c)
  BY <1>2, <1>m DEF Precedes
<1>9. \A q : Below(s, q) /\ Below(t, q) => Below(c, q)
  BY <1>2, <1>m DEF Below
<1>10. Increasing(s) /\ Increasing(t) /\ Precedes(s, t) => Increasing(c)
  BY <1>7 DEF Increasing
<1>. QED  BY <1>1, <1>5, <1>6, <1>8, <1>9, <1>10 DEF c


(* The blocks that are committed.                                          *)

LEMMA NewBlock ==
  ASSUME TypeOK, OwnIDs, NEW b \in NewBlocks
  PROVE  /\ Len(ledger) \in Nat /\ Len(ledger) < MaxBlocks
         /\ b \in Seq(Txs) /\ Len(b) <= BlockSize
         /\ \A i \in 1..Len(b) : b[i].kind # "rejected" => b[i].id = <<Len(ledger), i>>
<1>. DEFINE n == Len(ledger)
            fresh(i) == {[id |-> <<n, i>>, kind |-> k] : k \in Kinds}
            repeated == {[id |-> id, kind |-> "rejected"] : id \in {t \in TxIDs : Stored(t)}}
            txs == repeated \cup UNION {fresh(i) : i \in 1..BlockSize}
<1>1. n \in Nat /\ n <= MaxBlocks
  BY LenProperties DEF TypeOK
<1>2. n # MaxBlocks
  BY DEF NewBlocks
<1>3. b \in BoundedSeq(txs, BlockSize) /\ \A i \in DOMAIN b : b[i] \in fresh(i) \cup repeated
  BY <1>2 DEF NewBlocks
<1>4. PICK m \in 0..BlockSize : b \in [1..m -> txs]
  BY <1>3 DEF BoundedSeq, SeqOf
<1>5. n < MaxBlocks
  BY <1>1, <1>2, Natural
<1>6. repeated \subseteq Txs
  BY DEF Txs, Kinds
<1>7. \A i \in 1..BlockSize : fresh(i) \subseteq Txs
  <2>1. \A i \in 1..BlockSize : <<n, i>> \in TxIDs
    BY <1>1, <1>5, Natural DEF TxIDs
  <2>. QED  BY <2>1 DEF Txs
<1>8. txs \subseteq Txs
  BY <1>6, <1>7
<1>9. b \in [1..m -> Txs] /\ m \in Nat
  BY <1>4, <1>8, Natural
<1>10. b \in Seq(Txs) /\ Len(b) = m
  BY <1>9, SeqDef, LenProperties
<1>11. ASSUME NEW i \in 1..Len(b), b[i].kind # "rejected" PROVE b[i].id = <<n, i>>
  <2>1. b[i] \in fresh(i) \cup repeated
    BY <1>3, <1>9, <1>10
  <2>2. b[i] \in repeated => b[i].kind = "rejected"
    OBVIOUS
  <2>. QED  BY <1>11, <2>1, <2>2
<1>. QED  BY <1>1, <1>4, <1>5, <1>10, <1>11, Natural

LEMMA Committed ==
  ASSUME TypeOK, OwnIDs, NEW b \in NewBlocks, CommitBlock(b)
  PROVE  /\ ledger' \in Seq(Seq(Txs)) /\ Len(ledger') = Len(ledger) + 1
         /\ Len(ledger) \in Nat /\ Len(ledger) < MaxBlocks
         /\ \A n \in 0..Len(ledger) - 1 : ledger'[n + 1] = ledger[n + 1]
         /\ ledger'[Len(ledger) + 1] = b
         /\ Mine \subseteq Mine'
         /\ \A id \in Mine' : id \in Mine \/ id[1] = Len(ledger)
<1>1. /\ ledger \in Seq(Seq(Txs)) /\ ledger' = Append(ledger, b) /\ b \in Seq(Txs)
      /\ Len(ledger) \in Nat /\ Len(ledger) < MaxBlocks
  BY NewBlock DEF TypeOK, Txs, CommitBlock
<1>2. /\ ledger' \in Seq(Seq(Txs)) /\ Len(ledger') = Len(ledger) + 1
      /\ \A i \in 1..Len(ledger) : ledger'[i] = ledger[i]
      /\ ledger'[Len(ledger) + 1] = b
  BY <1>1, AppendProperties
<1>3. \A n \in 0..Len(ledger) - 1 : n + 1 \in 1..Len(ledger) /\ ledger'[n + 1] = ledger[n + 1]
  BY <1>1, <1>2
<1>4. \A id \in TxIDs : id[1] < Len(ledger) => id[1] \in 0..Len(ledger) - 1
  BY <1>1, IDs
<1>5. Mine \subseteq Mine'
  <2>1. ASSUME NEW id \in Mine PROVE id \in Mine'
    <3>1. id \in TxIDs /\ id[1] < Len(ledger) /\ id[1] \in 0..Len(ledger) - 1
      BY <1>4 DEF Mine, Stored
    <3>2. ledger'[id[1] + 1] = ledger[id[1] + 1] /\ id[1] < Len(ledger')
      BY <1>1, <1>2, <1>3, <3>1
    <3>. QED  BY <3>1, <3>2 DEF Mine, Stored, Kind, Block
  <2>. QED  BY <2>1
<1>6. ASSUME NEW id \in Mine', id[1] # Len(ledger) PROVE id \in Mine
  <2>1. id \in TxIDs /\ id[1] < Len(ledger')
    BY DEF Mine, Stored
  <2>2. id[1] < Len(ledger) /\ id[1] \in 0..Len(ledger) - 1
    BY <1>1, <1>2, <1>6, <2>1, IDs
  <2>3. ledger'[id[1] + 1] = ledger[id[1] + 1]
    BY <1>3, <2>2
  <2>. QED  BY <2>1, <2>2, <2>3 DEF Mine, Stored, Kind, Block
<1>. QED  BY <1>1, <1>2, <1>3, <1>5, <1>6


(* Types.                                                                  *)

LEMMA InBounds ==
  ASSUME TypeOK
  PROVE  /\ Len(ledger) \in Nat /\ Len(ledger) <= MaxBlocks
         /\ expected \in Nat /\ start \in Nat /\ height \in Nat
         /\ place \in Places /\ base \in Places /\ <<expected, 1>> \in Places /\ Ahead \in Places
         /\ got \in Seq(TxIDs) /\ sent \in Seq(TxIDs) /\ matching \in Seq(TxIDs)
         /\ mark # NoTx => mark \in TxIDs /\ mark \in Places
         /\ previous # NoTx => previous \in TxIDs /\ previous \in Places
<1>1. /\ Len(ledger) \in Nat /\ Len(ledger) <= MaxBlocks
      /\ expected \in Nat /\ start \in Nat /\ height \in Nat
  BY LenProperties, Natural DEF TypeOK
<1>2. place \in Places /\ base \in Places /\ <<expected, 1>> \in Places
  BY <1>1, Natural DEF TypeOK, Places
<1>3. Ahead \in Places
  BY <1>2 DEF Ahead
<1>. QED  BY <1>1, <1>2, <1>3, IDs DEF TypeOK

\* The place that is visited.
LEMMA Visited ==
  ASSUME TypeOK, OwnIDs, Stage, Visit
  PROVE  /\ place \in TxIDs /\ place[1] = expected /\ Stored(place)
         /\ expected \in 0..Len(ledger) - 1
         /\ place[2] \in 1..Len(ledger[expected + 1]) /\ Len(ledger[expected + 1]) \in Nat
         /\ Len(ledger[expected + 1]) <= BlockSize
         /\ place' = <<expected, place[2] + 1>> /\ place' \in Places
         /\ Block(place[1])[place[2]] \in Txs
         /\ Kind(place) = Block(place[1])[place[2]].kind
         /\ Kind(place) # "rejected" => Block(place[1])[place[2]].id = place
<1>1. pc = "visit" /\ Stored(place) /\ place' = <<place[1], place[2] + 1>>
  BY DEF Visit
<1>2. place \in Nat \X Nat /\ place[1] = expected
  BY <1>1, InBounds DEF Places, Stage
<1>3. /\ place \in TxIDs /\ place[1] \in 0..Len(ledger) - 1
      /\ place[2] \in 1..Len(Block(place[1])) /\ Block(place[1])[place[2]] \in Txs
      /\ Kind(place) # "rejected" => Block(place[1])[place[2]].id = place
  BY <1>1, <1>2, StoredIDs
<1>4. Len(Block(place[1])) \in Nat /\ Len(Block(place[1])) <= BlockSize
  BY <1>3, Blocks
<1>5. Block(place[1]) = ledger[expected + 1]
  BY <1>2 DEF Block
<1>6. place' \in Places
  BY <1>1, <1>2 DEF Places
<1>. QED  BY <1>1, <1>2, <1>3, <1>4, <1>5, <1>6 DEF Kind

LEMMA TypeNext ==
  ASSUME IInv, Next
  PROVE  TypeOK'
<1>. USE Natural DEF IInv
<1>1. ASSUME NEW b \in NewBlocks, CommitBlock(b) PROVE TypeOK'
  <2>1. /\ ledger' \in Seq(Seq(Txs)) /\ Len(ledger') = Len(ledger) + 1
        /\ Len(ledger) \in Nat /\ Len(ledger) < MaxBlocks
        /\ \A n \in 0..Len(ledger) - 1 : ledger'[n + 1] = ledger[n + 1]
        /\ ledger'[Len(ledger) + 1] = b
    BY <1>1, Committed
  <2>2. Len(b) <= BlockSize
    BY <1>1, NewBlock
  <2>3. ASSUME NEW n \in DOMAIN ledger' PROVE Len(ledger'[n]) <= BlockSize
    <3>1. n \in 1..Len(ledger) + 1
      BY <2>1, LenProperties
    <3>2. CASE n = Len(ledger) + 1
      BY <2>1, <2>2, <3>2
    <3>3. CASE n # Len(ledger) + 1
      <4>1. n - 1 \in 0..Len(ledger) - 1 /\ (n - 1) + 1 = n
        BY <2>1, <3>1, <3>3
      <4>2. ledger'[n] = Block(n - 1)
        BY <2>1, <4>1 DEF Block
      <4>. QED  BY <4>1, <4>2, Blocks
    <3>. QED  BY <3>2, <3>3
  <2>4. ledger' \in Seq(Seq([id : TxIDs, kind : Kinds])) /\ Len(ledger') <= MaxBlocks
    BY <2>1 DEF Txs
  <2>5. UNCHANGED <<client, base, pc, cursor, visited, sent, breaks>>
    BY <1>1 DEF CommitBlock
  <2>. QED  BY <2>3, <2>4, <2>5 DEF TypeOK, client, cursor, visited
<1>2. ASSUME NEW id \in TxIDs, CheckpointTransaction(id) PROVE TypeOK'
  BY <1>2 DEF TypeOK, CheckpointTransaction, cursor, visited
<1>3. CASE Subscribe
  BY <1>3 DEF TypeOK, Subscribe, client, cursor, visited
<1>4. CASE ProcessEvent
  <2>1. Head(sent) \in TxIDs /\ Tail(sent) \in Seq(TxIDs) /\ Append(got, Head(sent)) \in Seq(TxIDs)
    BY <1>4, InBounds, HeadAndTail, Appended DEF ProcessEvent
  <2>. QED  BY <1>4, <2>1 DEF TypeOK, ProcessEvent, cursor, visited
<1>5. ASSUME NEW h \in 0..Len(ledger), ReadHeight(h) PROVE TypeOK'
  <2>. DEFINE first == IF Requested = NextCommit THEN h ELSE Requested
  <2>1. h \in 0..MaxBlocks
    BY InBounds
  <2>2. Requested \in 0..NextCommit
    <3>1. mark # NoTx => mark[1] \in 0..MaxBlocks - 1
      BY InBounds, IDs
    <3>. QED  BY <3>1 DEF TypeOK, Requested, NextCommit
  <2>3. first \in 0..MaxBlocks
    BY <2>1, <2>2 DEF NextCommit
  <2>4. mark # NoTx => mark \in (0..MaxBlocks) \X (0..BlockSize)
    BY InBounds, IDs
  <2>5. <<first, 0>> \in (0..MaxBlocks) \X (0..BlockSize)
    BY <2>3
  <2>6. /\ height' = h /\ start' = first /\ expected' = (IF first < h THEN first ELSE h)
        /\ previous' = mark /\ pc' = (IF mark = NoTx THEN "open" ELSE "lookup")
        /\ base' = (IF got # <<>> THEN base ELSE IF mark # NoTx THEN mark ELSE <<first, 0>>)
        /\ UNCHANGED <<ledger, client, visited, sent, breaks>>
    BY <1>5 DEF ReadHeight
  <2>. HIDE DEF first
  <2>7. base' \in (0..MaxBlocks) \X (0..BlockSize)
    BY <2>4, <2>5, <2>6 DEF TypeOK
  <2>8. expected' \in 0..MaxBlocks
    BY <2>1, <2>3, <2>6
  <2>. QED  BY <2>1, <2>3, <2>6, <2>7, <2>8 DEF TypeOK, client, visited
<1>6. CASE CheckpointFound
  <2>1. previous # NoTx
    BY <1>6 DEF CheckpointFound, Stage
  <2>2. previous[1] \in 0..MaxBlocks
    BY <2>1, InBounds, IDs
  <2>3. /\ \/ start' = previous[1] /\ expected' = (IF start' < height THEN start' ELSE height)
           \/ UNCHANGED <<start, expected>>
        /\ pc' \in {"open", "refused"}
        /\ UNCHANGED <<ledger, client, base, height, previous, visited, sent, breaks>>
    BY <1>6 DEF CheckpointFound
  <2>4. start' \in 0..MaxBlocks /\ expected' \in 0..MaxBlocks
    BY <2>2, <2>3 DEF TypeOK
  <2>. QED  BY <2>3, <2>4 DEF TypeOK, client, visited
<1>7. CASE CheckpointNotFound
  BY <1>7 DEF TypeOK, CheckpointNotFound, client, cursor, visited
<1>8. ASSUME NEW n \in 0..MaxBlocks - 1, Deliver(n) PROVE TypeOK'
  <2>1. n = expected /\ n < MaxBlocks /\ n + 1 \in 0..MaxBlocks
    BY <1>8, InBounds DEF Deliver, Due
  <2>2. <<n, 1>> \in (0..MaxBlocks - 1) \X (1..BlockSize + 1)
    OBVIOUS
  <2>. QED  BY <1>8, <2>1, <2>2 DEF TypeOK, Deliver, client
<1>9. CASE Visit
  <2>. DEFINE tx == Block(place[1])[place[2]]
  <2>1. place' \in (0..MaxBlocks - 1) \X (1..BlockSize + 1)
    <3>1. place' = <<expected, place[2] + 1>> /\ expected \in 0..Len(ledger) - 1
      BY <1>9, Visited
    <3>2. place \in TxIDs
      BY <1>9, Visited
    <3>3. expected \in 0..MaxBlocks - 1
      BY <3>1, InBounds
    <3>4. place[2] + 1 \in 1..BlockSize + 1
      BY <3>2, IDs
    <3>. QED  BY <3>1, <3>3, <3>4
  <2>2. tx \in Txs
    BY <1>9, Visited
  <2>3. /\ previous' = Remaining(tx)
        /\ matching' = IF Matches(tx) THEN Append(matching, tx.id) ELSE matching
        /\ UNCHANGED <<ledger, client, base, pc, height, start, expected, sent, breaks>>
    BY <1>9 DEF Visit
  <2>. HIDE DEF tx
  <2>4. tx.id \in TxIDs
    BY <2>2 DEF Txs
  <2>5. matching' \in Seq(TxIDs)
    BY <2>3, <2>4, InBounds, Appended
  <2>6. previous' \in TxIDs \cup {NoTx}
    BY <2>3 DEF Remaining, TypeOK
  <2>. QED  BY <2>1, <2>3, <2>5, <2>6 DEF TypeOK, client
<1>10. CASE Send
  <2>1. expected < Len(ledger) /\ expected + 1 \in 0..MaxBlocks
    BY <1>10, InBounds DEF Send, Stage
  <2>2. sent' \in Seq(TxIDs)
    BY <1>10, InBounds, Joined DEF Send
  <2>3. <<0, 1>> \in (0..MaxBlocks - 1) \X (1..BlockSize + 1) /\ <<>> \in Seq(TxIDs)
    BY EmptySeq
  <2>. QED  BY <1>10, <2>1, <2>2, <2>3 DEF TypeOK, Send, client
<1>11. CASE Break
  <2>1. <<0, 1>> \in (0..MaxBlocks - 1) \X (1..BlockSize + 1) /\ <<>> \in Seq(TxIDs)
    BY EmptySeq
  <2>2. breaks + 1 \in 0..MaxBreaks
    BY <1>11 DEF Break, TypeOK
  <2>. QED  BY <1>11, <2>1, <2>2 DEF TypeOK, Break, client
<1>. QED  BY <1>1, <1>2, <1>3, <1>4, <1>5, <1>6, <1>7, <1>8, <1>9, <1>10, <1>11 DEF Next, Serve


(* The steps.                                                              *)

LEMMA Kept ==
  ASSUME IInv, UNCHANGED <<ledger, got, sent, matching>>
  PROVE  OwnIDs' /\ Order'
<1>1. Mine' = Mine
  BY MineStays
<1>2. OwnIDs'
  BY DEF IInv, OwnIDs
<1>3. Order'
  BY <1>1 DEF IInv, Order, Events, Increasing, Precedes
<1>. QED  BY <1>2, <1>3

LEMMA ProcessedKept ==
  ASSUME IInv, UNCHANGED <<ledger, got>>, base' = base \/ got = <<>>
  PROVE  Processed'
BY MineStays DEF IInv, Processed, In

\* A client that has processed events has a checkpoint.
LEMMA Marked ==
  ASSUME TypeOK, Stage, got # <<>>
  PROVE  mark = Last(got) /\ mark # NoTx /\ mark \in TxIDs
BY InBounds, Last1, IDs DEF Stage

LEMMA Connecting ==
  ASSUME IInv, TypeOK', \/ Subscribe \/ CheckpointFound \/ CheckpointNotFound
                        \/ \E id \in TxIDs : CheckpointTransaction(id)
  PROVE  IInv'
<1>. USE DEF IInv
<1>1. UNCHANGED <<ledger, got, sent, matching, base>>
  BY DEF Subscribe, CheckpointFound, CheckpointNotFound, CheckpointTransaction, client, cursor, visited
<1>2. OwnIDs' /\ Order' /\ Processed'
  BY <1>1, Kept, ProcessedKept
<1>3. CASE Subscribe
  <2>1. pc = "off" /\ pc' = "setup" /\ UNCHANGED <<ledger, client, base, cursor, visited, sent>>
    BY <1>3 DEF Subscribe
  <2>2. Stage'
    BY <2>1 DEF Stage, Streaming, client, cursor, visited
  <2>3. Complete'
    BY <2>1 DEF Complete, Streaming
  <2>. QED  BY <1>2, <2>2, <2>3
<1>4. ASSUME NEW id \in TxIDs, CheckpointTransaction(id) PROVE IInv'
  <2>1. /\ pc = "off" /\ pc' = "off" /\ got = <<>>
        /\ UNCHANGED <<ledger, got, base, cursor, visited, sent>>
    BY <1>4 DEF CheckpointTransaction
  <2>2. Stage'
    BY <2>1 DEF Stage, Streaming, cursor, visited
  <2>3. Complete'
    BY <2>1 DEF Complete, Streaming
  <2>. QED  BY <1>2, <2>2, <2>3
<1>5. CASE CheckpointFound
  <2>1. /\ pc = "lookup" /\ previous = mark /\ mark # NoTx /\ sent = <<>> /\ matching = <<>>
        /\ expected <= height /\ height <= Len(ledger)
    BY <1>5 DEF CheckpointFound, Stage, Streaming
  <2>2. /\ \/ pc' = "refused"
           \/ pc' = "open" /\ expected' <= height
        /\ UNCHANGED <<ledger, client, base, height, previous, visited, sent>>
    BY <1>5, InBounds, IDs DEF CheckpointFound, Stage
  <2>3. expected' \in Nat /\ height \in Nat /\ Len(ledger) \in Nat
    BY InBounds, Natural DEF TypeOK
  <2>4. Stage'
    BY <2>1, <2>2, <2>3 DEF Stage, Streaming, client, visited
  <2>5. Complete'
    BY <2>1, <2>2 DEF Complete, Streaming
  <2>. QED  BY <1>2, <2>4, <2>5
<1>6. CASE CheckpointNotFound
  <2>1. /\ pc = "lookup" /\ previous = mark /\ mark # NoTx /\ sent = <<>> /\ matching = <<>>
        /\ expected <= height /\ height <= Len(ledger)
    BY <1>6 DEF CheckpointNotFound, Stage, Streaming
  <2>2. pc' = "open" /\ UNCHANGED <<ledger, client, base, cursor, visited, sent>>
    BY <1>6 DEF CheckpointNotFound
  <2>3. expected \in Nat /\ height \in Nat /\ Len(ledger) \in Nat
    BY InBounds
  <2>4. Stage'
    BY <2>1, <2>2, <2>3 DEF Stage, Streaming, client, cursor, visited
  <2>5. Complete'
    BY <2>1, <2>2 DEF Complete, Streaming, cursor
  <2>. QED  BY <1>2, <2>4, <2>5
<1>. QED  BY <1>3, <1>4, <1>5, <1>6

LEMMA Opening ==
  ASSUME IInv, TypeOK', NEW h \in 0..Len(ledger), ReadHeight(h)
  PROVE  IInv'
<1>. USE DEF IInv
<1>. DEFINE first == IF Requested = NextCommit THEN h ELSE Requested
<1>1. /\ pc = "setup" /\ height' = h /\ start' = first
      /\ expected' = (IF first < h THEN first ELSE h)
      /\ previous' = mark /\ pc' = (IF mark = NoTx THEN "open" ELSE "lookup")
      /\ base' = (IF got # <<>> THEN base ELSE IF mark # NoTx THEN mark ELSE <<first, 0>>)
      /\ UNCHANGED <<ledger, client, visited, sent, breaks>>
  BY DEF ReadHeight
<1>. HIDE DEF first
<1>2. first \in Nat /\ h \in Nat /\ Len(ledger) \in Nat /\ h <= Len(ledger)
  BY <1>1, InBounds, Natural DEF TypeOK
<1>3. expected' <= first /\ expected' <= h /\ expected' \in Nat
  BY <1>1, <1>2
<1>4. sent = <<>> /\ matching = <<>>
  BY <1>1 DEF Stage, Streaming
<1>5. mark = NoTx => got = <<>>
  BY Marked
<1>6. UNCHANGED <<ledger, got, sent, matching, mark>>
  BY <1>1 DEF client, visited
<1>7. OwnIDs' /\ Order' /\ Processed'
  BY <1>1, <1>6, Kept, ProcessedKept
<1>8. Stage'
  <2>1. expected' <= Len(ledger')
    BY <1>2, <1>3, <1>6
  <2>2. CASE mark = NoTx
    BY <1>1, <1>2, <1>3, <1>4, <1>5, <1>6, <2>1, <2>2 DEF Stage, Streaming
  <2>3. CASE mark # NoTx
    BY <1>1, <1>2, <1>3, <1>4, <1>5, <1>6, <2>1, <2>3 DEF Stage, Streaming
  <2>. QED  BY <2>2, <2>3
<1>9. Complete'
  <2>1. CASE mark = NoTx
    <3>1. /\ base' = <<first, 0>> /\ Ahead' = <<expected', 1>>
          /\ got' = <<>> /\ sent' = <<>> /\ matching' = <<>>
      BY <1>1, <1>4, <1>5, <1>6, <2>1 DEF Ahead
    <3>2. ASSUME NEW id \in Mine', Before(base', id), Before(id, Ahead') PROVE FALSE
      <4>1. id \in TxIDs
        BY DEF Mine
      <4>2. id[1] \in Nat /\ id[2] \in Nat /\ id[2] >= 1
        BY <4>1, IDs, Natural
      <4>. QED  BY <1>2, <1>3, <3>1, <3>2, <4>2 DEF Before
    <3>. QED  BY <3>1, <3>2 DEF Complete, Below
  <2>2. CASE mark # NoTx
    BY <1>1, <2>2 DEF Complete, Streaming
  <2>. QED  BY <2>1, <2>2
<1>. QED  BY <1>7, <1>8, <1>9


\* What lies below a place lies below any later one.
LEMMA BelowLater ==
  ASSUME NEW s \in Seq(TxIDs), NEW p \in Places, NEW q \in Places, Below(s, p), Before(p, q)
  PROVE  Below(s, q)
<1>1. \A i \in 1..Len(s) : s[i] \in Places
  BY ElementOfSeq, IDs
<1>. QED  BY <1>1, BeforeTransitive DEF Below

LEMMA Delivering ==
  ASSUME IInv, TypeOK', NEW n \in 0..MaxBlocks - 1, Deliver(n)
  PROVE  IInv'
<1>. USE DEF IInv
<1>1. /\ pc = "open" /\ n = expected /\ n < Len(ledger)
      /\ UNCHANGED <<ledger, client, base, height, start, previous, matching, sent>>
      /\ \/ n < start /\ expected' = expected + 1 /\ pc' = "open" /\ place' = place
         \/ ~(n < start) /\ pc' = "visit" /\ place' = <<n, 1>> /\ expected' = expected
  BY DEF Deliver, Due
<1>2. UNCHANGED <<got, mark>>
  BY <1>1 DEF client
<1>3. OwnIDs' /\ Order' /\ Processed'
  BY <1>1, <1>2, Kept, ProcessedKept
<1>4. expected \in Nat /\ start \in Nat /\ Len(ledger) \in Nat
  BY InBounds
<1>5. Mine' = Mine
  BY <1>1, MineStays
<1>6. CASE ~(n < start) /\ pc' = "visit" /\ place' = <<n, 1>> /\ expected' = expected
  <2>1. Len(ledger[expected + 1]) \in Nat
    BY <1>1, <1>4, Blocks DEF Block
  <2>2. place'[1] = expected' /\ place'[2] <= Len(ledger[expected + 1]) + 1
    BY <1>1, <1>6, <2>1
  <2>3. Stage'
    BY <1>1, <1>2, <1>4, <1>6, <2>2 DEF Stage, Streaming
  <2>4. Ahead' = Ahead
    BY <1>1, <1>6 DEF Ahead
  <2>5. Complete'
    BY <1>1, <1>2, <1>5, <2>4 DEF Complete, Streaming, Below, In
  <2>. QED  BY <1>3, <2>3, <2>5
<1>7. CASE n < start /\ expected' = expected + 1 /\ pc' = "open" /\ place' = place
  <2>1. Stage'
    BY <1>1, <1>2, <1>4, <1>7 DEF Stage, Streaming
  <2>2. Complete'
    <3>1. SUFFICES ASSUME previous = NoTx PROVE Complete'
      BY <1>1 DEF Complete
    <3>2. mark = NoTx /\ got = <<>> /\ sent = <<>> /\ matching = <<>> /\ base = <<start, 0>>
      BY <1>1, <1>7, <3>1 DEF Stage, Streaming
    <3>3. Ahead' = <<expected + 1, 1>>
      BY <1>7 DEF Ahead
    <3>4. ASSUME NEW id \in Mine', Before(base', id), Before(id, Ahead') PROVE FALSE
      <4>1. id \in TxIDs
        BY DEF Mine
      <4>2. id[1] \in Nat /\ id[2] \in Nat /\ id[2] >= 1
        BY <4>1, IDs, Natural
      <4>. QED  BY <1>1, <1>4, <1>7, <3>2, <3>3, <3>4, <4>2 DEF Before
    <3>5. got' = <<>> /\ sent' = <<>> /\ matching' = <<>>
      BY <1>1, <1>2, <3>2
    <3>. QED  BY <3>4, <3>5 DEF Complete, Below
  <2>. QED  BY <1>3, <2>1, <2>2
<1>. QED  BY <1>1, <1>6, <1>7

\* From one transaction of a block to the next nothing lies between.
LEMMA NextPlace ==
  ASSUME NEW p \in Places, NEW q \in Places, q = <<p[1], p[2] + 1>>
  PROVE  /\ Before(p, q)
         /\ \A id \in Places : Before(id, q) => Before(id, p) \/ id = p
<1>1. p[1] \in Nat /\ p[2] \in Nat /\ q[1] = p[1] /\ q[2] = p[2] + 1 /\ p = <<p[1], p[2]>>
  BY DEF Places
<1>2. ASSUME NEW id \in Places, Before(id, q), ~Before(id, p) PROVE id = p
  <2>1. id[1] \in Nat /\ id[2] \in Nat /\ id = <<id[1], id[2]>>
    BY DEF Places
  <2>2. id[1] = p[1] /\ id[2] = p[2]
    BY <1>1, <1>2, <2>1 DEF Before
  <2>. QED  BY <1>1, <2>1, <2>2
<1>. QED  BY <1>1, <1>2 DEF Before

LEMMA Visiting ==
  ASSUME IInv, TypeOK', Visit
  PROVE  IInv'
<1>. USE DEF IInv
<1>. DEFINE tx == Block(place[1])[place[2]]
<1>1. /\ pc = "visit" /\ previous' = Remaining(tx)
      /\ matching' = IF Matches(tx) THEN Append(matching, tx.id) ELSE matching
      /\ UNCHANGED <<ledger, client, base, pc, height, start, expected, sent>>
  BY DEF Visit
<1>2. /\ place \in TxIDs /\ place[1] = expected /\ Stored(place)
      /\ place[2] \in 1..Len(ledger[expected + 1]) /\ Len(ledger[expected + 1]) \in Nat
      /\ place' = <<place[1], place[2] + 1>> /\ place' \in Places
      /\ tx \in Txs /\ Kind(place) = tx.kind /\ (Kind(place) # "rejected" => tx.id = place)
  BY Visited
<1>. HIDE DEF tx
<1>3. UNCHANGED <<got, mark>>
  BY <1>1 DEF client
<1>4. Mine' = Mine
  BY <1>1, MineStays
<1>5. Ahead = place /\ Ahead' = place'
  BY <1>1 DEF Ahead
<1>6. place \in Places
  BY <1>2, IDs
<1>7. /\ Before(place, place')
      /\ \A id \in Places : Before(id, place') => Before(id, place) \/ id = place
  BY <1>2, <1>6, NextPlace
<1>8. got \in Seq(TxIDs) /\ sent \in Seq(TxIDs) /\ matching \in Seq(TxIDs)
  BY InBounds
<1>9. Event(tx) => tx.id = place
  BY <1>2 DEF Event
<1>10. Processed'
  BY <1>1, <1>3, ProcessedKept
<1>11. OwnIDs'
  BY <1>1 DEF OwnIDs
<1>12. CASE Matches(tx)
  <2>1. tx.kind = "mine" /\ previous = NoTx /\ tx.id = place /\ place \in Mine
    BY <1>2, <1>12 DEF Matches, Mine
  <2>2. matching' = Append(matching, place)
    BY <1>1, <1>12, <2>1
  <2>3. previous' = NoTx
    BY <1>1, <2>1 DEF Remaining
  <2>4. Below(got, place) /\ Below(sent, place) /\ Below(matching, place)
    BY <1>1, <1>5, <2>1 DEF Complete, Streaming
  <2>5. /\ Events(matching') /\ Increasing(matching')
        /\ Precedes(got, matching') /\ Precedes(sent, matching') /\ Below(matching', place')
        /\ \A x : In(x, matching') <=> In(x, matching) \/ x = place
    <3>1. Below(matching, place')
      BY <1>2, <1>6, <1>7, <1>8, <2>4, BelowLater
    <3>2. Events(matching) /\ Increasing(matching) /\ Precedes(got, matching) /\ Precedes(sent, matching)
      BY DEF Order
    <3>3. Events(matching') /\ Increasing(matching')
      BY <1>2, <1>8, <2>1, <2>2, <2>4, <3>2, Appended
    <3>4. Precedes(got, matching') /\ Precedes(sent, matching')
      BY <1>2, <1>8, <2>2, <2>4, <3>2, Appended
    <3>5. Below(matching', place')
      <4>1. \A q : Below(matching, q) /\ Before(place, q) => Below(Append(matching, place), q)
        BY <1>2, <1>8, Appended
      <4>. QED  BY <1>7, <2>2, <3>1, <4>1
    <3>6. \A x : In(x, matching') <=> In(x, matching) \/ x = place
      <4>1. \A x : In(x, Append(matching, place)) <=> In(x, matching) \/ x = place
        BY <1>2, <1>8, Appended
      <4>. QED  BY <2>2, <4>1
    <3>. QED  BY <3>3, <3>4, <3>5, <3>6
  <2>6. Order'
    BY <1>1, <1>3, <1>4, <2>5 DEF Order, Events, Increasing, Precedes
  <2>7. Stage'
    <3>1. place'[1] = expected /\ place'[2] <= Len(ledger[expected + 1]) + 1
      BY <1>2
    <3>. QED  BY <1>1, <1>3, <2>1, <2>3, <3>1 DEF Stage, Streaming
  <2>8. Complete'
    <3>1. Below(got, place') /\ Below(sent, place')
      BY <1>2, <1>6, <1>7, <1>8, <2>4, BelowLater
    <3>2. ASSUME NEW id \in Mine, Before(base, id), Before(id, place')
          PROVE  In(id, got) \/ In(id, sent) \/ In(id, matching')
      <4>1. Before(id, place) \/ id = place
        BY <1>7, <3>2, MineIDs
      <4>2. Before(id, place) => In(id, got) \/ In(id, sent) \/ In(id, matching)
        BY <1>1, <1>5, <2>1, <3>2 DEF Complete, Streaming
      <4>. QED  BY <2>5, <4>1, <4>2
    <3>. QED  BY <1>1, <1>3, <1>4, <1>5, <2>5, <3>1, <3>2 DEF Complete, Below, In
  <2>. QED  BY <1>10, <1>11, <2>6, <2>7, <2>8
<1>13. CASE ~Matches(tx)
  <2>1. matching' = matching
    BY <1>1, <1>13
  <2>2. Order'
    BY <1>1, <1>3, <2>1, Kept
  <2>3. previous' # NoTx => previous' = previous
    BY <1>1 DEF Remaining
  <2>4. Stage'
    <3>1. previous # NoTx /\ previous' = NoTx => ~(expected < start)
      BY <1>1, InBounds DEF Stage
    <3>. QED  BY <1>1, <1>2, <1>3, <2>1, <2>3, <3>1, InBounds DEF Stage, Streaming
  <2>5. Complete'
    <3>1. SUFFICES ASSUME previous' = NoTx PROVE Complete'
      BY DEF Complete
    <3>2. CASE previous = NoTx
      <4>1. place \notin Mine
        BY <1>2, <1>13, <3>2 DEF Matches, Mine
      <4>2. Below(got, place) /\ Below(sent, place) /\ Below(matching, place)
        BY <1>1, <1>5, <3>2 DEF Complete, Streaming
      <4>3. Below(got, place') /\ Below(sent, place') /\ Below(matching, place')
        BY <1>2, <1>6, <1>7, <1>8, <4>2, BelowLater
      <4>4. ASSUME NEW id \in Mine, Before(base, id), Before(id, place')
            PROVE  In(id, got) \/ In(id, sent) \/ In(id, matching)
        <5>1. Before(id, place)
          BY <1>7, <4>1, <4>4, MineIDs
        <5>. QED  BY <1>1, <1>5, <3>2, <4>4, <5>1 DEF Complete, Streaming
      <4>. QED  BY <1>1, <1>3, <1>4, <1>5, <2>1, <4>3, <4>4 DEF Complete, Below, In
    <3>3. CASE previous # NoTx
      <4>1. place = mark /\ mark # NoTx /\ sent = <<>> /\ matching = <<>>
        BY <1>1, <1>9, <3>1, <3>3 DEF Remaining, Stage, Streaming
      <4>2. Below(got, place')
        <5>1. SUFFICES ASSUME NEW i \in 1..Len(got) PROVE Before(got[i], place')
          BY DEF Below
        <5>2. got # <<>> /\ got[i] \in Places
          BY <1>8, Empty, ElementOfSeq, IDs
        <5>3. Len(got) \in Nat /\ got[Len(got)] = place /\ Len(got) \in 1..Len(got)
          BY <1>8, <4>1, <5>2, Last1, Marked
        <5>4. i = Len(got) \/ i < Len(got)
          BY <5>3
        <5>5. got[i] = place \/ Before(got[i], place)
          BY <5>3, <5>4 DEF Order, Increasing
        <5>. QED  BY <1>2, <1>6, <1>7, <5>2, <5>5, BeforeTransitive
      <4>3. ASSUME NEW id \in Mine, Before(base, id), Before(id, place')
            PROVE  In(id, got)
        <5>1. Before(id, place) \/ id = place
          BY <1>7, <4>3, MineIDs
        <5>2. ~Before(place, id) /\ id \in Places
          BY <1>6, <5>1, BeforeStrict, MineIDs
        <5>3. got # <<>>
          <6>1. got = <<>> => base = place
            BY <1>1, <4>1 DEF Stage, Streaming
          <6>. QED  BY <4>3, <5>2, <6>1
        <5>. QED  BY <4>1, <4>3, <5>2, <5>3, Marked DEF Processed
      <4>4. Below(sent', place') /\ Below(matching', place')
        BY <1>1, <2>1, <4>1, Empty
      <4>. QED  BY <1>1, <1>3, <1>4, <1>5, <4>2, <4>3, <4>4 DEF Complete, Below, In
    <3>. QED  BY <3>2, <3>3
  <2>. QED  BY <1>10, <1>11, <2>2, <2>4, <2>5
<1>. QED  BY <1>12, <1>13


LEMMA Sending ==
  ASSUME IInv, TypeOK', Send
  PROVE  IInv'
<1>. USE DEF IInv
<1>1. /\ pc = "visit" /\ pc' = "open" /\ ~Stored(place) /\ expected' = expected + 1
      /\ sent' = sent \o matching /\ matching' = <<>>
      /\ UNCHANGED <<ledger, client, base, height, start, previous>>
  BY DEF Send
<1>2. UNCHANGED <<got, mark>>
  BY <1>1 DEF client
<1>3. Mine' = Mine
  BY <1>1, MineStays
<1>4. /\ got \in Seq(TxIDs) /\ sent \in Seq(TxIDs) /\ matching \in Seq(TxIDs)
      /\ place \in Places /\ expected \in Nat /\ start \in Nat /\ Len(ledger) \in Nat
  BY InBounds
<1>5. place[1] = expected /\ expected < Len(ledger) /\ start <= expected
  BY <1>1 DEF Stage
<1>. DEFINE next == <<expected + 1, 1>>
<1>6. next \in Places /\ Ahead' = next /\ Ahead = place
  BY <1>1, <1>4 DEF Places, Ahead
<1>7. Before(place, next)
  BY <1>4, <1>5 DEF Places, Before
<1>8. \A id \in Mine : Before(id, next) => Before(id, place)
  <2>1. /\ DOMAIN Block(expected) = 1..Len(Block(expected)) /\ Len(Block(expected)) \in Nat
    BY <1>4, <1>5, Blocks
  <2>2. place[2] \in Nat /\ ~(place[2] \in 1..Len(Block(expected)))
    BY <1>1, <1>4, <1>5, <2>1 DEF Stored, Places
  <2>3. place[2] = 0 \/ place[2] > Len(Block(expected))
    BY <2>1, <2>2
  <2>4. place[2] >= 1
    BY Natural DEF TypeOK
  <2>5. ASSUME NEW id \in Mine, Before(id, next) PROVE Before(id, place)
    <3>1. id[1] \in Nat /\ id[2] \in Nat /\ id[2] >= 1 /\ Stored(id)
      BY MineIDs, IDs, Natural
    <3>2. id[1] < expected \/ id[1] = expected
      BY <1>4, <2>5, <3>1 DEF Before
    <3>3. id[1] = expected => id[2] < place[2]
      BY <2>1, <2>2, <2>3, <2>4, <3>1 DEF Stored
    <3>. QED  BY <1>5, <3>2, <3>3 DEF Before
  <2>. QED  BY <2>5
<1>. HIDE DEF next
<1>9. OwnIDs' /\ Processed'
  BY <1>1, <1>2, ProcessedKept DEF OwnIDs
<1>10. Order'
  <2>1. Events(sent') /\ Increasing(sent') /\ Precedes(got, sent')
    BY <1>1, <1>4, Joined DEF Order
  <2>. QED  BY <1>1, <1>2, <1>3, <2>1, Empty DEF Order, Events, Increasing, Precedes
<1>11. Stage'
  <2>1. previous # NoTx => sent' = <<>>
    <3>1. <<>> \o <<>> = <<>>
      OBVIOUS
    <3>. QED  BY <1>1, <3>1 DEF Stage
  <2>. QED  BY <1>1, <1>2, <1>4, <1>5, <2>1 DEF Stage, Streaming
<1>12. Complete'
  <2>1. SUFFICES ASSUME previous = NoTx PROVE Complete'
    BY <1>1 DEF Complete
  <2>2. Below(got, place) /\ Below(sent, place) /\ Below(matching, place)
    BY <1>1, <1>6, <2>1 DEF Complete, Streaming
  <2>3. Below(got, next) /\ Below(sent', next)
    <3>1. Below(got, next) /\ Below(sent, next) /\ Below(matching, next)
      BY <1>4, <1>6, <1>7, <2>2, BelowLater
    <3>2. \A q : Below(sent, q) /\ Below(matching, q) => Below(sent \o matching, q)
      BY <1>4, Joined
    <3>. QED  BY <1>1, <3>1, <3>2
  <2>4. ASSUME NEW id \in Mine, Before(base, id), Before(id, next)
        PROVE  In(id, got) \/ In(id, sent')
    <3>1. In(id, got) \/ In(id, sent) \/ In(id, matching)
      BY <1>1, <1>6, <1>8, <2>1, <2>4 DEF Complete, Streaming
    <3>2. In(id, sent \o matching) <=> In(id, sent) \/ In(id, matching)
      BY <1>4, Joined
    <3>. QED  BY <1>1, <3>1, <3>2
  <2>5. Below(matching', next)
    BY <1>1, Empty
  <2>. QED  BY <1>1, <1>2, <1>3, <1>6, <2>3, <2>4, <2>5 DEF Complete, Below, In
<1>. QED  BY <1>9, <1>10, <1>11, <1>12

LEMMA AfterHead ==
  ASSUME NEW h, NEW s, Precedes(<<h>>, s), NEW x, In(x, s)
  PROVE  Before(h, x)
BY DEF Precedes, In

LEMMA Processing ==
  ASSUME IInv, TypeOK', ProcessEvent
  PROVE  IInv'
<1>. USE DEF IInv
<1>. DEFINE h == Head(sent)
            rest == Tail(sent)
<1>1. /\ sent # <<>> /\ got' = Append(got, h) /\ mark' = h /\ sent' = rest
      /\ UNCHANGED <<ledger, position, base, pc, cursor, visited>>
  BY DEF ProcessEvent
<1>2. UNCHANGED <<ledger, base, pc, height, start, expected, previous, place, matching>>
  BY <1>1 DEF cursor, visited
<1>3. Streaming /\ previous = NoTx
  BY <1>1 DEF Stage
<1>4. /\ got \in Seq(TxIDs) /\ sent \in Seq(TxIDs) /\ matching \in Seq(TxIDs)
      /\ Ahead \in Places
  BY InBounds
<1>5. Mine' = Mine /\ Ahead' = Ahead
  BY <1>2, MineStays DEF Ahead
<1>6. /\ h \in TxIDs /\ rest \in Seq(TxIDs) /\ h \in Mine /\ Events(rest)
      /\ Precedes(<<h>>, rest) /\ Increasing(rest)
      /\ Below(got, h) /\ Precedes(got, rest)
      /\ Precedes(<<h>>, matching) /\ Precedes(rest, matching)
      /\ \A x : In(x, sent) <=> x = h \/ In(x, rest)
  BY <1>1, <1>4, HeadAndTail DEF Order
<1>7. Below(got, Ahead) /\ Before(h, Ahead) /\ Below(rest, Ahead) /\ Below(matching, Ahead)
  BY <1>1, <1>3, <1>4, HeadAndTail DEF Complete
<1>. HIDE DEF h, rest
<1>8. /\ Append(got, h) # <<>> /\ Last(Append(got, h)) = h
      /\ Events(Append(got, h)) /\ Increasing(Append(got, h))
      /\ Precedes(Append(got, h), rest) /\ Precedes(Append(got, h), matching)
  BY <1>4, <1>6, Appended DEF Order
<1>9. \A x : In(x, Append(got, h)) <=> In(x, got) \/ x = h
  BY <1>4, <1>6, Appended
<1>10. Below(Append(got, h), Ahead)
  <2>1. \A q : Below(got, q) /\ Before(h, q) => Below(Append(got, h), q)
    BY <1>4, <1>6, Appended
  <2>. QED  BY <1>7, <2>1
<1>11. OwnIDs'
  BY <1>2 DEF OwnIDs
<1>12. Order'
  BY <1>1, <1>2, <1>5, <1>6, <1>8 DEF Order, Events, Increasing, Precedes
<1>13. Stage'
  <2>1. ~(expected < start)
    BY <1>1, <1>3 DEF Stage
  <2>. QED  BY <1>1, <1>2, <1>3, <1>8, <2>1 DEF Stage, Streaming
<1>14. \A id \in Mine : Before(base, id) /\ Before(id, Ahead) =>
         In(id, got) \/ id = h \/ In(id, rest) \/ In(id, matching)
  BY <1>3, <1>6 DEF Complete
<1>15. Complete'
  <2>1. \A id \in Mine : Before(base, id) /\ Before(id, Ahead) =>
          In(id, got') \/ In(id, sent') \/ In(id, matching)
    BY <1>1, <1>9, <1>14
  <2>2. Below(got', Ahead) /\ Below(sent', Ahead)
    BY <1>1, <1>7, <1>10
  <2>. QED  BY <1>2, <1>5, <1>7, <2>1, <2>2 DEF Complete, Below, In
<1>16. Processed'
  <2>1. ASSUME NEW id \in Mine, Before(base, id), ~Before(h, id) PROVE In(id, got')
    <3>1. id = h \/ Before(id, h)
      BY <1>6, <2>1, BeforeTotal, MineIDs
    <3>2. Before(id, Ahead)
      BY <1>4, <1>6, <1>7, <2>1, <3>1, BeforeTransitive, MineIDs
    <3>3. ~In(id, rest) /\ ~In(id, matching)
      BY <1>6, <2>1, AfterHead
    <3>. QED  BY <1>1, <1>9, <1>14, <2>1, <3>2, <3>3
  <2>2. Last(got') = h
    BY <1>1, <1>8
  <2>. QED  BY <1>2, <1>5, <2>1, <2>2 DEF Processed, In
<1>. QED  BY <1>11, <1>12, <1>13, <1>15, <1>16

LEMMA Breaking ==
  ASSUME IInv, TypeOK', Break
  PROVE  IInv'
<1>. USE DEF IInv
<1>1. /\ pc' = "off" /\ sent' = <<>> /\ matching' = <<>> /\ previous' = NoTx
      /\ UNCHANGED <<ledger, got, mark, base>>
  BY DEF Break, client
<1>2. OwnIDs' /\ Processed'
  BY <1>1, ProcessedKept DEF OwnIDs
<1>3. Order'
  BY <1>1, MineStays, Empty DEF Order, Events, Increasing, Precedes
<1>4. Stage'
  BY <1>1 DEF Stage, Streaming
<1>5. Complete'
  BY <1>1 DEF Complete, Streaming
<1>. QED  BY <1>2, <1>3, <1>4, <1>5

LEMMA Committing ==
  ASSUME IInv, TypeOK', NEW b \in NewBlocks, CommitBlock(b)
  PROVE  IInv'
<1>. USE DEF IInv
<1>1. /\ Len(ledger') = Len(ledger) + 1 /\ Len(ledger) \in Nat
      /\ \A n \in 0..Len(ledger) - 1 : ledger'[n + 1] = ledger[n + 1]
      /\ ledger'[Len(ledger) + 1] = b
      /\ Mine \subseteq Mine'
      /\ \A id \in Mine' : id \in Mine \/ id[1] = Len(ledger)
  BY Committed
<1>2. UNCHANGED <<got, mark, base, pc, height, start, expected, previous, place, matching, sent>>
  BY DEF CommitBlock, client, cursor, visited
<1>3. /\ got \in Seq(TxIDs) /\ expected \in Nat /\ start \in Nat /\ height \in Nat
      /\ place \in Places
  BY InBounds
<1>4. OwnIDs'
  <2>1. ASSUME NEW n \in 0..Len(ledger') - 1, NEW i \in 1..Len(ledger'[n + 1]),
               ledger'[n + 1][i].kind # "rejected"
        PROVE  ledger'[n + 1][i].id = <<n, i>>
    <3>1. CASE n \in 0..Len(ledger) - 1
      BY <1>1, <2>1, <3>1 DEF OwnIDs
    <3>2. CASE n = Len(ledger)
      BY <1>1, <2>1, <3>2, NewBlock
    <3>. QED  BY <1>1, <3>1, <3>2
  <2>. QED  BY <2>1 DEF OwnIDs
<1>5. Order'
  BY <1>1, <1>2 DEF Order, Events, Increasing, Precedes
<1>6. Stage'
  <2>1. pc = "visit" => ledger'[expected + 1] = ledger[expected + 1]
    <3>1. pc = "visit" => expected \in 0..Len(ledger) - 1
      BY <1>1, <1>3 DEF Stage
    <3>2. \A n \in 0..Len(ledger) - 1 : ledger'[n + 1] = ledger[n + 1]
      BY <1>1
    <3>. QED  BY <3>1, <3>2
  <2>2. /\ \A i \in Nat : i <= Len(ledger) => i <= Len(ledger')
        /\ \A i \in Nat : i < Len(ledger) => i < Len(ledger')
    BY <1>1
  <2>3. pc = "lookup" => mark # NoTx /\ expected <= height /\ height <= Len(ledger')
    BY <1>3, <2>2 DEF Stage
  <2>4. Streaming => expected <= Len(ledger')
    BY <1>3, <2>2 DEF Stage
  <2>5. pc = "visit" => /\ place[1] = expected /\ expected < Len(ledger') /\ start <= expected
                        /\ place[2] <= Len(ledger'[expected + 1]) + 1
    BY <1>3, <2>1, <2>2 DEF Stage
  <2>. QED  BY <1>2, <2>3, <2>4, <2>5 DEF Stage, Streaming
<1>7. Complete'
  <2>1. SUFFICES ASSUME Streaming, previous = NoTx PROVE Complete'
    BY <1>2 DEF Complete, Streaming
  <2>2. Ahead' = Ahead
    BY <1>2 DEF Ahead
  <2>3. ASSUME NEW id \in Mine', Before(id, Ahead) PROVE id \in Mine
    <3>1. id \in TxIDs
      BY DEF Mine
    <3>2. id[1] \in Nat /\ id[2] \in Nat /\ id[2] >= 1
      BY <3>1, IDs, Natural
    <3>3. expected <= Len(ledger) /\ (pc = "visit" => place[1] = expected /\ expected < Len(ledger))
      BY <2>1 DEF Stage
    <3>4. id[1] # Len(ledger)
      BY <1>1, <1>3, <2>3, <3>2, <3>3 DEF Ahead, Before
    <3>. QED  BY <1>1, <3>4
  <2>. QED  BY <1>2, <2>1, <2>2, <2>3 DEF Complete, Below, In
<1>8. Processed'
  <2>1. ASSUME got # <<>>, NEW id \in Mine', ~Before(Last(got), id) PROVE id \in Mine
    <3>1. Last(got) \in Mine
      BY <1>3, <2>1, Last1 DEF Order, Events
    <3>2. Last(got)[1] < Len(ledger)
      BY <3>1, MineIDs DEF Stored
    <3>3. id[1] # Len(ledger)
      BY <2>1, <3>2 DEF Before
    <3>. QED  BY <1>1, <3>3
  <2>. QED  BY <1>2, <2>1 DEF Processed, In
<1>. QED  BY <1>4, <1>5, <1>6, <1>7, <1>8

LEMMA IInvInit == Init => IInv
<1>. SUFFICES ASSUME Init PROVE IInv
  OBVIOUS
<1>. USE Natural DEF Init
<1>1. <<>> \in Seq(TxIDs) /\ <<>> \in Seq(Seq([id : TxIDs, kind : Kinds])) /\ Len(<<>>) = 0
  BY EmptySeq
<1>2. TypeOK
  BY <1>1 DEF TypeOK, NextCommit
<1>3. OwnIDs /\ Order
  BY <1>1, Empty DEF OwnIDs, Order
<1>4. Stage /\ Complete /\ Processed
  BY DEF Stage, Complete, Processed, Streaming
<1>. QED  BY <1>2, <1>3, <1>4 DEF IInv

LEMMA IInvNext == IInv /\ [Next]_vars => IInv'
<1>1. ASSUME IInv, UNCHANGED vars PROVE IInv'
  <2>1. UNCHANGED <<ledger, position, mark, got, base, pc, height, start, expected, previous,
                    place, matching, sent, breaks>>
    BY <1>1 DEF vars, client, cursor, visited
  <2>2. OwnIDs' /\ Order' /\ Processed'
    BY <1>1, <2>1, Kept, ProcessedKept
  <2>3. TypeOK' /\ Stage'
    BY <1>1, <2>1 DEF IInv, TypeOK, Stage, Streaming
  <2>4. Complete'
    BY <1>1, <2>1, MineStays DEF IInv, Complete, Streaming, Ahead, Below, In
  <2>. QED  BY <2>2, <2>3, <2>4 DEF IInv
<1>2. ASSUME IInv, Next PROVE IInv'
  <2>1. TypeOK'
    BY <1>2, TypeNext
  <2>. QED  BY <1>2, <2>1, Connecting, Opening, Delivering, Visiting, Sending, Processing,
               Breaking, Committing DEF Next, Serve
<1>. QED  BY <1>1, <1>2

(* The theorems.                                                           *)

\* ChaincodeEvents: in every reachable state the stream is complete up to the
\* transaction it looks at, or still looks for its checkpoint and holds nothing.
THEOREM Invariance == Spec => []IInv
<1>1. IInv /\ [Next]_vars => IInv'
  BY IInvNext
<1>. QED  BY <1>1, IInvInit, PTL DEF Spec

\* The state of a subscription and its client is well typed; in particular a
\* stream is never past the bound of the ledger.
THEOREM TypeCorrect == Spec => []TypeOK
<1>1. IInv => TypeOK
  BY DEF IInv
<1>. QED  BY <1>1, Invariance, PTL

\* ChaincodeEvents: across any reconnections the client processes committed
\* events of its chaincode only, each once and in the order of the ledger.
THEOREM OnceInOrder == Spec => []EventsOnceInOrder
<1>1. IInv => EventsOnceInOrder
  <2>. SUFFICES ASSUME IInv PROVE EventsOnceInOrder
    OBVIOUS
  <2>1. got \in Seq(TxIDs) /\ DOMAIN got = 1..Len(got) /\ Len(got) \in Nat
    BY InBounds, LenProperties DEF IInv
  <2>2. \A i \in 1..Len(got) : \A j \in 1..(i - 1) : j \in 1..Len(got) /\ j < i
    BY <2>1
  <2>. QED  BY <2>1, <2>2 DEF IInv, Order, Events, Increasing, EventsOnceInOrder
<1>. QED  BY <1>1, Invariance, PTL

\* ChaincodeEvents: no event between the place where the client began and the
\* last one it processed is missing, whenever streams break and stores lag.
THEOREM NoneMissed == Spec => []NoEventMissed
<1>1. IInv => NoEventMissed
  BY InBounds, ContainsIn DEF IInv, Processed, NoEventMissed
<1>. QED  BY <1>1, Invariance, PTL

=============================================================================

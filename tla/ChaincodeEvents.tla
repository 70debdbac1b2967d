--------------------------- MODULE ChaincodeEvents ---------------------------
(***************************************************************************)
(* A Gateway event subscription (orchestrator/service.go ChaincodeEvents,  *)
(* execution.go streamCommittedBlocks and committedChaincodeEvents) and    *)
(* the client that reconnects with its checkpoint.                         *)
(*                                                                         *)
(* External, as the code uses them: the block store of whichever organi-   *)
(* zation is asked, which may lag behind the ledger; the delivery cursor;  *)
(* the Gateway client, which checkpoints each event it has processed and   *)
(* may start from a transaction it knows to be committed.                  *)
(***************************************************************************)
EXTENDS Naturals, Sequences, SequencesExt

CONSTANTS MaxBlocks,  \* bound on the ledger
          BlockSize,  \* bound on the transactions of a block
          MaxBreaks   \* bound on broken subscriptions

ASSUME EventsAssumption ==
  MaxBlocks \in Nat \ {0} /\ BlockSize \in Nat \ {0} /\ MaxBreaks \in Nat

NextCommit == MaxBlocks + 1

\* A transaction ID is the place where it first occurs: block number, from 0,
\* and place in the block, from 1.
TxIDs == (0..MaxBlocks - 1) \X (1..BlockSize)
NoTx == <<0, 0>>
Before(p, q) == p[1] < q[1] \/ (p[1] = q[1] /\ p[2] < q[2])

\* What a transaction is to a subscriber: a committed event of the requested
\* or of another chaincode, committed without an attributable event, or not
\* marked COMMITTED (perhaps repeating an earlier ID).
Kinds == {"mine", "other", "plain", "rejected"}

VARIABLES
  ledger,    \* the committed blocks; block n is ledger[n + 1]
  position,  \* the client's start position, a block number or NextCommit
  mark,      \* the client's checkpoint
  got,       \* the events the client has processed
  base,      \* the client is owed the events after this place
  pc,        \* the subscription
  height,    \* info.Height
  start,
  expected,
  previous,
  place,     \* the transaction of the delivered block that is looked at
  matching,  \* the events of that block for the client
  sent,      \* events sent to the client and not processed yet
  breaks

client == <<position, mark, got>>
cursor == <<height, start, expected, previous>>
visited == <<place, matching>>
vars == <<ledger, client, base, pc, cursor, visited, sent, breaks>>

Block(n) == ledger[n + 1]
Stored(id) == id[1] < Len(ledger) /\ id[2] \in DOMAIN Block(id[1])
Kind(id) == Block(id[1])[id[2]].kind
Mine == {id \in TxIDs : Stored(id) /\ Kind(id) = "mine"}

TypeOK ==
  /\ ledger \in Seq(Seq([id : TxIDs, kind : Kinds])) /\ Len(ledger) <= MaxBlocks
  /\ \A n \in DOMAIN ledger : Len(ledger[n]) <= BlockSize
  /\ position \in 0..NextCommit
  /\ mark \in TxIDs \cup {NoTx}
  /\ got \in Seq(TxIDs) /\ sent \in Seq(TxIDs) /\ matching \in Seq(TxIDs)
  /\ base \in (0..MaxBlocks) \X (0..BlockSize)
  /\ pc \in {"off", "setup", "lookup", "open", "visit", "refused"}
  /\ height \in 0..MaxBlocks /\ start \in 0..MaxBlocks /\ expected \in 0..MaxBlocks
  /\ previous \in TxIDs \cup {NoTx}
  /\ place \in (0..MaxBlocks - 1) \X (1..BlockSize + 1)
  /\ breaks \in 0..MaxBreaks

Init ==
  /\ ledger = <<>>
  /\ position \in (0..MaxBlocks) \cup {NextCommit}
  /\ mark = NoTx /\ got = <<>> /\ sent = <<>> /\ breaks = 0
  /\ base = <<0, 0>>
  /\ pc = "off"
  /\ height = 0 /\ start = 0 /\ expected = 0 /\ previous = NoTx
  /\ place = <<0, 1>> /\ matching = <<>>

-----------------------------------------------------------------------------
\* Blocks that may come next.
NewBlocks ==
  IF Len(ledger) = MaxBlocks THEN {} ELSE
  LET n == Len(ledger)
      fresh(i) == {[id |-> <<n, i>>, kind |-> k] : k \in Kinds}
      repeated == {[id |-> id, kind |-> "rejected"] : id \in {t \in TxIDs : Stored(t)}}
      txs == repeated \cup UNION {fresh(i) : i \in 1..BlockSize}
  IN {b \in BoundedSeq(txs, BlockSize) : \A i \in DOMAIN b : b[i] \in fresh(i) \cup repeated}

CommitBlock(b) ==
  /\ ledger' = Append(ledger, b)
  /\ UNCHANGED <<client, base, pc, cursor, visited, sent, breaks>>

\* The client starts after a transaction of its own.
CheckpointTransaction(id) ==
  /\ pc = "off" /\ got = <<>> /\ mark = NoTx
  /\ Stored(id) /\ Kind(id) # "rejected"
  /\ mark' = id
  /\ UNCHANGED <<ledger, position, got, base, pc, cursor, visited, sent, breaks>>

\* The client processes the next event and checkpoints it.
ProcessEvent ==
  /\ sent # <<>>
  /\ got' = Append(got, Head(sent))
  /\ mark' = Head(sent)
  /\ sent' = Tail(sent)
  /\ UNCHANGED <<ledger, position, base, pc, cursor, visited, breaks>>

-----------------------------------------------------------------------------
\* A signed request: the block of the checkpoint or the client's position.
Subscribe ==
  /\ pc = "off"
  /\ pc' = "setup"
  /\ UNCHANGED <<ledger, client, base, cursor, visited, sent, breaks>>

Requested == IF mark # NoTx THEN mark[1] ELSE position

\* GetBlockchainInfo at a block store that knows h blocks.
ReadHeight(h) ==
  LET first == IF Requested = NextCommit THEN h ELSE Requested IN
  /\ pc = "setup"
  /\ height' = h
  /\ start' = first
  /\ expected' = IF first < h THEN first ELSE h
  /\ previous' = mark
  /\ pc' = IF mark = NoTx THEN "open" ELSE "lookup"
  /\ base' = IF got # <<>> THEN base ELSE IF mark # NoTx THEN mark ELSE <<first, 0>>
  /\ UNCHANGED <<ledger, client, visited, sent, breaks>>

\* committedChaincodeEvents: what is committed, with an event that can be
\* attributed to a chaincode.
Event(tx) == tx.kind \in {"mine", "other"}

\* GetBlockByTxID finds the checkpoint, which must name a committed event.
CheckpointFound ==
  /\ pc = "lookup"
  /\ Stored(previous)
  /\ IF \E i \in DOMAIN Block(previous[1]) :
          Event(Block(previous[1])[i]) /\ Block(previous[1])[i].id = previous
     THEN /\ start' = previous[1]
          /\ expected' = IF start' < height THEN start' ELSE height
          /\ pc' = "open"
     ELSE pc' = "refused" /\ UNCHANGED <<start, expected>>
  /\ UNCHANGED <<ledger, client, base, height, previous, visited, sent, breaks>>

\* A store that lags does not know the checkpoint yet: the stream waits for it.
CheckpointNotFound ==
  /\ pc = "lookup"
  /\ previous[1] >= height
  /\ pc' = "open"
  /\ UNCHANGED <<ledger, client, base, cursor, visited, sent, breaks>>

\* Mutant of Due: any block is taken.
DueAnyway(n) == TRUE

Due(n) == n = expected

\* The cursor delivers block n, normally the next one; blocks before the
\* start are passed over, one out of order ends the stream.
Deliver(n) ==
  /\ pc = "open"
  /\ n < Len(ledger)
  /\ Due(n)
  /\ IF n < start THEN expected' = expected + 1 /\ UNCHANGED <<pc, place>>
     ELSE pc' = "visit" /\ place' = <<n, 1>> /\ UNCHANGED expected
  /\ UNCHANGED <<ledger, client, base, height, start, previous, matching, sent, breaks>>

\* Mutant of Matches: the checkpoint's event is sent again.
MatchesCheckpoint(tx) == tx.kind = "mine" /\ previous \in {NoTx, tx.id}

\* Mutant of Matches: going on with the block after the checkpoint's.
MatchesLater(tx) == tx.kind = "mine" /\ previous = NoTx /\ (mark = NoTx \/ place[1] # mark[1])

\* The events of the chaincode after the checkpoint, all of them without one.
Matches(tx) == tx.kind = "mine" /\ previous = NoTx

\* Mutant of Remaining: the checkpoint is never recognized.
RemainingKept(tx) == previous

Remaining(tx) == IF Event(tx) /\ tx.id = previous THEN NoTx ELSE previous

\* The next transaction of the block.
Visit ==
  /\ pc = "visit"
  /\ Stored(place)
  /\ LET tx == Block(place[1])[place[2]]
     IN /\ previous' = Remaining(tx)
        /\ matching' = IF Matches(tx) THEN Append(matching, tx.id) ELSE matching
  /\ place' = <<place[1], place[2] + 1>>
  /\ UNCHANGED <<ledger, client, base, pc, height, start, expected, sent, breaks>>

\* One response for the block, none without events.
Send ==
  /\ pc = "visit"
  /\ ~Stored(place)
  /\ sent' = sent \o matching
  /\ place' = <<0, 1>> /\ matching' = <<>>
  /\ expected' = expected + 1
  /\ pc' = "open"
  /\ UNCHANGED <<ledger, client, base, height, start, previous, breaks>>

\* A call fails, the client disconnects, the orchestrator stops, or a block
\* comes out of order: what was sent and not processed is gone.
Break ==
  /\ pc \in {"setup", "lookup", "open", "visit"}
  /\ breaks < MaxBreaks
  /\ breaks' = breaks + 1
  /\ pc' = "off"
  /\ height' = 0 /\ start' = 0 /\ expected' = 0 /\ previous' = NoTx
  /\ place' = <<0, 1>> /\ matching' = <<>>
  /\ sent' = <<>>
  /\ UNCHANGED <<ledger, client, base>>

Serve ==
  \/ Subscribe \/ CheckpointFound \/ CheckpointNotFound \/ Visit \/ Send \/ ProcessEvent
  \/ \E h \in 0..Len(ledger) : ReadHeight(h)
  \/ \E n \in 0..MaxBlocks - 1 : Deliver(n)

Next ==
  \/ Serve \/ Break
  \/ \E b \in NewBlocks : CommitBlock(b)
  \/ \E id \in TxIDs : CheckpointTransaction(id)

Spec == Init /\ [][Next]_vars

\* The client reconnects, the stores answer and the cursor delivers.
FairSpec == Spec /\ WF_vars(Serve)

-----------------------------------------------------------------------------
\* Across reconnections a client processes each event at most once, in the
\* order of the ledger, and only committed events of its chaincode (the
\* checkpoint is skipped up to and including its own event).
EventsOnceInOrder ==
  \A i \in DOMAIN got :
    /\ got[i] \in Mine
    /\ \A j \in 1..(i - 1) : Before(got[j], got[i])

\* No event between the place where the client began and the last one it
\* processed is missing: not those committed while it subscribed, nor those
\* in flight when a stream broke.
NoEventMissed ==
  got # <<>> => \A id \in Mine :
    Before(base, id) /\ ~Before(Last(got), id) => Contains(got, id)

\* Every event a subscription owes the client arrives, unless the checkpoint
\* names a transaction without an event, or a client without a checkpoint
\* reconnected for the next commit.
EventsArrive ==
  \A id \in TxIDs :
    (id \in Mine /\ pc = "open" /\ Before(base, id)) ~>
      (Contains(got, id) \/ ~Before(base, id) \/ (mark # NoTx /\ Kind(mark) = "plain"))
=============================================================================

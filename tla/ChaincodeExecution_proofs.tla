---------------------- MODULE ChaincodeExecution_proofs ----------------------
(***************************************************************************)
(* The executions of a helper read one snapshot, endorse only what they    *)
(* read and release their views, for any calls, keys and statuses.         *)
(***************************************************************************)
EXTENDS ChaincodeExecution, TLAPS

\* What a call has told its chaincode is in its snapshot and in its read set.
TruthfulReads(c) ==
  \A o \in seen[c] :
    /\ snap[c] > 0
    /\ history[snap[c]][o[1]] = o[2]
    /\ reads[c][o[1]] = o[2]

\* A refused read is remembered and keeps the call from being endorsed.
StickyFailure(c) ==
  /\ faulted[c] => readErr[c]
  /\ pc[c] \in {"endorsed", "committed", "invalid"} =>
       ~readErr[c] /\ status[c] \in 200..399

\* A call's view is ended when it returns, and not before.
OneView(c) ==
  endViews[c] = IF pc[c] \in Ended /\ owned[c] THEN 1 ELSE 0

CallInv(c) == TruthfulReads(c) /\ StickyFailure(c) /\ OneView(c)
CallsInv == \A c \in Calls : CallInv(c)

\* The inductive invariant.
IInv == TypeOK /\ CallsInv

callVars(c) ==
  <<pc[c], owned[c], snap[c], readErr[c], reads[c], seen[c], faulted[c], status[c], endViews[c]>>

\* The ledger stays as it is or grows by one state.
Grows == history' = history \/ \E rows \in [Keys -> Rows] : history' = Append(history, rows)

\* Committed states never change (the ledger is append-only).
LEMMA HistoryKept ==
  ASSUME TypeOK, Grows
  PROVE  /\ Height' >= Height
         /\ \A i \in 1..Height : history'[i] = history[i]
<1>1. history \in Seq([Keys -> Rows])
  BY DEF TypeOK
<1>2. CASE history' = history
  BY <1>1, <1>2 DEF Height
<1>3. CASE \E rows \in [Keys -> Rows] : history' = Append(history, rows)
  <2> DEFINE S == [Keys -> Rows]
  <2>1. PICK rows \in S : history' = Append(history, rows)
    BY <1>3
  <2> HIDE DEF S
  <2>2. history \in Seq(S)
    BY <1>1 DEF S
  <2>3. Len(history') = Len(history) + 1 /\ Len(history) \in Nat
    BY <2>1, <2>2
  <2>4. \A i \in 1..Len(history) : history'[i] = history[i]
    BY <2>1, <2>2
  <2> QED
    BY <2>3, <2>4 DEF Height
<1> QED
  BY <1>2, <1>3 DEF Grows

\* A step that leaves a call's own state alone keeps its invariant, whatever
\* is committed meanwhile.
LEMMA CallFrame ==
  ASSUME TypeOK, Grows, NEW d \in Calls, CallInv(d), UNCHANGED callVars(d)
  PROVE  CallInv(d)'
<1>1. /\ pc'[d] = pc[d] /\ owned'[d] = owned[d] /\ snap'[d] = snap[d] /\ readErr'[d] = readErr[d]
      /\ reads'[d] = reads[d] /\ seen'[d] = seen[d] /\ faulted'[d] = faulted[d]
      /\ status'[d] = status[d] /\ endViews'[d] = endViews[d]
  BY DEF callVars
<1>2. snap[d] \in 0..Height
  BY DEF TypeOK
<1>3. TruthfulReads(d)'
  <2>1. snap[d] > 0 => history'[snap[d]] = history[snap[d]]
    BY <1>2, HistoryKept DEF Height, TypeOK
  <2> QED
    BY <1>1, <2>1 DEF CallInv, TruthfulReads
<1>4. StickyFailure(d)'
  BY <1>1 DEF CallInv, StickyFailure
<1>5. OneView(d)'
  BY <1>1 DEF CallInv, OneView
<1> QED
  BY <1>3, <1>4, <1>5 DEF CallInv

\* The initial states satisfy the invariant.
LEMMA InitIInv == Init => IInv
<1> SUFFICES ASSUME Init PROVE IInv
  OBVIOUS
<1>1. PICK rows \in [Keys -> {Absent, 1}] : history = <<rows>>
  BY DEF Init
<1>2. rows \in [Keys -> Rows]
  BY ExecutionAssumption DEF Rows, Absent
<1>3. history \in Seq([Keys -> Rows]) /\ Len(history) = 1
  BY <1>1, <1>2
<1>4. TypeOK
  BY <1>3, ExecutionAssumption DEF Init, TypeOK, Height, Active, WriteSets, Rows, NoStatus, NotRead
<1>5. CallsInv
  BY DEF Init, CallsInv, CallInv, TruthfulReads, StickyFailure, OneView, Ended
<1> QED
  BY <1>4, <1>5 DEF IInv

\* A step of one call that leaves the ledger alone keeps the invariant if it
\* keeps the types and the acting call's own invariant.
LEMMA OneCallStep ==
  ASSUME IInv, NEW c \in Calls, TypeOK', history' = history, CallInv(c)',
         \A d \in Calls \ {c} : UNCHANGED callVars(d)
  PROVE  IInv'
<1>1. \A d \in Calls \ {c} : CallInv(d)'
  BY CallFrame DEF IInv, CallsInv, Grows
<1> QED
  BY <1>1 DEF IInv, CallsInv

\* What returning does: the call ends and its view, if any, is released once.
LEMMA ReturnFacts ==
  ASSUME IInv, NEW c \in Calls, NEW r \in Ended, pc[c] \in {"register", "running"}, Return(c, r)
  PROVE  /\ pc' = [pc EXCEPT ![c] = r]
         /\ opened' \subseteq Calls
         /\ endViews' \in [Calls -> Nat]
         /\ endViews'[c] = IF owned[c] THEN 1 ELSE 0
         /\ \A d \in Calls \ {c} : endViews'[d] = endViews[d]
         /\ UNCHANGED <<history, cancelled, owned, snap>>
<1>1. endViews[c] = 0 /\ endViews \in [Calls -> Nat] /\ opened \subseteq Calls
  BY DEF IInv, TypeOK, CallsInv, CallInv, OneView, Ended
<1>2. CASE ~owned[c]
  BY <1>1, <1>2 DEF Return, Release, Goto
<1>3. CASE owned[c]
  <2>1. endViews' = [endViews EXCEPT ![c] = @ + 1] /\ opened' \in {opened, opened \ {c}}
    BY <1>3 DEF Return, Release
  <2>2. /\ endViews' \in [Calls -> Nat] /\ endViews'[c] = 1
        /\ \A d \in Calls \ {c} : endViews'[d] = endViews[d]
    BY <1>1, <2>1
  <2> QED
    BY <1>1, <1>3, <2>1, <2>2 DEF Return, Goto
<1> QED
  BY <1>2, <1>3

\* A failed return keeps the invariant.
LEMMA ReturnStep ==
  ASSUME IInv, NEW c \in Calls, pc[c] \in {"register", "running"}, Return(c, "failed"),
         UNCHANGED <<asked, simulation, status>>
  PROVE  IInv'
<1>1. UNCHANGED <<asked, status, readErr, reads, writes, seen, faulted>>
  BY DEF simulation
<1>2. /\ pc' = [pc EXCEPT ![c] = "failed"]
      /\ opened' \subseteq Calls
      /\ endViews' \in [Calls -> Nat]
      /\ endViews'[c] = IF owned[c] THEN 1 ELSE 0
      /\ \A d \in Calls \ {c} : endViews'[d] = endViews[d]
      /\ UNCHANGED <<history, cancelled, owned, snap>>
  BY ReturnFacts DEF Ended
<1>3. TypeOK'
  BY <1>1, <1>2 DEF IInv, TypeOK, Height, Ended
<1>4. pc'[c] = "failed"
  BY <1>2 DEF IInv, TypeOK
<1>5. CallInv(c)'
  BY <1>1, <1>2, <1>4 DEF IInv, CallsInv, CallInv, TruthfulReads, StickyFailure, OneView, Ended
<1>6. \A d \in Calls \ {c} : UNCHANGED callVars(d)
  BY <1>1, <1>2 DEF IInv, TypeOK, callVars
<1> QED
  BY <1>2, <1>3, <1>5, <1>6, OneCallStep

\* Opening the stream touches no execution state.
LEMMA StartStep ==
  ASSUME IInv, NEW c \in Calls, Start(c)
  PROVE  IInv'
<1> USE DEF Start, Goto, IInv
<1>1. TypeOK'
  BY ExecutionAssumption DEF TypeOK, stream, simulation, Height, Active, Ended, WriteSets, Writes
<1>2. CallInv(c)'
  BY DEF TypeOK, CallsInv, CallInv, TruthfulReads, StickyFailure, OneView, stream, simulation, Height, Active, Ended
<1>3. history' = history /\ \A d \in Calls \ {c} : UNCHANGED callVars(d)
  BY DEF TypeOK, callVars, stream, simulation
<1> QED
  BY <1>1, <1>2, <1>3, OneCallStep

\* Registration starts the chaincode with empty read and write sets.
LEMMA RegisterStep ==
  ASSUME IInv, NEW c \in Calls, Register(c)
  PROVE  IInv'
<1> USE DEF Register, Goto, IInv
<1>1. TypeOK'
  BY ExecutionAssumption DEF TypeOK, stream, simulation, Height, Active, Ended, WriteSets, Writes
<1>2. CallInv(c)'
  BY DEF TypeOK, CallsInv, CallInv, TruthfulReads, StickyFailure, OneView, stream, simulation, Height, Active, Ended
<1>3. history' = history /\ \A d \in Calls \ {c} : UNCHANGED callVars(d)
  BY DEF TypeOK, callVars, stream, simulation
<1> QED
  BY <1>1, <1>2, <1>3, OneCallStep

\* A stream failure returns without an endorsement.
LEMMA StreamFailsStep ==
  ASSUME IInv, NEW c \in Calls, StreamFails(c)
  PROVE  IInv'
<1>1. /\ pc[c] \in {"register", "running"} /\ Return(c, "failed")
      /\ UNCHANGED <<asked, simulation, status>>
  BY DEF StreamFails
<1> QED
  BY <1>1, ReturnStep

\* An ended context returns without an endorsement.
LEMMA InterruptStep ==
  ASSUME IInv, NEW c \in Calls, Interrupt(c)
  PROVE  IInv'
<1>1. /\ pc[c] \in {"register", "running"} /\ Return(c, "failed")
      /\ UNCHANGED <<asked, simulation, status>>
  BY DEF Interrupt, Interrupted
<1> QED
  BY <1>1, ReturnStep

\* The first read fixes the snapshot before anything was told.
LEMMA BeginViewStep ==
  ASSUME IInv, NEW c \in Calls, BeginView(c)
  PROVE  IInv'
<1> USE DEF BeginView, Goto, IInv
<1>1. TypeOK'
  BY ExecutionAssumption DEF TypeOK, stream, simulation, Height, Active, Ended, WriteSets, Writes
<1>2. CallInv(c)'
  BY DEF TypeOK, CallsInv, CallInv, TruthfulReads, StickyFailure, OneView, stream, simulation, Height, Active, Ended
<1>3. history' = history /\ \A d \in Calls \ {c} : UNCHANGED callVars(d)
  BY DEF TypeOK, callVars, stream, simulation
<1> QED
  BY <1>1, <1>2, <1>3, OneCallStep

\* A refused read is sticky and tells the chaincode nothing.
LEMMA RefusedReadKeeps ==
  ASSUME IInv, NEW c \in Calls, pc[c] \in Active, RefuseRead(c),
         UNCHANGED <<history, owned, snap, endViews>>
  PROVE  CallInv(c)'
<1>1. /\ readErr'[c] = TRUE /\ pc'[c] = "running"
      /\ UNCHANGED <<history, owned, snap, endViews, reads, seen>>
  BY DEF RefuseRead, Goto, IInv, TypeOK
<1>2. TruthfulReads(c) /\ OneView(c)
  BY DEF IInv, CallsInv, CallInv
<1>3. TruthfulReads(c)'
  BY <1>1, <1>2 DEF TruthfulReads
<1>4. StickyFailure(c)'
  BY <1>1 DEF StickyFailure
<1>5. endViews[c] = 0
  <2>1. pc[c] \notin Ended
    BY DEF Active, Ended
  <2> QED
    BY <1>2, <2>1 DEF OneView
<1>6. pc'[c] \notin Ended
  BY <1>1 DEF Ended
<1>7. OneView(c)'
  BY <1>1, <1>5, <1>6 DEF OneView
<1> QED
  BY <1>3, <1>4, <1>7 DEF CallInv

\* A view that cannot be opened leaves a sticky failure.
LEMMA BeginViewFailsStep ==
  ASSUME IInv, NEW c \in Calls, BeginViewFails(c)
  PROVE  IInv'
<1> USE DEF BeginViewFails, ViewRefused, RefuseRead, Goto, IInv
<1>1. TypeOK'
  BY ExecutionAssumption DEF TypeOK, stream, simulation, Height, Active, Ended, WriteSets, Writes
<1>2. CallInv(c)'
  BY RefusedReadKeeps DEF stream, Active
<1>3. history' = history /\ \A d \in Calls \ {c} : UNCHANGED callVars(d)
  BY DEF TypeOK, callVars, stream, simulation
<1> QED
  BY <1>1, <1>2, <1>3, OneCallStep

\* A failed query leaves a sticky failure.
LEMMA QueryRowFailsStep ==
  ASSUME IInv, NEW c \in Calls, QueryRowFails(c)
  PROVE  IInv'
<1> USE DEF QueryRowFails, RefuseRead, Goto, IInv
<1>1. TypeOK'
  BY ExecutionAssumption DEF TypeOK, stream, simulation, Height, Active, Ended, WriteSets, Writes
<1>2. CallInv(c)'
  BY RefusedReadKeeps DEF stream, Active
<1>3. history' = history /\ \A d \in Calls \ {c} : UNCHANGED callVars(d)
  BY DEF TypeOK, callVars, stream, simulation
<1> QED
  BY <1>1, <1>2, <1>3, OneCallStep

\* A read is refused after a failure and otherwise goes to the one view.
LEMMA HandleGetStateStep ==
  ASSUME IInv, NEW c \in Calls, NEW k \in Keys, HandleGetState(c, k)
  PROVE  IInv'
<1>1. pc[c] = "running" /\ UNCHANGED <<history, cancelled, opened, owned, snap, endViews>>
  BY DEF HandleGetState, stream
<1>2. CASE readErr[c] \/ cancelled[c]
  <2>1. /\ readErr' = [readErr EXCEPT ![c] = TRUE] /\ faulted' = [faulted EXCEPT ![c] = TRUE]
        /\ pc' = [pc EXCEPT ![c] = "running"] /\ UNCHANGED <<reads, writes, seen, status, asked>>
    BY <1>2 DEF HandleGetState, RefuseRead, Goto
  <2>2. TypeOK'
    BY <1>1, <2>1 DEF IInv, TypeOK, Height, Active
  <2>3. CallInv(c)'
    BY <1>1, <1>2, RefusedReadKeeps DEF HandleGetState, Active
  <2>4. \A d \in Calls \ {c} : UNCHANGED callVars(d)
    BY <1>1, <2>1 DEF IInv, TypeOK, callVars
  <2> QED
    BY <1>1, <2>2, <2>3, <2>4, OneCallStep
<1>3. CASE ~(readErr[c] \/ cancelled[c])
  <2> DEFINE place == IF owned[c] THEN "query" ELSE "begin"
  <2>1. /\ pc' = [pc EXCEPT ![c] = place] /\ asked' = [asked EXCEPT ![c] = k]
        /\ UNCHANGED <<readErr, reads, writes, seen, faulted, status>>
    BY <1>3 DEF HandleGetState, Goto, simulation
  <2>2. /\ place \in {"begin", "query"}
        /\ place = "query" => owned[c]
    OBVIOUS
  <2> HIDE DEF place
  <2>3. TypeOK'
    BY <1>1, <2>1, <2>2 DEF IInv, TypeOK, Height, Active
  <2>4. pc'[c] = place
    BY <2>1 DEF IInv, TypeOK
  <2>5. CallInv(c)'
    BY <1>1, <2>1, <2>2, <2>4 DEF IInv, CallsInv, CallInv, TruthfulReads, StickyFailure, OneView, Ended
  <2>6. \A d \in Calls \ {c} : UNCHANGED callVars(d)
    BY <1>1, <2>1 DEF IInv, TypeOK, callVars
  <2> QED
    BY <1>1, <2>3, <2>5, <2>6, OneCallStep
<1> QED
  BY <1>2, <1>3

\* A row read again is the same row, because the view is the same.
LEMMA QueryRowStep ==
  ASSUME IInv, NEW c \in Calls, QueryRow(c)
  PROVE  IInv'
<1> DEFINE k == asked[c]
           at == Snapshot(c)
           row == history[at][k]
<1>1. /\ pc[c] = "query" /\ k \in Keys /\ at \in 1..Height /\ (snap[c] > 0 => at = snap[c])
  BY DEF QueryRow, IInv, TypeOK, Height, Snapshot
<1>2. row \in Rows
  <2>1. history \in [1..Height -> [Keys -> Rows]]
    BY DEF IInv, TypeOK, Height
  <2> QED
    BY <1>1, <2>1
<1>3. /\ reads' = [reads EXCEPT ![c] = [reads[c] EXCEPT ![k] = row]]
      /\ seen' = [seen EXCEPT ![c] = seen[c] \cup {<<k, row>>}]
      /\ snap' = [snap EXCEPT ![c] = at]
      /\ pc' = [pc EXCEPT ![c] = "running"]
      /\ UNCHANGED <<history, cancelled, opened, owned, endViews, asked, readErr, writes, faulted, status>>
  BY DEF QueryRow, Recorded, RowFor, Goto
<1> HIDE DEF at
<1>4. /\ reads'[c] = [reads[c] EXCEPT ![k] = row]
      /\ seen'[c] = seen[c] \cup {<<k, row>>}
      /\ pc'[c] = "running" /\ snap'[c] = at
  BY <1>3 DEF IInv, TypeOK
<1>5. reads[c] \in [Keys -> Rows \cup {NotRead}] /\ seen[c] \in SUBSET (Keys \X Rows)
  BY DEF IInv, TypeOK
<1>6. TypeOK'
  <2>1. reads'[c] \in [Keys -> Rows \cup {NotRead}] /\ seen'[c] \in SUBSET (Keys \X Rows)
    BY <1>1, <1>2, <1>4, <1>5
  <2>2. /\ reads' \in [Calls -> [Keys -> Rows \cup {NotRead}]]
        /\ seen' \in [Calls -> SUBSET (Keys \X Rows)]
    BY <1>3, <1>4, <2>1 DEF IInv, TypeOK
  <2>3. snap' \in [Calls -> 0..Height]
    BY <1>1, <1>3 DEF IInv, TypeOK
  <2> QED
    BY <1>3, <2>2, <2>3 DEF IInv, TypeOK, Height, Active
<1>7. TruthfulReads(c)'
  <2> SUFFICES ASSUME NEW o \in seen'[c]
               PROVE  history[at][o[1]] = o[2] /\ reads'[c][o[1]] = o[2]
    BY <1>1, <1>3, <1>4 DEF TruthfulReads
  <2>1. CASE o = <<k, row>>
    BY <1>1, <1>4, <1>5, <2>1
  <2>2. CASE o \in seen[c] /\ o # <<k, row>>
    <3>1. history[at][o[1]] = o[2] /\ reads[c][o[1]] = o[2]
      BY <1>1, <2>2 DEF IInv, CallsInv, CallInv, TruthfulReads
    <3>2. o[1] \in Keys
      BY <1>5, <2>2
    <3>3. o[1] = k => o[2] = row
      BY <3>1
    <3> QED
      BY <1>1, <1>4, <1>5, <3>1, <3>2, <3>3
  <2> QED
    BY <1>4, <2>1, <2>2
<1>8. StickyFailure(c)' /\ OneView(c)'
  BY <1>1, <1>3, <1>4 DEF IInv, CallsInv, CallInv, StickyFailure, OneView, Ended
<1>9. \A d \in Calls \ {c} : UNCHANGED callVars(d)
  BY <1>3 DEF IInv, TypeOK, callVars
<1> QED
  BY <1>3, <1>6, <1>7, <1>8, <1>9, OneCallStep DEF CallInv

\* A commit adds one well-formed state.
LEMMA ApplyFacts ==
  ASSUME IInv, NEW w \in WriteSets, Height < MaxHeight, Apply(w)
  PROVE  /\ Grows
         /\ history' \in Seq([Keys -> Rows])
         /\ Height' = Height + 1
<1> DEFINE rows == [k \in Keys |-> CASE w[k] = "put" -> Height + 1
                                   [] w[k] = "delete" -> Absent
                                   [] OTHER -> history[Height][k]]
<1>1. history \in Seq([Keys -> Rows]) /\ Height \in 1..MaxHeight
  BY DEF IInv, TypeOK
<1>2. history[Height] \in [Keys -> Rows]
  <2>1. history \in [1..Height -> [Keys -> Rows]]
    BY <1>1 DEF Height
  <2> QED
    BY <1>1, <2>1
<1>3. \A k \in Keys : rows[k] \in Rows
  BY <1>1, <1>2, ExecutionAssumption DEF Rows, Absent
<1>4. rows \in [Keys -> Rows]
  BY <1>3
<1>5. history' = Append(history, rows)
  BY DEF Apply
<1> HIDE DEF rows
<1> DEFINE S == [Keys -> Rows]
<1>6. history \in Seq(S) /\ rows \in S
  BY <1>1, <1>4
<1>7. Grows
  BY <1>5, <1>6 DEF Grows
<1> HIDE DEF S
<1>8. history' \in Seq(S) /\ Len(history') = Len(history) + 1
  BY <1>5, <1>6
<1> QED
  BY <1>7, <1>8 DEF S, Height

\* Committing keeps the invariant of the committed call and of every other.
LEMMA CommitStep ==
  ASSUME IInv, NEW c \in Calls, Commit(c)
  PROVE  IInv'
<1>1. /\ pc[c] = "endorsed"
      /\ UNCHANGED <<cancelled, opened, owned, snap, endViews, asked, readErr, reads, writes, seen, faulted, status>>
  BY DEF Commit, simulation
<1>2. /\ Grows /\ history' \in Seq([Keys -> Rows]) /\ Height' \in 1..MaxHeight /\ Height' >= Height
      /\ \E r \in {"committed", "invalid"} : pc' = [pc EXCEPT ![c] = r]
  <2>1. CASE \A k \in Keys : reads[c][k] \in {NotRead, history[Height][k]}
    <3>1. Height < MaxHeight /\ Apply(writes[c]) /\ Goto(c, "committed")
      BY <2>1 DEF Commit
    <3>2. writes[c] \in WriteSets /\ Height \in 1..MaxHeight
      BY DEF IInv, TypeOK
    <3>3. Grows /\ history' \in Seq([Keys -> Rows]) /\ Height' = Height + 1
      BY <3>1, <3>2, ApplyFacts
    <3> QED
      BY <3>1, <3>2, <3>3, ExecutionAssumption DEF Goto
  <2>2. CASE ~\A k \in Keys : reads[c][k] \in {NotRead, history[Height][k]}
    BY <2>2 DEF Commit, Goto, Grows, IInv, TypeOK, Height
  <2> QED
    BY <2>1, <2>2
<1>3. PICK r \in {"committed", "invalid"} : pc' = [pc EXCEPT ![c] = r]
  BY <1>2
<1>4. TypeOK'
  <2>1. \A d \in Calls : snap'[d] \in 0..Height'
    BY <1>1, <1>2 DEF IInv, TypeOK
  <2>2. snap' \in [Calls -> 0..Height']
    BY <1>1, <2>1 DEF IInv, TypeOK
  <2>3. pc' \in [Calls -> {"idle"} \cup Active \cup Ended]
    BY <1>3 DEF IInv, TypeOK, Ended
  <2>4. \A d \in Calls : /\ pc'[d] \in {"begin", "query"} => asked'[d] \in Keys
                         /\ pc'[d] = "query" => owned'[d]
    BY <1>1, <1>3 DEF IInv, TypeOK
  <2> QED
    BY <1>1, <1>2, <2>2, <2>3, <2>4 DEF IInv, TypeOK
<1>5. pc'[c] = r
  BY <1>3 DEF IInv, TypeOK
<1>6. CallInv(c)'
  <2>1. TruthfulReads(c)'
    <3>1. snap[c] > 0 => history'[snap[c]] = history[snap[c]]
      BY <1>2, HistoryKept DEF IInv, TypeOK, Height
    <3> QED
      BY <1>1, <3>1 DEF IInv, CallsInv, CallInv, TruthfulReads
  <2>2. StickyFailure(c)' /\ OneView(c)'
    BY <1>1, <1>5 DEF IInv, CallsInv, CallInv, StickyFailure, OneView, Ended
  <2> QED
    BY <2>1, <2>2 DEF CallInv
<1>7. \A d \in Calls \ {c} : CallInv(d)'
  <2> SUFFICES ASSUME NEW d \in Calls \ {c} PROVE CallInv(d)'
    OBVIOUS
  <2>1. UNCHANGED callVars(d)
    BY <1>1, <1>3 DEF IInv, TypeOK, callVars
  <2> QED
    BY <1>2, <2>1, CallFrame DEF IInv, CallsInv
<1> QED
  BY <1>4, <1>6, <1>7 DEF IInv, CallsInv

\* Somebody else's commit disturbs no call.
LEMMA OtherCommitStep ==
  ASSUME IInv, NEW w \in WriteSets, OtherCommit(w)
  PROVE  IInv'
<1>1. /\ Height < MaxHeight /\ Apply(w)
      /\ UNCHANGED <<cancelled, opened, owned, snap, endViews, pc, asked, readErr, reads, writes, seen, faulted, status>>
  BY DEF OtherCommit, simulation
<1>2. Grows /\ history' \in Seq([Keys -> Rows]) /\ Height' = Height + 1
  BY <1>1, ApplyFacts
<1>3. Height \in 1..MaxHeight /\ Height' \in 1..MaxHeight
  BY <1>1, <1>2, ExecutionAssumption DEF IInv, TypeOK
<1>4. TypeOK'
  <2>1. snap' \in [Calls -> 0..Height']
    BY <1>1, <1>2, <1>3 DEF IInv, TypeOK
  <2> QED
    BY <1>1, <1>2, <1>3, <2>1 DEF IInv, TypeOK
<1>5. \A d \in Calls : CallInv(d)'
  BY <1>1, <1>2, CallFrame DEF IInv, CallsInv, callVars
<1> QED
  BY <1>4, <1>5 DEF IInv, CallsInv

\* Pending writes change neither what was read nor the ledger.
LEMMA HandleWriteStep ==
  ASSUME IInv, NEW c \in Calls, NEW k \in Keys, NEW w \in Writes, HandleWrite(c, k, w)
  PROVE  IInv'
<1> USE DEF HandleWrite, IInv
<1>1. TypeOK'
  BY ExecutionAssumption DEF TypeOK, stream, simulation, Height, Active, Ended, WriteSets, Writes
<1>2. CallInv(c)'
  BY DEF TypeOK, CallsInv, CallInv, TruthfulReads, StickyFailure, OneView, stream, simulation, Height, Active, Ended
<1>3. history' = history /\ \A d \in Calls \ {c} : UNCHANGED callVars(d)
  BY DEF TypeOK, callVars, stream, simulation
<1> QED
  BY <1>1, <1>2, <1>3, OneCallStep

\* Completion endorses only without failed reads and with a success.
LEMMA CompletedStep ==
  ASSUME IInv, NEW c \in Calls, NEW s \in Statuses, Completed(c, s)
  PROVE  IInv'
<1> DEFINE r == Answer(c, s)
<1>1. /\ pc[c] = "running" /\ status' = [status EXCEPT ![c] = s] /\ Return(c, r)
      /\ UNCHANGED <<asked, readErr, reads, writes, seen, faulted>>
  BY DEF Completed, simulation
<1>2. s \in Nat
  BY ExecutionAssumption
<1>3. r \in Ended /\ r \notin {"committed", "invalid"} /\ (r = "endorsed" => ~readErr[c] /\ s \in 200..399)
  BY <1>2 DEF Answer, Ended
<1> HIDE DEF r
<1>4. /\ pc' = [pc EXCEPT ![c] = r]
      /\ opened' \subseteq Calls
      /\ endViews' \in [Calls -> Nat]
      /\ endViews'[c] = IF owned[c] THEN 1 ELSE 0
      /\ \A d \in Calls \ {c} : endViews'[d] = endViews[d]
      /\ UNCHANGED <<history, cancelled, owned, snap>>
  BY <1>1, <1>3, ReturnFacts
<1>5. TypeOK'
  BY <1>1, <1>3, <1>4 DEF IInv, TypeOK, Height, Ended
<1>6. pc'[c] = r /\ status'[c] = s
  BY <1>1, <1>4 DEF IInv, TypeOK
<1>7. CallInv(c)'
  BY <1>1, <1>3, <1>4, <1>6 DEF IInv, CallsInv, CallInv, TruthfulReads, StickyFailure, OneView, Ended
<1>8. \A d \in Calls \ {c} : UNCHANGED callVars(d)
  BY <1>1, <1>4 DEF IInv, TypeOK, callVars
<1> QED
  BY <1>4, <1>5, <1>7, <1>8, OneCallStep

\* The caller's leaving changes nothing by itself.
LEMMA CancelStep ==
  ASSUME IInv, NEW c \in Calls, Cancel(c)
  PROVE  IInv'
<1> USE DEF Cancel, IInv
<1>1. TypeOK'
  BY ExecutionAssumption DEF TypeOK, stream, simulation, Height, Active, Ended, WriteSets, Writes
<1>2. CallInv(c)'
  BY DEF TypeOK, CallsInv, CallInv, TruthfulReads, StickyFailure, OneView, stream, simulation, Height, Active, Ended
<1>3. history' = history /\ \A d \in Calls \ {c} : UNCHANGED callVars(d)
  BY DEF TypeOK, callVars, stream, simulation
<1> QED
  BY <1>1, <1>2, <1>3, OneCallStep

\* Dropping a view changes nothing a call has recorded.
LEMMA ExpireViewStep ==
  ASSUME IInv, NEW c \in Calls, ExpireView(c)
  PROVE  IInv'
<1> USE DEF ExpireView, IInv
<1>1. TypeOK'
  BY ExecutionAssumption DEF TypeOK, stream, simulation, Height, Active, Ended, WriteSets, Writes
<1>2. CallInv(c)'
  BY DEF TypeOK, CallsInv, CallInv, TruthfulReads, StickyFailure, OneView, stream, simulation, Height, Active, Ended
<1>3. history' = history /\ \A d \in Calls \ {c} : UNCHANGED callVars(d)
  BY DEF TypeOK, callVars, stream, simulation
<1> QED
  BY <1>1, <1>2, <1>3, OneCallStep

\* The inductive invariant: what every call has been told is in its snapshot
\* and in its read set, failures stick, and views are released once.
THEOREM Invariance == Spec => []IInv
<1>1. IInv /\ [Next]_vars => IInv'
  <2> SUFFICES ASSUME IInv, [Next]_vars PROVE IInv'
    OBVIOUS
  <2>1. CASE UNCHANGED vars
    BY <2>1 DEF vars, stream, simulation, IInv, TypeOK, CallsInv, CallInv, TruthfulReads,
                StickyFailure, OneView, Height
  <2>2. ASSUME NEW c \in Calls, Handler(c) PROVE IInv'
    BY <2>2, StartStep, RegisterStep, StreamFailsStep, InterruptStep, BeginViewStep,
       BeginViewFailsStep, QueryRowStep, QueryRowFailsStep, HandleGetStateStep,
       HandleWriteStep, CompletedStep DEF Handler
  <2>3. ASSUME NEW c \in Calls, Cancel(c) \/ ExpireView(c) \/ Commit(c) PROVE IInv'
    BY <2>3, CancelStep, ExpireViewStep, CommitStep
  <2>4. ASSUME NEW w \in WriteSets, OtherCommit(w) PROVE IInv'
    BY <2>4, OtherCommitStep
  <2> QED
    BY <2>1, <2>2, <2>3, <2>4 DEF Next
<1> QED
  BY <1>1, InitIInv, PTL DEF Spec

\* Type correctness of the helper's executions.
THEOREM TypeCorrect == Spec => []TypeOK
<1>1. IInv => TypeOK
  BY DEF IInv
<1> QED
  BY <1>1, Invariance, PTL

\* What one chaincode execution is told was the committed state at one moment
\* (the lazily opened repeatable-read view of ExecutionContext.GetState).
THEOREM OneSnapshot == Spec => []ReadsOneSnapshot
<1>1. IInv => ReadsOneSnapshot
  <2> SUFFICES ASSUME IInv, NEW c \in Calls
               PROVE  \E i \in 1..Height : \A o \in seen[c] : history[i][o[1]] = o[2]
    BY DEF ReadsOneSnapshot
  <2>1. snap[c] \in 0..Height /\ Height \in Nat \ {0}
    BY DEF IInv, TypeOK, Height
  <2>2. CASE snap[c] > 0
    <3>1. snap[c] \in 1..Height
      BY <2>1, <2>2
    <3> QED
      BY <3>1 DEF IInv, CallsInv, CallInv, TruthfulReads
  <2>3. CASE ~(snap[c] > 0)
    <3>1. seen[c] = {}
      BY <2>3 DEF IInv, CallsInv, CallInv, TruthfulReads
    <3>2. 1 \in 1..Height
      BY <2>1
    <3> QED
      BY <3>1, <3>2
  <2> QED
    BY <2>2, <2>3
<1> QED
  BY <1>1, Invariance, PTL

\* A transaction commits only on the rows its chaincode saw, missing ones
\* included (the read set GetState records, with the committer's check).
THEOREM NoLostUpdate == Spec => CommittedOnWhatWasRead
<1>1. IInv /\ [Next]_vars =>
        [\A c \in Calls : pc[c] # "committed" /\ pc'[c] = "committed" =>
           \A o \in seen[c] : history[Height][o[1]] = o[2]]_vars
  <2> SUFFICES ASSUME IInv, Next, NEW c \in Calls, pc[c] # "committed", pc'[c] = "committed"
               PROVE  \A o \in seen[c] : history[Height][o[1]] = o[2]
    OBVIOUS
  <2>1. Commit(c)
    BY ExecutionAssumption
    DEF Next, Handler, Start, Register, StreamFails, Interrupt, BeginView, BeginViewFails,
        ViewRefused, QueryRow, QueryRowFails, HandleGetState, HandleWrite, Completed, Answer,
        Return, RefuseRead, Goto, Cancel, ExpireView, Commit, OtherCommit, IInv, TypeOK
  <2>2. \A k \in Keys : reads[c][k] \in {NotRead, history[Height][k]}
    BY <2>1 DEF Commit, Goto, IInv, TypeOK
  <2>3. seen[c] \in SUBSET (Keys \X Rows)
    BY DEF IInv, TypeOK
  <2> SUFFICES ASSUME NEW o \in seen[c] PROVE history[Height][o[1]] = o[2]
    OBVIOUS
  <2>4. o[1] \in Keys /\ o[2] \in Rows
    BY <2>3
  <2>5. reads[c][o[1]] = o[2]
    BY DEF IInv, CallsInv, CallInv, TruthfulReads
  <2>6. o[2] # NotRead
    BY <2>4 DEF Rows, NotRead
  <2> QED
    BY <2>2, <2>4, <2>5, <2>6
<1> QED
  BY <1>1, Invariance, PTL DEF CommittedOnWhatWasRead, Spec

\* No execution that was refused a read, or that failed, is endorsed
\* (ProcessProposal's checks of Err and of the status).
THEOREM EndorsementsSound == Spec => []EndorsesSoundExecutions
<1>1. IInv => EndorsesSoundExecutions
  BY DEF IInv, CallsInv, CallInv, StickyFailure, EndorsesSoundExecutions
<1> QED
  BY <1>1, Invariance, PTL

\* A returned call has asked exactly once to end its view (Close).
THEOREM ViewsReleased == Spec => []ViewReleasedOnce
<1>1. IInv => ViewReleasedOnce
  BY DEF IInv, CallsInv, CallInv, OneView, ViewReleasedOnce
<1> QED
  BY <1>1, Invariance, PTL
==============================================================================

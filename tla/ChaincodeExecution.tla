------------------------- MODULE ChaincodeExecution -------------------------
(***************************************************************************)
(* One organization's helper executing invocations against an external     *)
(* chaincode service: ProcessProposal and ExecutionContext (helper/ser-    *)
(* vice.go, executor.go) and the peer side of the chaincode stream         *)
(* (shim/connector.go, handler.go).                                        *)
(*                                                                         *)
(* External, modelled as the code uses them: the chaincode, which sends    *)
(* any message at any time; the Query Service, whose views are snapshots   *)
(* that may expire; the committer, which checks the versions read.  A row  *)
(* is identified by its version, the number of the state it was committed  *)
(* in, and is Absent when the key has none.                                *)
(***************************************************************************)
EXTENDS Integers, Sequences, FiniteSets

CONSTANTS Calls,      \* calls of ProcessProposal
          Keys,       \* keys of the namespace
          NoKey,      \* not a key
          Statuses,   \* status codes a chaincode returns
          MaxHeight   \* bound on the committed states

Absent == 0
NotRead == -1
NoStatus == 0

ASSUME ExecutionAssumption ==
  /\ MaxHeight \in Nat \ {0}
  /\ Statuses \subseteq Nat
  /\ NoKey \notin Keys

VARIABLES
  history,   \* history[i]: the committed rows after i - 1 transactions
  pc,        \* where each call is
  asked,     \* the key of the GET_STATE being answered
  cancelled, \* the caller's context has ended
  opened,    \* calls whose view the Query Service holds open
  owned,     \* ExecutionContext.viewOwned: queryView is set
  snap,      \* the state the view shows, 0 before its first query
  readErr,   \* ExecutionContext.readErr is set
  reads,     \* ExecutionContext.reads
  writes,    \* ExecutionContext.writes
  seen,      \* the rows the chaincode was given, with their keys
  faulted,   \* the chaincode was refused a read
  status,    \* the status the chaincode completed with
  endViews   \* EndView requests sent

stream == <<history, cancelled, opened, owned, snap, endViews>>
simulation == <<readErr, reads, writes, seen, faulted>>
vars == <<stream, pc, asked, simulation, status>>

Rows == 0..MaxHeight
Writes == {"put", "delete"}
WriteSets == [Keys -> {"none"} \cup Writes]
Active == {"register", "running", "begin", "query"}
Ended == {"endorsed", "refused", "failed", "committed", "invalid"}

Height == Len(history)

\* A view is queried only once it is known, and released only at the end.
TypeOK ==
  /\ history \in Seq([Keys -> Rows]) /\ Height \in 1..MaxHeight
  /\ pc \in [Calls -> {"idle"} \cup Active \cup Ended]
  /\ asked \in [Calls -> Keys \cup {NoKey}]
  /\ cancelled \in [Calls -> BOOLEAN]
  /\ opened \subseteq Calls
  /\ owned \in [Calls -> BOOLEAN]
  /\ snap \in [Calls -> 0..Height]
  /\ readErr \in [Calls -> BOOLEAN]
  /\ reads \in [Calls -> [Keys -> Rows \cup {NotRead}]]
  /\ writes \in [Calls -> WriteSets]
  /\ seen \in [Calls -> SUBSET (Keys \X Rows)]
  /\ faulted \in [Calls -> BOOLEAN]
  /\ status \in [Calls -> Statuses \cup {NoStatus}]
  /\ endViews \in [Calls -> Nat]
  /\ \A c \in Calls :
       /\ pc[c] \in {"begin", "query"} => asked[c] \in Keys
       /\ pc[c] = "query" => owned[c]

Init ==
  /\ history \in {<<rows>> : rows \in [Keys -> {Absent, 1}]}
  /\ pc = [c \in Calls |-> "idle"]
  /\ asked = [c \in Calls |-> NoKey]
  /\ cancelled = [c \in Calls |-> FALSE]
  /\ opened = {}
  /\ owned = [c \in Calls |-> FALSE]
  /\ snap = [c \in Calls |-> 0]
  /\ readErr = [c \in Calls |-> FALSE]
  /\ reads = [c \in Calls |-> [k \in Keys |-> NotRead]]
  /\ writes = [c \in Calls |-> [k \in Keys |-> "none"]]
  /\ seen = [c \in Calls |-> {}]
  /\ faulted = [c \in Calls |-> FALSE]
  /\ status = [c \in Calls |-> NoStatus]
  /\ endViews = [c \in Calls |-> 0]

Goto(c, place) == pc' = [pc EXCEPT ![c] = place]

-----------------------------------------------------------------------------
\* Mutant of Release: the cleanup uses the caller's context.
ReleaseUnlessCancelled(c) ==
  IF ~owned[c] \/ cancelled[c] THEN UNCHANGED <<opened, endViews>>
  ELSE /\ endViews' = [endViews EXCEPT ![c] = @ + 1]
       /\ opened' \in {opened, opened \ {c}}

\* Close: one attempt to end the context's own view, even if the caller's
\* context has ended; the attempt may fail.
Release(c) ==
  IF ~owned[c] THEN UNCHANGED <<opened, endViews>>
  ELSE /\ endViews' = [endViews EXCEPT ![c] = @ + 1]
       /\ opened' \in {opened, opened \ {c}}

\* ProcessProposal returns; its deferred Close runs.
Return(c, result) ==
  /\ Goto(c, result)
  /\ Release(c)
  /\ UNCHANGED <<history, cancelled, owned, snap>>

\* The proposal parses, its namespace has an executor and its init intent is
\* the original one; otherwise the call has no effect.  The stream opens.
Start(c) ==
  /\ pc[c] = "idle"
  /\ Goto(c, "register")
  /\ UNCHANGED <<stream, asked, simulation, status>>

\* REGISTER arrives, REGISTERED, READY and INIT or TRANSACTION are sent.
Register(c) ==
  /\ pc[c] = "register"
  /\ Goto(c, "running")
  /\ UNCHANGED <<stream, asked, simulation, status>>

\* A send or receive fails, the chaincode closes the stream or breaks the
\* protocol, or the endorsement cannot be built: the call fails.
StreamFails(c) ==
  /\ pc[c] \in {"register", "running"}
  /\ Return(c, "failed")
  /\ UNCHANGED <<asked, simulation, status>>

\* Mutant of Interrupted: the receive loop does not look at the context.
InterruptedRegistering(c) == cancelled[c] /\ pc[c] = "register"

Interrupted(c) == cancelled[c] /\ pc[c] \in {"register", "running"}

\* The receive loop finds the context ended, or its Recv is cut off.
Interrupt(c) ==
  /\ Interrupted(c)
  /\ Return(c, "failed")
  /\ UNCHANGED <<asked, simulation, status>>

Cancel(c) ==
  /\ pc[c] \in Active
  /\ cancelled' = [cancelled EXCEPT ![c] = TRUE]
  /\ UNCHANGED <<history, opened, owned, snap, endViews, pc, asked, simulation, status>>

-----------------------------------------------------------------------------
\* GetState refuses a read: the first failure is kept and the chaincode,
\* which may ignore it, gets an ERROR message.
RefuseRead(c) ==
  /\ readErr' = [readErr EXCEPT ![c] = TRUE]
  /\ faulted' = [faulted EXCEPT ![c] = TRUE]
  /\ Goto(c, "running")
  /\ UNCHANGED <<reads, writes, seen, status>>

\* GET_STATE arrives: an earlier failure or an ended context refuses it; the
\* first read needs a view.
HandleGetState(c, k) ==
  /\ pc[c] = "running"
  /\ IF readErr[c] \/ cancelled[c]
     THEN RefuseRead(c) /\ UNCHANGED asked
     ELSE /\ Goto(c, IF owned[c] THEN "query" ELSE "begin")
          /\ asked' = [asked EXCEPT ![c] = k]
          /\ UNCHANGED <<simulation, status>>
  /\ UNCHANGED stream

\* BeginView answers with a view.
BeginView(c) ==
  /\ pc[c] = "begin"
  /\ opened' = opened \cup {c}
  /\ owned' = [owned EXCEPT ![c] = TRUE]
  /\ Goto(c, "query")
  /\ UNCHANGED <<history, cancelled, snap, endViews, asked, simulation, status>>

\* Mutant of ViewRefused: a view without an identifier is used.
EmptyViewAccepted(c) ==
  Goto(c, "query") /\ UNCHANGED <<asked, simulation, status>>

ViewRefused(c) == RefuseRead(c) /\ UNCHANGED asked

\* BeginView fails or answers with an empty view; the Query Service may have
\* opened one nobody knows of.
BeginViewFails(c) ==
  /\ pc[c] = "begin"
  /\ opened' \in {opened, opened \cup {c}}
  /\ ViewRefused(c)
  /\ UNCHANGED <<history, cancelled, owned, snap, endViews>>

\* The first query that uses a view establishes its snapshot.
Snapshot(c) == IF snap[c] = 0 THEN Height ELSE snap[c]

\* Mutant of RowFor: the query does not name the view.
RowNow(c, k) == history[Height][k]

\* The row of key k in the view of call c.
RowFor(c, k) == history[Snapshot(c)][k]

\* Mutant of Recorded: only rows that exist are recorded.
RecordedIfPresent(c, k, row) ==
  IF row = Absent THEN reads[c] ELSE [reads[c] EXCEPT ![k] = row]

\* The read version of a missing key is recorded as absent.
Recorded(c, k, row) == [reads[c] EXCEPT ![k] = row]

\* GetRows answers while the Query Service still has the view.
QueryRow(c) ==
  /\ pc[c] = "query"
  /\ c \in opened
  /\ LET k == asked[c]
         row == RowFor(c, k)
     IN /\ snap' = [snap EXCEPT ![c] = Snapshot(c)]
        /\ reads' = [reads EXCEPT ![c] = Recorded(c, k, row)]
        /\ seen' = [seen EXCEPT ![c] = @ \cup {<<k, row>>}]
  /\ Goto(c, "running")
  /\ UNCHANGED <<history, cancelled, opened, owned, endViews, asked, readErr, writes, faulted, status>>

\* GetRows fails: the call, its context or the view.
QueryRowFails(c) ==
  /\ pc[c] = "query"
  /\ RefuseRead(c)
  /\ UNCHANGED <<stream, asked>>

\* PUT_STATE and DEL_STATE: the last one of a key counts.
HandleWrite(c, k, w) ==
  /\ pc[c] = "running"
  /\ writes' = [writes EXCEPT ![c][k] = w]
  /\ UNCHANGED <<stream, pc, asked, readErr, reads, seen, faulted, status>>

\* Mutant of Answer: the read failure is not looked at.
AnswerIgnoringReads(c, s) ==
  IF s < 200 \/ s >= 400 THEN "refused" ELSE "endorsed"

\* What ProcessProposal returns for a completed execution.
Answer(c, s) ==
  CASE readErr[c] -> "failed"
    [] ~readErr[c] /\ (s < 200 \/ s >= 400) -> "refused"
    [] OTHER -> "endorsed"

\* COMPLETED with a status; an ERROR message is status 500.
Completed(c, s) ==
  /\ pc[c] = "running"
  /\ status' = [status EXCEPT ![c] = s]
  /\ Return(c, Answer(c, s))
  /\ UNCHANGED <<asked, simulation>>

-----------------------------------------------------------------------------
\* The Query Service drops a view.
ExpireView(c) ==
  /\ c \in opened
  /\ opened' = opened \ {c}
  /\ UNCHANGED <<history, cancelled, owned, snap, endViews, pc, asked, simulation, status>>

Apply(w) ==
  history' = Append(history, [k \in Keys |->
    CASE w[k] = "put" -> Height + 1
      [] w[k] = "delete" -> Absent
      [] OTHER -> history[Height][k]])

\* The committer orders the endorsed transaction and checks what it read.
Commit(c) ==
  /\ pc[c] = "endorsed"
  /\ IF \A k \in Keys : reads[c][k] \in {NotRead, history[Height][k]}
     THEN /\ Height < MaxHeight
          /\ Apply(writes[c])
          /\ Goto(c, "committed")
     ELSE Goto(c, "invalid") /\ UNCHANGED history
  /\ UNCHANGED <<cancelled, opened, owned, snap, endViews, asked, simulation, status>>

\* A transaction of somebody else commits.
OtherCommit(w) ==
  /\ Height < MaxHeight
  /\ Apply(w)
  /\ UNCHANGED <<cancelled, opened, owned, snap, endViews, pc, asked, simulation, status>>

Handler(c) ==
  \/ Start(c) \/ Register(c) \/ StreamFails(c) \/ Interrupt(c)
  \/ BeginView(c) \/ BeginViewFails(c) \/ QueryRow(c) \/ QueryRowFails(c)
  \/ \E k \in Keys : HandleGetState(c, k) \/ \E w \in Writes : HandleWrite(c, k, w)
  \/ \E s \in Statuses : Completed(c, s)

Next ==
  \/ \E c \in Calls : Handler(c) \/ Cancel(c) \/ ExpireView(c) \/ Commit(c)
  \/ \E w \in WriteSets : OtherCommit(w)

Spec == Init /\ [][Next]_vars

\* The receive loop looks at the context before every message, and a call of
\* the Query Service answers, or fails when its context ends.
FairSpec ==
  /\ Spec
  /\ \A c \in Calls :
       /\ WF_vars(Interrupt(c))
       /\ WF_vars(BeginView(c) \/ BeginViewFails(c))
       /\ WF_vars(QueryRow(c) \/ QueryRowFails(c))

-----------------------------------------------------------------------------
\* Everything a chaincode is told during one invocation was true at one
\* moment, whatever commits meanwhile and whatever it wrote itself, though the
\* view is opened and fixed only at the first read (ExecutionContext.GetState).
ReadsOneSnapshot ==
  \A c \in Calls : \E i \in 1..Height :
    \A o \in seen[c] : history[i][o[1]] = o[2]

\* A transaction commits only if what its chaincode saw, missing keys
\* included, is still the committed state: no update is lost between two
\* executions (the read set GetState records and Result hands over).
CommittedOnWhatWasRead ==
  [][\A c \in Calls : pc[c] # "committed" /\ pc'[c] = "committed" =>
       \A o \in seen[c] : history[Height][o[1]] = o[2]]_vars

\* "must not endorse an execution that ignored a failed or expired snapshot
\* read", nor one whose status is not a success (ProcessProposal).
EndorsesSoundExecutions ==
  \A c \in Calls : pc[c] \in {"endorsed", "committed", "invalid"} =>
    ~faulted[c] /\ status[c] \in 200..399

\* A call that has returned has asked once to end the view it opened, also
\* when its caller is gone, and no running call has (Close).
ViewReleasedOnce ==
  \A c \in Calls :
    endViews[c] = IF pc[c] \in Ended /\ owned[c] THEN 1 ELSE 0

\* A call whose context ends returns, even when the chaincode keeps sending
\* messages or never completes (messageHandler.Execute).
CancelledCallsEnd ==
  \A c \in Calls : (cancelled[c] /\ pc[c] \in Active) ~> pc[c] \in Ended
=============================================================================

-------------------------- MODULE TranscriptWriter --------------------------
(***************************************************************************)
(* The history of a session (peri-agent, session/transcript): the entries  *)
(* and marks a turn holds in memory, the channel to its writer task, the   *)
(* writer's batches, barriers and sticky failure, the compaction that goes *)
(* to the store past the writer, and the end of the turn, where the host   *)
(* adopts the turn's entries or drops the session.  Every turn has a       *)
(* writer of its own, which outlives it.  An await of the turn is a        *)
(* boundary between actions; the writer's own awaits are not, for nobody   *)
(* but the writer sees what changes between them.  Entries are numbered in *)
(* the order of their creation.                                            *)
(***************************************************************************)
EXTENDS Naturals, Sequences, FiniteSets

CONSTANTS
  BatchMax,     \* appends that make a batch (64)
  FailedMax,    \* appends kept after a failure (256)
  MaxEntries,   \* bound on entries ever created
  MaxTurns,     \* bound on turns
  MaxFailures   \* bound on failing calls of the store

ASSUME WriterAssumption ==
  /\ BatchMax \in Nat \ {0} /\ FailedMax \in Nat /\ BatchMax <= FailedMax
  /\ MaxEntries \in Nat /\ MaxTurns \in Nat /\ MaxFailures \in Nat

Ids == 1 .. MaxEntries
Turns == 1 .. MaxTurns
Marks == {"plain", "truncated", "excluded"}

VARIABLES
  disk,      \* entries of the thread in the store, in row order
  marked,    \* their marks in the store
  session,   \* whether the host holds the session: "closed", "rest", "turn"
  shown,     \* history_payloads of the session
  stage,     \* where the turn is
  turn,      \* number of the last turn
  entries,   \* the transcript of the turn
  flags,     \* its marks
  commit,    \* the commit state of its compactions
  answer,    \* the reply of the barrier the turn waits for
  mail,      \* the channel of each turn's writer
  writer,    \* whether each writer runs
  pending,   \* its batch
  broken,    \* its sticky failure
  fresh,     \* number of the last entry created
  failures   \* used part of MaxFailures

storeVars == <<disk, marked>>
hostVars == <<session, shown>>
turnVars == <<stage, turn, entries, flags, commit, answer>>
writerVars == <<mail, writer, pending, broken>>
countVars == <<fresh, failures>>
vars == <<storeVars, hostVars, turnVars, writerVars, countVars>>

Append_(i) == [op |-> "Append", id |-> i]
UpdateFlags(i, m) == [op |-> "UpdateFlags", id |-> i, mark |-> m]
Barrier(at) == [op |-> "Barrier", stage |-> at]
Shutdown == [op |-> "Shutdown"]

Ops == {Append_(i) : i \in Ids} \cup {UpdateFlags(i, m) : i \in Ids, m \in Marks}
         \cup {Barrier(at) : at \in {"flushing", "closing"}} \cup {Shutdown}

Stages == {"none", "running", "flushing", "storing", "failed", "closing", "kept", "lost"}

\* The type invariant; a writer that failed keeps a bounded batch, and nothing
\* is sent to a writer that was not begun.  (persistence.rs, FAILED_PENDING_MAX)
TypeOK ==
  /\ disk \in Seq(Ids) /\ marked \in [Ids -> Marks]
  /\ session \in {"closed", "rest", "turn"} /\ shown \in Seq(Ids)
  /\ stage \in Stages /\ turn \in 0 .. MaxTurns
  /\ entries \in Seq(Ids) /\ flags \in [Ids -> Marks]
  /\ commit \in {"clean", "pending", "committed"}
  /\ answer \in {"none", "Ok", "Err"}
  /\ mail \in [Turns -> Seq(Ops)]
  /\ writer \in [Turns -> {"none", "alive", "exited"}]
  /\ pending \in [Turns -> Seq(Ids)] /\ broken \in [Turns -> BOOLEAN]
  /\ fresh \in 0 .. MaxEntries /\ failures \in 0 .. MaxFailures
  /\ \A t \in Turns : /\ Len(pending[t]) <= (IF broken[t] THEN FailedMax ELSE BatchMax - 1)
                      /\ writer[t] = "none" => mail[t] = << >>

Plain == [i \in Ids |-> "plain"]
Members(s) == {s[n] : n \in DOMAIN s}

Init ==
  /\ disk = << >> /\ marked = Plain
  /\ session = "closed" /\ shown = << >>
  /\ stage = "none" /\ turn = 0 /\ entries = << >> /\ flags = Plain
  /\ commit = "clean" /\ answer = "none"
  /\ mail = [t \in Turns |-> << >>] /\ writer = [t \in Turns |-> "none"]
  /\ pending = [t \in Turns |-> << >>] /\ broken = [t \in Turns |-> FALSE]
  /\ fresh = 0 /\ failures = 0

-----------------------------------------------------------------------------
(* The turn                                                                *)

\* A closed channel drops what is sent.
Send(ops) == mail' = [mail EXCEPT ![turn] = IF writer[turn] = "alive" THEN @ \o ops ELSE @]

Goto(s) == stage' = s

\* The session is loaded from the store.
Load ==
  /\ session = "closed"
  /\ session' = "rest"
  /\ shown' = disk
  /\ UNCHANGED <<storeVars, turnVars, writerVars, countVars>>

\* A turn begins with the host's entries and the store's marks, and a writer.
BeginTurn ==
  /\ session = "rest"
  /\ turn < MaxTurns
  /\ session' = "turn"
  /\ turn' = turn + 1
  /\ Goto("running")
  /\ entries' = shown
  /\ flags' = [i \in Ids |-> IF i \in Members(shown) THEN marked[i] ELSE "plain"]
  /\ commit' = "clean"
  /\ answer' = "none"
  /\ writer' = [writer EXCEPT ![turn'] = "alive"]
  /\ UNCHANGED <<storeVars, shown, mail, pending, broken, countVars>>

\* append, append_batch and commit_staged: one entry, or an answer of the model
\* with its tool result, sent without an await in between.
Extend(n) ==
  LET new == [k \in 1 .. n |-> fresh + k]
  IN  /\ stage = "running"
      /\ fresh + n <= MaxEntries
      /\ fresh' = fresh + n
      /\ entries' = entries \o new
      /\ Send([k \in 1 .. n |-> Append_(new[k])])
      /\ UNCHANGED <<storeVars, hostVars, stage, turn, flags, commit, answer,
                     writer, pending, broken, failures>>

\* set_flags_projection: a micro compaction marks an entry.
Truncate(i) ==
  /\ stage = "running"
  /\ i \in Members(entries)
  /\ flags[i] = "plain"
  /\ flags' = [flags EXCEPT ![i] = "truncated"]
  /\ Send(<<UpdateFlags(i, "truncated")>>)
  /\ UNCHANGED <<storeVars, hostVars, stage, turn, entries, commit, answer,
                 writer, pending, broken, countVars>>

\* commit_compaction_lifecycle up to its first await.
BeginCommit ==
  /\ stage = "running"
  /\ commit # "pending"
  /\ fresh < MaxEntries
  /\ fresh' = fresh + 1
  /\ commit' = "pending"
  /\ Goto("flushing")
  /\ answer' = "none"
  /\ Send(<<Barrier("flushing")>>)
  /\ UNCHANGED <<storeVars, hostVars, turn, entries, flags, writer, pending,
                 broken, failures>>

CommitFlushed ==
  /\ stage = "flushing"
  /\ answer # "none"
  /\ Goto(IF answer = "Ok" THEN "storing" ELSE "failed")
  /\ answer' = "none"
  /\ UNCHANGED <<storeVars, hostVars, turn, entries, flags, commit, writerVars,
                 countVars>>

\* The lifecycle: every visible entry is excluded, and the summary is appended.
Compacted(marks) ==
  [i \in Ids |-> IF i \in Members(entries) THEN "excluded" ELSE marks[i]]

\* One transaction; an entry it marks must be there.
StoreApplies ==
  /\ Members(entries) \subseteq Members(disk)
  /\ disk' = Append(disk, fresh)
  /\ marked' = Compacted(marked)

Commit ==
  /\ stage = "storing"
  /\ StoreApplies
  /\ entries' = Append(entries, fresh)
  /\ flags' = Compacted(flags)
  /\ commit' = "committed"
  /\ Goto("running")
  /\ UNCHANGED <<hostVars, turn, answer, writerVars, countVars>>

\* The transaction fails, and may be durable all the same.
CommitFails ==
  /\ stage = "storing"
  /\ Goto("failed")
  /\ \/ ~(Members(entries) \subseteq Members(disk)) /\ UNCHANGED <<storeVars, failures>>
     \/ /\ failures < MaxFailures
        /\ failures' = failures + 1
        /\ StoreApplies \/ UNCHANGED storeVars
  /\ UNCHANGED <<hostVars, turn, entries, flags, commit, answer, writerVars, fresh>>

\* The turn is cancelled at either await; a call that was made may be durable.
CancelCommit ==
  /\ stage \in {"flushing", "storing"}
  /\ Goto("failed")
  /\ answer' = "none"
  /\ \/ stage = "storing" /\ StoreApplies
     \/ UNCHANGED storeVars
  /\ UNCHANGED <<hostVars, turn, entries, flags, commit, writerVars, countVars>>

\* Phase 8: the loop has ended, well or not, and the turn sends its last barrier.
Close ==
  /\ stage \in {"running", "failed"}
  /\ Goto("closing")
  /\ answer' = "none"
  /\ Send(<<Barrier("closing")>>)
  /\ UNCHANGED <<storeVars, hostVars, turn, entries, flags, commit, writer,
                 pending, broken, countVars>>

\* Slip: a barrier that succeeded is taken for the whole.
SlipJudge ==
  /\ stage = "closing"
  /\ answer # "none"
  /\ IF answer = "Err"
       THEN Goto("lost") /\ Send(<<Shutdown, Shutdown>>)
       ELSE Goto("kept") /\ Send(<<Shutdown>>)
  /\ UNCHANGED <<storeVars, hostVars, turn, entries, flags, commit, answer,
                 writer, pending, broken, countVars>>

\* The verdict on the turn; then its transcript is dropped, which ends the writer.
Judge ==
  /\ stage = "closing"
  /\ answer # "none"
  /\ IF answer = "Err" \/ commit = "pending"
       THEN Goto("lost") /\ Send(<<Shutdown, Shutdown>>)
       ELSE Goto("kept") /\ Send(<<Shutdown>>)
  /\ UNCHANGED <<storeVars, hostVars, turn, entries, flags, commit, answer,
                 writer, pending, broken, countVars>>

\* What no turn leaves behind in memory.
ForgetTurn ==
  /\ Goto("none")
  /\ entries' = << >>
  /\ flags' = Plain
  /\ commit' = "clean"
  /\ answer' = "none"
  /\ UNCHANGED turn

\* finish_prompt_turn: adopt the turn's entries, or remove the session.
Finish ==
  /\ stage \in {"kept", "lost"}
  /\ IF stage = "kept" THEN session' = "rest" /\ shown' = entries
                       ELSE session' = "closed" /\ shown' = << >>
  /\ ForgetTurn
  /\ UNCHANGED <<storeVars, writerVars, countVars>>

\* The process ends at any point; the store stays.
Crash ==
  /\ session # "closed" \/ \E t \in Turns : writer[t] = "alive"
  /\ session' = "closed"
  /\ shown' = << >>
  /\ ForgetTurn
  /\ writer' = [t \in Turns |-> IF writer[t] = "alive" THEN "exited" ELSE writer[t]]
  /\ mail' = [t \in Turns |-> << >>]
  /\ pending' = [t \in Turns |-> << >>]
  /\ UNCHANGED <<storeVars, broken, countVars>>

-----------------------------------------------------------------------------
(* The writer                                                              *)

Holds(t, op) == writer[t] = "alive" /\ mail[t] # << >> /\ Head(mail[t]).op = op

\* Slip: a failed batch is given up and the writer goes on.
SlipFlushed(t, batch) ==
  LET outcome(d, f) == [disk |-> d, pending |-> << >>, broken |-> FALSE, failures |-> f]
  IN  {outcome(disk \o batch, failures)}
        \cup IF failures < MaxFailures /\ batch # << >>
               THEN {outcome(disk, failures + 1)} ELSE {}

\* What the store call on a batch may do; a failure keeps the batch and sticks.
Flushed(t, batch) ==
  LET outcome(d, p, b, f) == [disk |-> d, pending |-> p, broken |-> b, failures |-> f]
  IN  IF batch = << >> \/ broken[t]
        THEN {outcome(disk, batch, broken[t], failures)}
        ELSE {outcome(disk \o batch, << >>, FALSE, failures)}
               \cup {outcome(d, batch, TRUE, failures + 1) :
                       d \in IF failures < MaxFailures THEN {disk, disk \o batch} ELSE {}}

Take(t, o) ==
  /\ mail' = [mail EXCEPT ![t] = Tail(@)]
  /\ disk' = o.disk
  /\ pending' = [pending EXCEPT ![t] = o.pending]
  /\ broken' = [broken EXCEPT ![t] = o.broken]
  /\ failures' = o.failures

\* The window ends while the channel is empty; a failed batch drives no timer.
WindowEnds(t) ==
  /\ writer[t] = "alive"
  /\ mail[t] = << >>
  /\ pending[t] # << >>
  /\ ~broken[t]
  /\ \E o \in Flushed(t, pending[t]) :
       /\ disk' = o.disk
       /\ pending' = [pending EXCEPT ![t] = o.pending]
       /\ broken' = [broken EXCEPT ![t] = o.broken]
       /\ failures' = o.failures
  /\ UNCHANGED <<marked, hostVars, turnVars, mail, writer, fresh>>

\* Slip: a failed writer keeps all that it is sent.
SlipTakeAppend(t) ==
  /\ Holds(t, "Append")
  /\ LET batch == Append(pending[t], Head(mail[t]).id)
     IN  IF Len(batch) >= BatchMax
           THEN \E o \in Flushed(t, batch) : Take(t, o)
           ELSE Take(t, [disk |-> disk, pending |-> batch, broken |-> broken[t],
                         failures |-> failures])
  /\ UNCHANGED <<marked, hostVars, turnVars, writer, fresh>>

TakeAppend(t) ==
  /\ Holds(t, "Append")
  /\ LET batch == IF broken[t] /\ Len(pending[t]) >= FailedMax
                    THEN pending[t]
                    ELSE Append(pending[t], Head(mail[t]).id)
     IN  IF Len(batch) >= BatchMax
           THEN \E o \in Flushed(t, batch) : Take(t, o)
           ELSE Take(t, [disk |-> disk, pending |-> batch, broken |-> broken[t],
                         failures |-> failures])
  /\ UNCHANGED <<marked, hostVars, turnVars, writer, fresh>>

\* Slip: the barrier answers without its batch.
SlipTakeBarrier(t) ==
  /\ Holds(t, "Barrier")
  /\ mail' = [mail EXCEPT ![t] = Tail(@)]
  /\ answer' = IF t = turn /\ stage = Head(mail[t]).stage
                 THEN IF broken[t] THEN "Err" ELSE "Ok"
                 ELSE answer
  /\ UNCHANGED <<storeVars, hostVars, stage, turn, entries, flags, commit,
                 writer, pending, broken, countVars>>

\* Slip: a failed writer does not answer.
SlipTakeBarrierSilent(t) ==
  /\ Holds(t, "Barrier")
  /\ \E o \in Flushed(t, pending[t]) :
       /\ Take(t, o)
       /\ answer' = IF t = turn /\ stage = Head(mail[t]).stage /\ ~o.broken
                      THEN "Ok"
                      ELSE answer
  /\ UNCHANGED <<marked, hostVars, stage, turn, entries, flags, commit, writer, fresh>>

\* The reply of a barrier nobody waits for is dropped.
TakeBarrier(t) ==
  /\ Holds(t, "Barrier")
  /\ \E o \in Flushed(t, pending[t]) :
       /\ Take(t, o)
       /\ answer' = IF t = turn /\ stage = Head(mail[t]).stage
                      THEN IF o.broken THEN "Err" ELSE "Ok"
                      ELSE answer
  /\ UNCHANGED <<marked, hostVars, stage, turn, entries, flags, commit, writer, fresh>>

\* Marks wait for the batch before them, and a failure refuses them.
TakeFlags(t) ==
  LET m == Head(mail[t])
  IN  /\ Holds(t, "UpdateFlags")
      /\ \E o \in Flushed(t, pending[t]) :
           LET there == m.id \in Members(o.disk)
               update == IF there THEN [marked EXCEPT ![m.id] = m.mark] ELSE marked
           IN  \/ /\ Take(t, o)
                  /\ marked' = IF o.broken THEN marked ELSE update
               \/ /\ ~o.broken
                  /\ o.failures < MaxFailures
                  /\ Take(t, [o EXCEPT !.broken = TRUE, !.failures = @ + 1])
                  /\ marked' \in {marked, update}
      /\ UNCHANGED <<hostVars, turnVars, writer, fresh>>

TakeShutdown(t) ==
  /\ Holds(t, "Shutdown")
  /\ \E o \in Flushed(t, pending[t]) : Take(t, o)
  /\ writer' = [writer EXCEPT ![t] = "exited"]
  /\ UNCHANGED <<marked, hostVars, turnVars, fresh>>

-----------------------------------------------------------------------------
Writer(t) ==
  WindowEnds(t) \/ TakeAppend(t) \/ TakeBarrier(t) \/ TakeFlags(t) \/ TakeShutdown(t)

CommitEnds == CommitFlushed \/ Commit \/ CommitFails \/ CancelCommit

Next ==
  \/ Load \/ BeginTurn
  \/ \E n \in 1 .. 2 : Extend(n)
  \/ \E i \in Ids : Truncate(i)
  \/ BeginCommit \/ CommitEnds \/ Close \/ Judge \/ Finish
  \/ Crash
  \/ \E t \in Turns : Writer(t)

\* The runtime runs the writers and the code behind an await.
Fairness ==
  /\ \A t \in Turns : WF_vars(Writer(t))
  /\ WF_vars(CommitEnds) /\ WF_vars(Judge) /\ WF_vars(Finish)

Spec == Init /\ [][Next]_vars

FairSpec == Spec /\ Fairness

-----------------------------------------------------------------------------
(* Properties                                                              *)

\* Between turns the host shows exactly what the store holds: a turn that ended
\* after a failed write, a failed or a cancelled compaction shows nothing, and a
\* reload finds what the last turn that was kept has shown, or more.
ShownIsDurable == session = "rest" => shown = disk

\* A barrier that answers Ok speaks for everything sent before it, entries and
\* marks, whatever the batch and its window were doing.
ConfirmedIsDurable ==
  /\ answer = "Ok"
  /\ \/ stage = "flushing"
     \/ stage = "closing" /\ commit # "pending"
  => disk = entries /\ marked = flags

\* A turn that sends its last barrier is settled, also behind a failed writer.
TurnSettles == stage = "closing" ~> session # "turn"

\* The phases of DurableHistory.
Phase ==
  CASE session # "turn" -> session
    [] stage \in {"kept", "lost"} -> stage
    [] stage \in {"failed", "closing"} /\ commit = "pending" -> "doomed"
    [] OTHER -> "turn"

History == INSTANCE DurableHistory WITH
  phase <- Phase,
  draft <- entries,
  intent <- IF session = "turn" THEN flags ELSE marked

\* The session keeps the promise of DurableHistory.
ImplementsDurableHistory == History!Spec
=============================================================================

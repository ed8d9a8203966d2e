-------------------------- MODULE UserInputSession --------------------------
(***************************************************************************)
(* One session at work on user input: clients send commands and stops,     *)
(* the host (peri-acp, host/user_input.rs, prompt_dispatch.rs, prompt.rs)  *)
(* reserves runs and starts them one at a time under the prompt lock, and  *)
(* the running loop (peri-agent, agent/stages) drains the queue, claims    *)
(* the inputs, appends them to the transcript and reports them delivered.  *)
(* Every lock acquisition and every await is a boundary between actions.   *)
(*                                                                         *)
(* The model's calls to a language model, its tools, and messages of the   *)
(* queue other than registered user inputs are one bit, `otherWork': the   *)
(* loop has a reason of its own to reason once more.                       *)
(***************************************************************************)
EXTENDS UserInputMailbox

CONSTANTS
  MaxIterations,  \* semantic iterations of a run (500 in the code)
  MaxKicks,       \* bound on scheduling calls added by retried commands
  MaxDisruptions  \* bound on stops, external runs, errors, aborts and closes

ASSUME BoundsAssumption ==
  MaxIterations \in Nat /\ MaxKicks \in Nat /\ MaxDisruptions \in Nat

VARIABLES
  pc,          \* where the holder of the prompt lock is
  holder,      \* the ticket that runs under the prompt lock, 0 when it is free
  batch,       \* inputs drained by Receive and not yet reported delivered
  transcript,  \* user inputs in the session's transcript
  iterations,  \* semantic iterations of the run
  otherWork,   \* tool results or other messages call for another iteration
  result,      \* how the loop ended
  waiting,     \* managed tickets whose host task waits for the prompt lock
  kicks,       \* pending calls of schedule_mailbox / reserve_run
  closing,     \* a session close has frozen the owner and is about to stop it
  stopsSent,   \* tickets some client has asked to stop
  disruptions  \* used part of MaxDisruptions

loopVars == <<pc, holder, batch, transcript, iterations, otherWork, result>>
hostVars == <<waiting, kicks, closing>>
clientVars == <<stopsSent, disruptions>>
vars == <<mailboxVars, loopVars, hostVars, clientVars>>

\* Where a run can be.
Phases == {"free", "keepgoing", "top", "drained", "claimed", "appended",
           "received", "acting", "idle", "suspended", "exited", "broken",
           "freezing", "settled", "failing", "finished"}
\* The phases in which the run's future may be dropped: it awaits there.
AwaitPhases == {"keepgoing", "top", "acting", "suspended", "exited", "settled"}

TypeOK ==
  /\ MailboxTypeOK
  /\ pc \in Phases
  /\ holder \in Nat
  /\ batch \in Seq(Inputs)
  /\ transcript \in Seq(Inputs)
  /\ iterations \in Nat
  /\ otherWork \in BOOLEAN
  /\ result \in Outcomes \cup {"None"}
  /\ waiting \in SUBSET Nat
  /\ kicks \in Nat
  /\ closing \in BOOLEAN
  /\ stopsSent \in SUBSET Nat
  /\ disruptions \in Nat

Init ==
  /\ MailboxInit
  /\ pc = "free"
  /\ holder = 0
  /\ batch = << >>
  /\ transcript = << >>
  /\ iterations = 0
  /\ otherWork = FALSE
  /\ result = "None"
  /\ waiting = {}
  /\ kicks = 0
  /\ closing = FALSE
  /\ stopsSent = {}
  /\ disruptions = 0

-----------------------------------------------------------------------------
(* Clients                                                                 *)

\* The enqueue and dispatch requests end in a call of schedule_mailbox.
Kick == kicks' = kicks + 1

Disrupt == disruptions < MaxDisruptions /\ disruptions' = disruptions + 1

ClientEnqueue(c, i) ==
  /\ Enqueue(c, i) \/ EnqueueKnown(c, i)
  /\ Kick
  /\ UNCHANGED <<loopVars, waiting, closing, clientVars>>

ClientDispatch(c, ids) ==
  /\ Dispatch(c, ids)
  /\ Kick
  /\ UNCHANGED <<loopVars, waiting, closing, clientVars>>

ClientTakeBack(c, i) ==
  /\ TakeBack(c, i)
  /\ UNCHANGED <<loopVars, hostVars, clientVars>>

\* A retry of a remembered command returns its receipt; the host still
\* schedules.
ClientRetry(c) ==
  /\ valid
  /\ receipts[c] # NoReceipt
  /\ receipts[c].op # "takeback"
  /\ kicks < MaxKicks
  /\ Kick
  /\ UNCHANGED <<mailboxVars, loopVars, waiting, closing, clientVars>>

\* A client asks to stop the run it sees; the request may arrive at any time
\* later, and more than once.
SendStop ==
  /\ active # NoRun
  /\ active.managed
  /\ active.attached
  /\ Disrupt
  /\ stopsSent' = stopsSent \cup {active.ticket}
  /\ UNCHANGED <<mailboxVars, loopVars, hostVars>>

ReceiveStop(t) ==
  /\ t \in stopsSent
  /\ StopAttempt(t)
  /\ UNCHANGED <<loopVars, hostVars, clientVars>>

\* A cancel without a request id stops whatever the session does (ticket 0).
LegacyStop ==
  /\ Disrupt
  /\ stopsSent' = stopsSent \cup {0}
  /\ Stop
  /\ UNCHANGED <<loopVars, hostVars>>

\* Closing the session: invalidate, then stop, under two locks.
Close ==
  /\ valid
  /\ Disrupt
  /\ Invalidate
  /\ closing' = TRUE
  /\ UNCHANGED <<loopVars, waiting, kicks, stopsSent>>

CloseStop ==
  /\ closing
  /\ Stop
  /\ closing' = FALSE
  /\ UNCHANGED <<loopVars, waiting, kicks, clientVars>>

DeliverCancel(t) ==
  /\ CancelToken(t)
  /\ UNCHANGED <<loopVars, hostVars, clientVars>>

-----------------------------------------------------------------------------
(* The host                                                                *)

\* schedule_mailbox, and the reserve_run at the end of each managed run.
Schedule ==
  /\ kicks > 0
  /\ kicks' = kicks - 1
  /\ IF CanReserve
     THEN ReserveRun /\ waiting' = waiting \cup {lastTicket'}
     ELSE UNCHANGED <<mailboxVars, waiting>>
  /\ UNCHANGED <<loopVars, closing, clientVars>>

\* The task of ticket t gets the prompt lock and attaches; when the ticket
\* was superseded it returns and tries to reserve again.
StartManaged(t) ==
  /\ t \in waiting
  /\ holder = 0
  /\ waiting' = waiting \ {t}
  /\ IF CanAttach(t)
     THEN /\ AttachAttempt(t)
          /\ holder' = t
          /\ pc' = "top"
          /\ UNCHANGED kicks
     ELSE /\ UNCHANGED <<mailboxVars, holder, pc>>
          /\ Kick
  /\ UNCHANGED <<batch, transcript, iterations, otherWork, result, closing, clientVars>>

\* A prompt with content (resume = FALSE), a continuation (FALSE) or an empty
\* prompt (TRUE) runs under the same lock; it brings a message of its own.
StartExternal(resume) ==
  /\ holder = 0
  /\ Disrupt
  /\ AttachExternalAttempt(resume)
  /\ holder' = lastTicket'
  /\ pc' = IF resume THEN "keepgoing" ELSE "top"
  /\ otherWork' = TRUE
  /\ UNCHANGED <<batch, transcript, iterations, result, hostVars, stopsSent>>

\* A task that fails or is dropped while it waits releases its ticket.
AbortWaiting(t) ==
  /\ t \in waiting
  /\ Disrupt
  /\ waiting' = waiting \ {t}
  /\ FinishAttempt(t, "Failed")
  /\ Kick
  /\ UNCHANGED <<loopVars, closing, stopsSent>>

\* A run that is dropped or fails outside the loop: fail_reserved cancels the
\* token, then finishes the attempt under a second lock.
AbortRun ==
  /\ pc \in AwaitPhases
  /\ Disrupt
  /\ pc' = "failing"
  /\ cancelled' = IF IsActive(holder) /\ active.attached
                  THEN cancelled \cup {holder} ELSE cancelled
  /\ UNCHANGED <<recordVars, receipts, active, admissionVars, queue, lastTicket,
                 cancelling, holder, batch, transcript, iterations, otherWork,
                 result, hostVars, stopsSent>>

FinishAborted ==
  /\ pc = "failing"
  /\ FinishAttempt(holder, "Failed")
  /\ pc' = "finished"
  /\ UNCHANGED <<holder, batch, transcript, iterations, otherWork, result,
                 hostVars, clientVars>>

\* The attempt is finished with its recorded outcome, else with the result.
Finish ==
  /\ pc = "settled"
  /\ FinishAttempt(holder, result)
  /\ pc' = "finished"
  /\ UNCHANGED <<holder, batch, transcript, iterations, otherWork, result,
                 hostVars, clientVars>>

SlipReleaseOnly ==
  /\ pc = "finished"
  /\ pc' = "free"
  /\ holder' = 0
  /\ iterations' = 0
  /\ otherWork' = FALSE
  /\ result' = "None"
  /\ UNCHANGED <<mailboxVars, batch, transcript, hostVars, clientVars>>
\* The prompt lock is released; the task then tries to reserve the next run.
Release ==
  /\ pc = "finished"
  /\ pc' = "free"
  /\ holder' = 0
  /\ iterations' = 0
  /\ otherWork' = FALSE
  /\ result' = "None"
  /\ Kick
  /\ UNCHANGED <<mailboxVars, batch, transcript, waiting, closing, clientVars>>

-----------------------------------------------------------------------------
(* The running loop                                                        *)

LoopStep(from, to) ==
  /\ pc = from
  /\ pc' = to
  /\ UNCHANGED <<holder, hostVars, clientVars>>

\* An empty prompt on an empty history returns at once unless inputs were
\* handed off to it.
KeepGoing ==
  /\ \/ /\ LoopStep("keepgoing", "top")
        /\ UNCHANGED result
     \/ /\ \A i \in WithStatus("Dispatching") : i \notin handedOff
        /\ transcript = << >>
        /\ LoopStep("keepgoing", "settled")
        /\ result' = "Completed"
  /\ UNCHANGED <<mailboxVars, batch, transcript, iterations, otherWork>>

\* Top of the loop: a cancelled run ends before it receives anything.
Interrupted ==
  /\ holder \in cancelled
  /\ LoopStep("top", "exited")
  /\ result' = "Interrupted"
  /\ UNCHANGED <<mailboxVars, batch, transcript, iterations, otherWork>>

Drain ==
  /\ holder \notin cancelled
  /\ LoopStep("top", IF queue = << >> THEN "received" ELSE "drained")
  /\ DrainAll
  /\ batch' = queue
  /\ UNCHANGED <<transcript, iterations, otherWork, result>>

Claim ==
  /\ LoopStep("drained", "claimed")
  /\ MarkClaimed(Range(batch))
  /\ UNCHANGED <<batch, transcript, iterations, otherWork, result>>

AppendToTranscript ==
  /\ LoopStep("claimed", "appended")
  /\ transcript' = transcript \o batch
  /\ UNCHANGED <<mailboxVars, batch, iterations, otherWork, result>>

Deliver ==
  /\ LoopStep("appended", "received")
  /\ MarkDelivered(Range(batch))
  /\ batch' = << >>
  /\ otherWork' = TRUE
  /\ UNCHANGED <<transcript, iterations, result>>

\* Compact, Reason and Act, within the budget of semantic iterations.
StartIteration ==
  /\ otherWork
  /\ \/ /\ iterations < MaxIterations
        /\ LoopStep("received", "acting")
        /\ iterations' = iterations + 1
        /\ UNCHANGED result
     \/ /\ iterations >= MaxIterations
        /\ LoopStep("received", "exited")
        /\ result' = "Failed"
        /\ UNCHANGED iterations
  /\ UNCHANGED <<mailboxVars, batch, transcript, otherWork>>

\* The stages end with or without tool calls; they may notice a cancelled token.
EndIteration ==
  /\ \/ /\ LoopStep("acting", "top")
        /\ otherWork' \in BOOLEAN
        /\ UNCHANGED result
     \/ /\ holder \in cancelled
        /\ LoopStep("acting", "exited")
        /\ result' = "Interrupted"
        /\ UNCHANGED otherWork
  /\ UNCHANGED <<mailboxVars, batch, transcript, iterations>>

IterationError ==
  /\ pc = "acting"
  /\ Disrupt
  /\ pc' = "exited"
  /\ result' = "Failed"
  /\ UNCHANGED <<mailboxVars, holder, hostVars, stopsSent, batch, transcript,
                 iterations, otherWork>>

\* Nothing was received and no background task is active: the loop ends
\* unless the queue was filled meanwhile.
Complete ==
  /\ ~otherWork
  /\ IF queue = << >>
     THEN LoopStep("received", "exited") /\ result' = "Completed"
     ELSE LoopStep("received", "top") /\ UNCHANGED result
  /\ UNCHANGED <<mailboxVars, batch, transcript, iterations, otherWork>>

\* Nothing was received and a background task is active: the idle boundary.
GoIdle ==
  /\ ~otherWork
  /\ LoopStep("received", "idle")
  /\ EnterIdle
  /\ UNCHANGED <<batch, transcript, iterations, otherWork, result>>

\* An input handed over at the boundary is received without suspending.
Suspend ==
  /\ IF queue = << >>
     THEN LoopStep("idle", "suspended") /\ UNCHANGED mailboxVars
     ELSE LoopStep("idle", "top") /\ LeaveIdle
  /\ UNCHANGED <<batch, transcript, iterations, otherWork, result>>

\* The suspended loop wakes for a cancel, for a user input, or (otherwise) for
\* a change of the background tasks, which may bring a message.
Wake ==
  /\ LeaveIdle
  /\ IF holder \in cancelled
     THEN LoopStep("suspended", "exited") /\ result' = "Interrupted"
     ELSE LoopStep("suspended", "top") /\ UNCHANGED result
  /\ UNCHANGED <<batch, transcript, iterations>>

SlipWakeForInputOnly ==
  /\ queue # << >>
  /\ Wake
  /\ UNCHANGED otherWork
WakeForInput ==
  /\ queue # << >> \/ holder \in cancelled
  /\ Wake
  /\ UNCHANGED otherWork

WakeForTask ==
  /\ Wake
  /\ otherWork' \in BOOLEAN

\* Flush, then classify: a completed loop counts as completed even when it was
\* cancelled meanwhile; any other end of a cancelled run is an interruption.
Settle ==
  /\ LoopStep("exited", "settled")
  /\ result' = IF result = "Failed" /\ holder \in cancelled THEN "Interrupted" ELSE result
  /\ RecordAttemptOutcome(holder, result')
  /\ UNCHANGED <<batch, transcript, iterations, otherWork>>

\* The flush failed: the outcome is a failure and the owner is frozen.
SettleInconsistent ==
  /\ pc = "exited"
  /\ Disrupt
  /\ pc' = "broken"
  /\ result' = "Failed"
  /\ RecordAttemptOutcome(holder, "Failed")
  /\ UNCHANGED <<holder, hostVars, stopsSent, batch, transcript, iterations, otherWork>>

Freeze ==
  /\ LoopStep("broken", "freezing")
  /\ Invalidate
  /\ UNCHANGED <<batch, transcript, iterations, otherWork, result>>

FreezeStop ==
  /\ LoopStep("freezing", "settled")
  /\ Stop
  /\ UNCHANGED <<batch, transcript, iterations, otherWork, result>>

-----------------------------------------------------------------------------
Client ==
  \/ \E c \in Commands :
       \/ \E i \in Inputs : ClientEnqueue(c, i) \/ ClientTakeBack(c, i)
       \/ \E ids \in SUBSET Inputs \ {{}} : ClientDispatch(c, ids)
       \/ ClientRetry(c)
  \/ SendStop
  \/ \E t \in stopsSent : ReceiveStop(t)
  \/ LegacyStop
  \/ Close

\* What may go wrong or come from elsewhere, never assumed to happen.
Environment ==
  \/ \E resume \in BOOLEAN : StartExternal(resume)
  \/ \E t \in waiting : AbortWaiting(t)
  \/ AbortRun
  \/ IterationError
  \/ SettleInconsistent
  \/ WakeForTask

\* The steps of the task that holds the prompt lock.
Run ==
  \/ KeepGoing \/ Interrupted \/ Drain \/ Claim \/ AppendToTranscript \/ Deliver
  \/ StartIteration \/ EndIteration \/ Complete \/ GoIdle \/ Suspend
  \/ WakeForInput \/ Settle \/ Freeze \/ FreezeStop
  \/ Finish \/ FinishAborted \/ Release

StartWaiting == \E t \in waiting : StartManaged(t)
Cancel == \E t \in cancelling : DeliverCancel(t)

Next == Client \/ Environment \/ Run \/ Schedule \/ StartWaiting \/ Cancel \/ CloseStop

\* The threads that are running keep running: the loop's task, the host's
\* scheduling calls and waiting tasks, and whoever has still to cancel a token.
Fairness ==
  /\ WF_vars(Run)
  /\ WF_vars(Schedule)
  /\ WF_vars(StartWaiting)
  /\ WF_vars(Cancel)
  /\ WF_vars(CloseStop)

Spec == Init /\ [][Next]_vars
FairSpec == Spec /\ Fairness

-----------------------------------------------------------------------------
(* Safety                                                                  *)

Selected == WithStatus("Dispatching")

\* Custody: every accepted input is in exactly one place, and its record says
\* which. Selected inputs wait in `ready', lie in the queue, or were drained and
\* not yet claimed; claimed ones are in the batch; delivered ones are in the
\* transcript. The record and the queue are under different locks.
Custody ==
  /\ IsInjective(records) /\ IsInjective(ready) /\ IsInjective(queue)
  /\ IsInjective(batch)
  /\ Range(records) = {i \in Inputs : status[i] # "Absent"}
  /\ Range(ready) = Selected \ handedOff
  /\ Range(queue) \cap Range(batch) = {}
  /\ Range(queue) \cup (IF pc = "drained" THEN Range(batch) ELSE {})
       = Selected \cap handedOff
  /\ WithStatus("Claimed") = IF pc \in {"claimed", "appended"} THEN Range(batch) ELSE {}

\* While a Stop or a failure holds the session paused, no input is selected
\* for a run and none lies in the queue for the loop to receive.
NothingAdmittedWhilePaused == paused => ready = << >> /\ queue = << >>

\* Whoever runs under the prompt lock is the registered attempt: no stop, no
\* failed ticket and no other task takes the registration away from it.
RunIsRegistered ==
  pc \notin {"free", "finished"} =>
    active # NoRun /\ active.attached /\ active.ticket = holder

\* An attempt that nobody interrupted has an untouched token: an old
\* interruption, cancelled late, never reaches a later run.
UninterruptedIsUncancelled ==
  active # NoRun /\ active.reason = "None" /\ pc # "failing" =>
    active.ticket \notin cancelled \cup cancelling

\* A run is marked stopped only for a Stop that named it, for a Stop that
\* named none, or because the session closed.
NoStaleStop ==
  active # NoRun /\ active.reason = "Stop" /\ valid =>
    active.ticket \in stopsSent \/ 0 \in stopsSent

\* Inputs that were never sent with "send now" are delivered in order.
OrdinaryFifo ==
  LET chosen == UNION {receipts[c].ids : c \in {d \in Commands :
                  receipts[d] # NoReceipt /\ receipts[d].op = "dispatch"}}
  IN  \A m, n \in DOMAIN records :
        /\ m < n
        /\ records[m] \notin chosen /\ records[n] \notin chosen
        /\ status[records[n]] \in {"Claimed", "Delivered"}
        => status[records[m]] \in {"Claimed", "Delivered", "Withdrawn"}

-----------------------------------------------------------------------------
(* Action properties                                                       *)

\* A paused session goes on only by a command not executed before or by an
\* empty prompt: a repeated command does not resume it.
OnlyFreshCommandsResume ==
  [][paused /\ ~paused' => receipts' # receipts \/ holder' # holder]_vars

\* A frozen owner releases nothing more: no input is selected or handed off,
\* no ticket is issued.
FrozenForGood ==
  [][~valid => /\ ~valid'
               /\ lastTicket' = lastTicket
               /\ Len(queue') <= Len(queue)
               /\ \A i \in Inputs : status'[i] = "Dispatching" => status[i] = "Dispatching"]_vars

\* The records lag behind the queue and the transcript; with what Receive has
\* drained counted as claimed and what the transcript holds as delivered, the
\* session follows the lifecycle it promises (UserInputDelivery).
DeliveryPhase ==
  [i \in Inputs |-> CASE i \in Range(transcript) -> "Delivered"
                     [] i \in Range(batch) \ Range(transcript) -> "Claimed"
                     [] OTHER -> status[i]]

Delivery == INSTANCE UserInputDelivery WITH
  arrived <- records, phase <- DeliveryPhase, log <- transcript

ImplementsDelivery == Delivery!Spec

-----------------------------------------------------------------------------
(* Liveness                                                                *)

\* A selected input does not stay selected: it is claimed, or a stop or a
\* failure queues it again. One that was handed off has the loop's attention
\* even at the idle boundary; only one that still waits for a run of its own may
\* be kept waiting by a loop that waits for its background tasks.
SelectedIsServed ==
  \A i \in Inputs :
    status[i] = "Dispatching" ~>
      status[i] # "Dispatching" \/ (pc = "suspended" /\ i \notin handedOff)

\* A cancelled run ends and gives the prompt lock back.
CancelledRunEnds == holder \in cancelled ~> holder \notin cancelled

-----------------------------------------------------------------------------
\* "Submitting again, continuing explicitly or sending now resumes processing
\* after a stop": when nothing runs or is about to, a session that is neither
\* paused nor frozen has no input left waiting.
ResubmissionResumes ==
  valid /\ ~paused /\ active = NoRun /\ waiting = {} /\ kicks = 0 /\ pc = "free"
    => WithStatus("Queued") = {}

\* "While it idles waiting for background tasks, the current attempt is reused
\* to wake the loop": a suspended loop that a user input may wake is not left
\* suspended beside a queued input.
IdleTakesNext == suspended /\ Wakeable => WithStatus("Queued") = {}
=============================================================================

# Formal models of peri

peri is a terminal coding agent: a Rust workspace in which a session owns a
conversation, a loop (Receive, Compact, Reason, Act) drives a language model and
its tools, and a host serves the session to clients over the Agent Client
Protocol. This directory holds TLA+ models of that program, the configurations
that check them with TLC, and theorems about them checked by TLAPS.

Six parts of the system are modelled, each where several actors meet: the path of a
user's input from a client's command to the transcript; the background tasks of a
session and the loop that waits for them; the continuations that bring deferred
results, prompts and cron triggers to a turn; the history of a session between
memory and store; the requests by which a run asks the user, with the client that
owns them; and the bounded batcher of the telemetry client.

## 1. Inventory

### The system's components

| Component | State it keeps | Operations | What makes it correct |
| --- | --- | --- | --- |
| User input mailbox (`peri-agent/src/session/user_input_mailbox.rs`) | records of inputs, selected inputs, command receipts, active attempt, paused / suspended / valid | enqueue, dispatch, take_back; reserve, attach, record, finish; stop, invalidate; enter/leave idle; mark claimed/delivered | custody of each input, delivery at most once, order, no admission while paused or frozen, tickets that cannot act for one another |
| Session message queue (`peri-acp-types/src/session/queue.rs`) | one deque of prompts, infos and deferred results | push, push_batch, drain_all, withdraw_user_inputs | a claim and a withdrawal are decided once, under its lock |
| Session inbox (`.../inbox.rs`) | queue handle, `Notify` | push with wake, await_wake | no lost wake-up of an idle loop |
| RCRA loop (`peri-agent/src/agent/stages`) | iteration budget, tool-call flag, registry cursor | Receive, Compact, Reason, Act, idle suspension, exit | ends when cancelled, never exits beside work, never idles beside an input |
| Turn execution (`peri-agent/src/session/exec`) | the turn under construction, terminal classification | run_session_loop, flush, settle, cascade | the outcome recorded matches what was persisted |
| Transcript and writer (`peri-agent/src/session/transcript`) | entries, flags, pending appends, sticky error | append, barrier, rewind, compaction batch, shutdown | order kept, a barrier answers for everything before it |
| Background tasks (`peri-agent/src/agent/async_tasks`) | tasks by id and status, activity version, scope | register, claim, complete, cancel, shutdown | one settlement per task, limits, an idle loop hears of changes |
| Sub-agents (`peri-agent/src/session/subagent`) | child sessions, inboxes | launch, resume, message, cascade of cancels | one run per thread, results routed once |
| Compaction (`peri-agent/src/agent/compact_v2`) | plans, commit state | project, commit | all or nothing in memory and on disk |
| Host prompt dispatch (`peri-acp/src/host/{user_input,prompt_dispatch,prompt}.rs`) | prompt lock per session, guards | schedule_mailbox, dispatch_prompt_turn, run_prompt | one run at a time, every ticket settled |
| Continuation scheduler (`peri-acp/src/host/continuation.rs`) | armed, epoch, in-flight and pending flags | cancel arms, completion takes, prompt bumps the epoch | results of background agents are consumed once and not lost |
| Host tasks and shutdown (`task_scope.rs`, `shutdown.rs`, `lifecycle.rs`) | admission, tracked tasks | spawn, close, drain, abort | nothing admitted after closing, every task accounted for |
| Session cancel and close (`notify.rs`, `session/mod.rs`) | cancel tokens | cancel, pre-close, close | a stop reaches the run it names |
| Workspace and leases (`workspace.rs`, `lease.rs`) | owner, bindings | validate, reassert | only the owner writes |
| Interaction broker (`peri-acp/src/broker`) | one gate, pending requests | approval, question | one at a time, each answered or timed out |
| ACP client of the terminal UI (`peri-tui/src/acp_client`) | route, generation, prompt epoch, active run, retired runs, owners of requests | new, load, switch, close, delete; run started / done; register, claim, drain; snapshot | a request has one owner and one answer, an ended run is not revived, loading ends |
| Langfuse batcher (`langfuse-client/src/batcher`) | queue, permits, buffer, watermarks | add, try_add, flush, shutdown | no permit leaks, a flush speaks for what came before it, failures are reported |
| Controller, runtime (`peri-controller`, `peri-runtime`) | handles, event sequence | register, run, publish | events stamped in order |
| Model adapters (`peri-model`) | request, stream, retry state | send, stream, retry | a retry never repeats visible output |
| Middlewares, resources, LSP, JS runtime, workflow scripts, rendering, theme, packages | see `PROJECT.json` | | |

`PROJECT.json` lists every component with its sources and whether it is modelled.

### How they interact

A client's request is served under the host's session lock and calls the
mailbox, which decides under its own mutex. Accepted requests end in
`schedule_mailbox`, which reserves a ticket and spawns a task; the task waits for
the session's prompt lock, attaches its ticket, which pushes the selected inputs
to the message queue, and runs the loop. Receive drains the queue (queue lock),
reports the claim (mailbox lock), appends to the transcript (transcript lock) and
reports the delivery (mailbox lock). A stop pauses the mailbox, pulls back from
the queue what Receive has not drained, and cancels the run's token after the
unlock. When the loop ends the transcript is flushed, the outcome recorded, the
attempt finished, and the task tries to reserve the next run. Prompts,
continuations and empty prompts of older clients take the same prompt lock and
register with the mailbox as external attempts.

A tool call of a turn may begin a background task: a shell, a sub-agent or a
workflow. Its execution is registered, and when it ends a finalizer claims the
entry, pushes the result to the session's queue, wakes the inbox and completes the
entry. A loop with nothing to do but with active tasks suspends; the inbox's permit,
the registry's version and the turn's cancel wake it. A result that comes when no
turn takes it, for example because the turn was cancelled, asks the continuation
scheduler for a turn; prompts supersede continuations by an epoch.

Each turn has a transcript with a writer task behind a channel. The turn sends
appends and marks, and a barrier before a compaction and at its end; the answer of
the last barrier decides whether the host adopts the turn's entries or drops the
session, to be loaded again from the store.

A run that needs an approval or an answer sends a request to the client and waits; only
a question has a time-out (five minutes unless configured otherwise). The client's pump handles notifications and requests in order under an
operation gate; session transitions, deletions and queue snapshots hold that gate
while they wait for the host, and the replies they wait for overtake what the pump
has yet to handle. Requests belong to the prompt the client believes to be active.

### What is hard

* three locks around one input (mailbox, queue, transcript), never all held;
* cancellation after the unlock, on a token captured before it;
* requests that arrive late, twice, or for an attempt that has ended;
* a task dropped at any await, a flush that fails, a close in two steps;
* an idle boundary that inputs, stops and background tasks race to;
* scheduling that is edge-triggered: a missed call leaves an input waiting;
* a task that ends between two looks of a loop that is about to suspend;
* claims, cancels and a shutdown that all want to settle the same task;
* a store call whose outcome nobody knows, because it failed or was cancelled;
* a client that learns of runs from two channels with different speeds;
* permits, acknowledgements and failure reports that a cancelled caller abandons.

`PROJECT.json` names each hazard at its line with the properties that cover it.

## 2. The modules

| Module | What it is |
| --- | --- |
| `UserInputSession` | the session at work: clients, host and running loop around the mailbox |
| `UserInputMailbox` | the mailbox's operations and the queue's, each one action; extended by `UserInputSession` |
| `UserInputDelivery` | the abstract lifecycle of an input; `UserInputSession` implements it |
| `BackgroundTasks` | registry, task manager, scope and the three kinds of execution |
| `IdleLoop` | the loop's end of turn over `BackgroundTasks`, which it extends |
| `AsyncContinuation` | the continuation scheduler, `session/cancel` and `dispatch_prompt_turn` |
| `TranscriptWriter` | a session's turns, their writers and the store |
| `DurableHistory` | the abstract history of a session; `TranscriptWriter` implements it |
| `ReverseInteraction` | requests of runs to the user: broker, transport, client, popup |
| `LangfuseBatcher` | the bounded queue, its worker and its concurrent callers |
| `SequenceFilter` | the order-preserving filter, without recursion |
| `MC*` | symmetry and small instances for TLC |
| `UserInputSessionProofs`, `UserInputDeliveryProofs`, `BackgroundTasksProofs` (with `IdleLoop`), `AsyncContinuationProofs`, `TranscriptWriterProofs`, `ReverseInteractionProofs`, `LangfuseBatcherProofs` | the theorems |
| `SequenceFilterProofs` | lemmas about the filter, for the others |

In every module an action is the code between two points at which another actor can
act: a critical section, or the code between two awaits where others can see the
difference. A definition that begins with `Slip` is a plausible slip of the code in
the definition below it; none is part of a specification. They show that each
property can fail (`mutants` in `PROJECT.json`).

### UserInputMailbox, UserInputSession, UserInputDelivery

State of the mailbox. `records`, `status` and `handedOff` are `MailboxState::records`
(ids in order, `state`, `handed_off`); `ready`, `paused`, `suspended`, `valid` have the
code's names; `receipts` is `commands`; `active` is `Option<ActiveRun>` with `cancel`
reduced to `attached` and tickets to numbers issued in order (`lastTicket`);
`queue` holds the user-input entries of the `MessageQueue`. `cancelling` and
`cancelled` are the tokens: an interruption clones the token under the lock
(`cancelling`) and cancels it after the unlock (`cancelled`), which other threads
can fall between.

State of the session. `pc` is the place of the task that holds the prompt lock
(`holder`); `batch` is `consumed` in `run_receive`; `waiting` are spawned tasks that
wait for the lock; `kicks` are calls of `schedule_mailbox` or `reserve_run` that are
due; `otherWork` stands for everything else that makes the loop reason once more:
tool results, and messages that are not registered inputs.

Every operation of the mailbox runs under one mutex and is one action; Receive is
four (`Drain`, `Claim`, `AppendToTranscript`, `Deliver`); `invalidate` and
`fail_reserved` take their lock twice and are two each. The future of a run may be
dropped where it awaits (`AwaitPhases`), not inside Receive, which awaits nothing.

Abstractions. Contents, fingerprints, snapshots and revisions are left out: an
input and a command are names, and requests conflict iff they differ. Requests the
mailbox refuses change nothing and are not actions. A managed run and an external
one both end in a further scheduling call (`Release`): a managed task tries
`reserve_run` again (`user_input.rs:265`), and prompts, continuations and cron turns
call `schedule_mailbox` when they have returned (`server_loop.rs:91`,
`continuation.rs:211` and `:348`). The second freeze of an inconsistent session
(`run_prompt`, after the first in the turn's settlement) repeats the first and is left
out. One generation is modelled: a frozen owner is replaced by a new mailbox whose
requests the old one refuses.

### BackgroundTasks and IdleLoop

`entry` is the registry's table, `due` the change notifications that have been
decided under its lock and not yet sent, `stage` the execution of each task: a shell
runs in the foreground, may be promoted, is reaped (a group that is not seen to end is
left to the guard's cleanup) and cleaned up; a sub-agent passes
its gate, registers, runs and publishes; a workflow is admitted, registers and runs.
All three end in claim, push, wake and complete. `toCancel` is what `cancel_all` has
listed; `uncertain` and `stray` are the evidence that a shutdown's report rests on.

`IdleLoop` adds the loop: the recheck of the queue, the version, the probe of the
active tasks, the entry into the idle state, the wait for three signals and the
last looks before the exit, each an action of its own because a task may move
between any two of them.

Abstractions. Tasks begin in the loop's tool calls, and no task of an earlier turn is
there at the start. The callback of a shell and a sub-agent may panic, within
`MaxPanics`. The bound of eight passes at the tail of the loop is never reached here:
a pass repeats only for a message or a change. Messages to a running sub-agent, output
capture and listings are left out, the limit of the workflow registry is merged with
the registry's, and the ways to kill a process on different systems are one.

### AsyncContinuation

`armed`, `epoch`, `pending`, `inFlight` and `token` are fields of `SessionState`, `idle`
the suspended flag, `chan` the channel of continuation requests, `waiting` the
continuations that wait for the prompt lock, with the epoch they were made in. A turn
(`turn`) goes through admission, marking, registration of its token, the push of its
prompt, the loop and its settlement, in the holds of the sessions' lock that the code
takes. `arms`, `takes`, `spent` and `excused` are history.

Abstractions. Leases, workspace ownership and the approval of a cron trigger are left
out; a validation that fails is one failure. A continuation that a cancel has armed
may find the result already taken by the cancelled turn and is then spent for nothing
(`continuation.rs:65`), which `ResultHasTaker` names (`spent`).

### TranscriptWriter and DurableHistory

`entries` and `flags` are a turn's transcript, `mail`, `pending` and `broken` the writer's
channel, batch and sticky failure, `disk` and `marked` the store. Each turn has its own
writer, which outlives it. A failing store call may or may not have been durable; a
call that is cancelled with its turn is resolved at the cancel. A crash drops
everything but the store, and covers the abort of tasks at a host shutdown.
`DurableHistory` says what a reader of the store may find: an old history extended
by a prefix of a turn, or a compaction as a whole.

Abstractions. `rewind_to`, staging and the batch of flag updates are not sent by the
product and are left out, as are entries inherited from a parent. `replace_by_id`
changes memory only (`agent_context.rs:72-83`, `transcript.rs:435-443`), so
`ShownIsDurable` speaks of which entries and marks there are and not of their contents.
Entry ids are unique, so the store's `INSERT OR IGNORE` never ignores.

### ReverseInteraction

The host's part: `home` and `instance` (session and mailbox), `run` and `stopped`, `ask`
(each request at its run). The transport's: `down`, the one queue of notifications and
requests, and `up`. The client's: `InteractionLifecycleState` field by field, `owner` for
`pending`, `inputs` for what snapshots and events say of runs, and the operation that
holds the gate (`gate`, `other`, `reply`). The interface's: `notices`, `popup`, `replies`
and `shown`, the loading mark. An operation that awaits nothing of the host is one
action that finds the gate free; a transition, a deletion and a snapshot hold it over
several. Replies reach the client at once (`mpsc.rs:58`) and overtake what the pump has
not handled; so a late request of an older run can be registered under a newer
run's epoch.

Abstractions. Requests differ only in that a question may time out (`Questions`) and
an approval may not; both share the one popup slot of the model. The lease path of
unmanaged prompts, the worker that settles what was dropped, the end of the transport,
buffered notifications, the second slot of the interface and the projection check are
left out; so are recovery of a dirty session and read-only loads. A session that is
closing cannot be loaded. Sub-agents in the background do not ask.

### LangfuseBatcher

The event of an adding call is the call; calls are numbered in the order they start.
The semaphore is fair: a permit that is given back goes to the call that has waited
longest, which holds it although it may not run for a while (`stage` "reserved"). Any
call may be cancelled where it waits, and the worker may die at any point of its work.
The counter of dropped events, the handle's owner counting and the retries of the HTTP
client are left out; `accepted`, `replaced`, `sent`, `owed` and `told` are history.

## 3. The runs

| Run | Bounds | Shows |
| --- | --- | --- |
| `session_inputs` | 3 inputs, capacity 2, 3 commands, 1 retry, 1 disruption | custody, order, nothing admitted while paused, the runner is registered, late cancels and stops touch nobody else, only fresh commands resume, a frozen owner stays frozen, refinement of `UserInputDelivery` |
| `session_liveness` | 2 inputs, 2 commands, 1 disruption, fair | selected inputs are served, cancelled runs end |
| `tasks` | 3 of 2 shells, an agent and a workflow; limits 1; 1 panic, 1 shutdown | one outcome per task, visible until routed, claims settle, what `Complete` means |
| `idle` | a shell and an agent, 1 panic, fair | no wake is lost, nothing is left behind, the turn ends |
| `continuation` | 2 agents, 1 cron trigger, 1 prompt, 2 cancels, 1 failure | results and triggers find a taker, no chain, no empty run, marks end with their turn |
| `transcript` | 2 turns, 4 entries, batches of 2, 1 failure, crashes, fair | what is shown is durable, a barrier speaks for all before it, refinement of `DurableHistory`, a turn settles |
| `interaction` | 2 sessions, 2 runs, 1 request, 3 disturbances | one taker per request, owners, no revival, loading ends, who the gate waits for |
| `batcher` | 4 calls, 2 places, 2 policies, fair | permits, order, flush, failure reports, shutdown, an answer comes |
| `session_resubmission`, `session_idle`, `continuation_injection`, `interaction_order` | small | disagreements with the documentation (below) |

The bounds. A *disruption* of the session is a stop, an external run, an aborted task,
an error of the stages, a failed flush or a close; `MaxDisruptions` bounds their
total, so every combination up to it is explored at every point of the other steps.
Two inputs are enough for one to overtake, block or outlive the other; the third meets
a full mailbox and separates "sent now" inputs from ordinary ones. Three commands
allow submit, send now and take back around one input, or two submissions and a
repetition. `MaxIterations = 1` suffices because nothing but the budget depends on the
number of iterations. `MaxKicks` bounds repeated commands. The capacity is 32 in the
code and 2 here, so that it is reached. `MaxBegun = 3` lets one task be over its limit
while another ends and a third is cancelled. The batches of `TranscriptWriter` (64,
and 256 after a failure) are 2, so that a full batch, a window and a kept batch all
occur with four entries. In `interaction` a request can be left by one run and met by
the next, and three disturbances allow a switch of the session and back, or a stop
between two snapshots; the request is a question, whose time-out may or may not come,
so the run covers an approval too; what more requests would add, the order of several,
is in the proof. In `batcher` a call can wait while one holds a reserved permit, one
is queued and one flushes. `DropNew` is not listed there: its `try_add` behaves as
under `Block`.

Symmetry is used where only safety is checked. Deadlock is checked in `batcher`, where
the end is an explicit step; elsewhere it is not, because the commands, tasks or turns
run out and a session with nothing to do stops.

Fairness. `UserInputSession!FairSpec` assumes that the task that holds the prompt lock
goes on (`Run`), that due scheduling calls are made (`Schedule`), that a waiting task
obtains a free lock (`StartWaiting`), that an interruption cancels the token it captured
(`Cancel`), and that a close makes its second step (`CloseStop`). These are steps of
threads that are running, or of tasks the runtime polls once they can proceed; model
calls and tools are assumed to return. Nothing is assumed of clients, of the
background tasks (`WakeForTask`), or of failures. So `SelectedIsServed` admits a loop
that waits for its background tasks while an input waits for a run of its own, and
`CancelledRunEnds` holds although the background tasks may never change.

`IdleLoop!FairIdleSpec` assumes that the loop's code and the finalizers run, that
notifications are sent, and that each execution ends some day (a panic is no
end); a shutdown that has begun goes on, and nobody is assumed to cancel anything. `TurnEnds` is false without the assumption
on executions: a loop waits as long as its tasks do. `TranscriptWriter!FairSpec` assumes
that writers run and that the code behind an await goes on; not that the store
succeeds. `LangfuseBatcher!FairSpec` assumes that the worker runs, that a submission ends
(the client has a timeout of 30 s and bounded retries, `client.rs:38-39`, `:109-126`), and
that a caller takes an answer it has; nothing of a call that holds a permit, which may
never be polled again. `AsyncContinuation` and `ReverseInteraction` have no fairness:
what must happen there is stated as safety, of a state of rest (`AtRest`) or of what is
still on its way (`LoadingHasEnd`, `GateWaitsForCancelled`).

### Disagreements with the documentation

`docs/design/user-input-queue.md` line 50 says that submitting again resumes
processing after a stop. In `session_resubmission` Receive has drained an input, a
stop pauses the session and marks the attempt, and a second input is submitted
before the attempt settles. `enqueue` clears `paused`, and `promote_next` releases nothing
while the first input is in flight. `finish_attempt` then finds an attempt that was
stopped in a session that is not paused: it neither reclaims nor promotes, and the
second input stays queued with nothing scheduled.

Lines 14 and 15 say that at the idle boundary the first queued input is handed over,
and that the current attempt is reused while background tasks run. In `session_idle`
an input is selected while the session is free, and an external prompt attaches
before a run is reserved for it. At that prompt's idle boundary `promote_next` refuses
because an input is already selected, and the selected input is not handed over
either: both wait until the background tasks end.

`prompt_dispatch.rs` line 111 says that a suspended loop consumes an injected prompt
within its turn. In `continuation_injection` the flag is read, the workspace validation is
awaited, and meanwhile the turn completes, looks behind itself and settles; the push
then succeeds and the prompt stays in the queue of a session at rest.

`interaction_lifecycle.rs` line 588 says that a stale start of a run is recognised. In
`interaction_order` a snapshot that names run 2 overtakes the start of run 1 in the
pump's queue. Run 1 was never opened, so it is not among the retired; its start is
then opened over run 2, which is retired, and the end of run 1 shows the interface idle
while run 2 runs.

## 4. The proofs

TLAPS proves, for every value of the constants, every invariant and every action
property that a passing run checks, and both refinements:

| Module | Theorem | Property |
| --- | --- | --- |
| `UserInputSession` | `TypeInvariant` | `TypeOK` |
| | `InputsAreInCustody` | `Custody` |
| | `WrittenOnce` | no input is in the transcript twice |
| | `MailboxIsBounded` | no more than `Capacity` inputs are pending, those claimed included |
| | `PauseHoldsInputsBack` | `NothingAdmittedWhilePaused` |
| | `OrdinaryInputsStayInOrder` | `OrdinaryFifo` |
| | `RunStaysRegistered` | `RunIsRegistered` |
| | `CancellationIsExact` | `UninterruptedIsUncancelled` |
| | `StopIsExact` | `NoStaleStop` |
| | `FrozenStaysFrozen` | `FrozenForGood` (action) |
| | `RetriesDoNotResume` | `OnlyFreshCommandsResume` (action) |
| | `SessionDelivers` | `ImplementsDelivery` (refinement) |
| `UserInputDelivery` | `LifecycleDeliversOnce` | `ExactlyOnce` |
| `BackgroundTasks` | `TasksTypeOK` | `TypeOK` |
| | `TaskEndsOnce` | `OneOutcome` |
| | `VisibleUntilRouted` | `HeldUntilRouted` |
| | `ClaimSettles` | `ClaimIsOwned` |
| | `ShutdownIsComplete` | `CompleteMeansStopped` |
| | `NothingRegistersBehind` | `OnlyUncancellableRemain` |
| `IdleLoop` | `SuspendedIsWoken` | `NoWakeLost` |
| | `TurnLeavesNothing` | `NothingLeftBehind` (action) |
| `AsyncContinuation` | `ContinuationTypeOK` | `TypeOK` |
| | `NoContinuationChain` | `NoChain` |
| | `ContinuationFindsWork` | `NoEmptyRun` |
| | `TriggersAreTaken` | `TriggerHasTaker` |
| | `ResultsAreTaken` | `ResultHasTaker` |
| `TranscriptWriter` | `TranscriptTypeOK` | `TypeOK` |
| | `ShownIsInTheStore` | `ShownIsDurable` |
| | `BarrierConfirms` | `ConfirmedIsDurable` |
| | `SessionKeepsItsPromise` | `ImplementsDurableHistory` (refinement) |
| `ReverseInteraction` | `InteractionTypeOK` | `TypeOK` |
| | `RequestIsSettledOnce` | `RequestHasOneTaker` |
| | `OwnersAreCurrent` | `OwnedByOpenPrompt` |
| | `RetiredStaysRetired` | `NoRevival` |
| | `BoundaryWaitsForCancelled` | `GateWaitsForCancelled` |
| | `LoadingIsEnded` | `LoadingHasEnd` |
| `LangfuseBatcher` | `BatcherTypeOK` | `TypeOK` |
| | `PermitsAreKept` | `PermitsKept` |
| | `EventsStayInOrder` | `EventsKeptInOrder` |
| | `FlushSpeaksForAll` | `FlushCovers` |
| | `FailuresAreTold` | `NothingConfirmedUnseen` |
| | `ShutdownSendsAll` | `ShutdownDrains` |

A theorem about an invariant `P` is `Spec => []P` (`IdleSpec => []P` for the loop); the
others are `Spec => P`. The fair specifications of the runs imply these, so the theorems
hold of them too. The assumptions are those the modules name on their constants
(`CapacityAssumption`, `BoundsAssumption`, `NoneAssumption`, `InteractionAssumption` and
the like), which TLC evaluates in the runs. `SessionDelivers` and `LifecycleDeliversOnce`
together say that a session delivers each input it accepts once.

**Sequences.** The withdrawals, replacements and drains of the code keep some elements of
a sequence in their order, which `Keep` of `SequenceFilter` does without recursion.
`SequenceFilterProofs` shows first that the m-th kept index exists and is in the domain,
that indices grow, and that the range of the result is the kept part of the range. Then
`KeepUnique`: a sequence onto which an increasing map takes exactly the kept indices is
`Keep`. From that follow what it does to a concatenation, an appended element, a tail, a
second filter and one element taken away, each by writing down the map.

**UserInputSession.** Type correctness is not inductive alone: releasing the oldest
queued input chooses an index of `records`, which exists only if every input with a
record is listed there. `SessionOK` adds that, shown for each operation of the mailbox
and then for each action. The properties of runs need `RunsOK`: tickets are issued in
order, so a new one is not held, waiting, cancelled or named by any stop; a ticket is at
one place at a time; a run that is not attached has no token, so no interruption reached
it; and a stop that follows a freeze leaves the owner frozen. With those the three
properties of runs are inductive.

Custody needs more. `MailboxKept` ties the mailbox to the queue: the ready list is what
is selected and not handed off; the queue and what Receive has drained but not claimed
are together what is selected and handed off, without repetition. `BatchOK` and
`TranscriptOK` say the same of what Receive holds and of what it has written and not yet
reported. Together with `NothingAdmittedWhilePaused` and `Arranged` they form
`CustodyOK`. `Arranged` is the order with the selected inputs counted in: `OrdinaryFifo`
speaks of what is claimed and would not survive a claim. Every operation of the mailbox
is one of five changes of the records (`RecordEffect`: accept, release, give back, send
now, withdraw), each of which keeps the order. They are also five steps of `UserInputDelivery`,
which gives the refinement: `Drain` is its claim and `AppendToTranscript` its
delivery, since those are the points after which a withdrawal or a second write is
impossible, and the two reports to the mailbox are stutters. The capacity is a guard of the
lifecycle too, so a mailbox that accepts too much does not implement it; `RoomKept`
says that no step but an acceptance adds to what is pending, which gives `MailboxIsBounded`.
`FrozenForGood` and `OnlyFreshCommandsResume` are shown action by action from the guards
and `SessionOK`.

**UserInputDelivery.** The log's elements are delivered inputs, each once, and a delivery
writes every claimed input once, in some order.

**BackgroundTasks.** The invariant adds to the properties which stages each kind of
execution passes through (`Kinds`), that an execution that has begun is visible or was
told to stop (`VisibleOrTold`), that an outcome is announced once, by a notification that
is due or was sent (`OutcomeOnce`), and that a closed scope admits nobody again
(`ClosedForGood`). The last makes the listing of a shutdown final; the evidence of
processes makes `Complete` true for good, not only when it is reported.

**IdleLoop.** Of the steps of tasks, callbacks and shutdowns the loop need only know what
they do to its signals (`Signals`): an entry that goes is told, a result that comes has a
wake behind it, and nothing is taken back. With the invariant of the tasks the
loop's own part is small (`IdleInv`): past a probe that saw no active task there is none
(`NoneActive`, since only the loop's tool calls begin tasks), past one that saw some, one
is still there or its end is being told (`Roused`), and a result that came after the look
at the queue owes a wake (`WakeOwed`). `NothingLeftBehind` adds that a published task is
visible until it is settled (`RoutedVisible`). TLC checked `IdleInv` with a shell, an
agent and a workflow before it was proved.

**AsyncContinuation.** That a result or a trigger has a taker is a statement about rest,
and its inductive form says for every other state who the taker will be. A trigger that
waits is marked, and the turn that runs, a continuation of the current epoch, a
request in the channel or a prompt on its way will look at the mark (`TriggerMarked`,
`TriggerCalled`). An agent that still runs will meet its turn or an armed cancel
(`ActiveAwaited`), a turn that ends by itself leaves none (`EndsAlone`), a cancelled turn leaves
the cancel armed or what came of it (`CancelAnswered`), and a result that waits is
received, or asked for (`ResultCalled`). `EpochCounts` and `ArmedOnce` bound the epoch and
the continuations that cancels cause; the latter is `NoChain`.

**TranscriptWriter.** While a writer has not failed, the store, the batch and the appends in the
channel are together the turn's transcript, and the marks likewise (`WrittenOK`). `MailOK`
says that the barrier a turn waits for is the last message of its channel, so when it is answered Ok nothing is
left behind it and the store is the transcript. The writer of a settled
turn has nothing left to write (`TurnsOK`), which is why a session loaded from the store cannot be overtaken by it.
Behind a failed compaction a writer gets no more appends, the second case
of `WrittenOK`. For the refinement each step of a writer persists a prefix or marks, a
compaction is one step, a barrier's verdict decides the turn, the host's choice adopts the
history or gives it up, and everything else stutters.

**LangfuseBatcher.** The invariant says where everything is: each admitted event is
replaced, sent, in the batch, in the buffer or queued, in one place (`Partition`,
`OnceEach`); a queued flush has nothing of what it owes behind it (`QueueOwed`), so
`DropOldest`, which takes an event behind the last flush only, never takes an owed one; when
its barrier is acknowledged all it owes has been sent (`AckOwed`); and the snapshot it
carries reaches every failure among those, while the watermark only rises over
failures that some caller has seen (`SnapshotsOK`, `AckedOK`). For the order, what left the
queue followed by the events in it is what was admitted and not replaced (`Ordered`);
replacing takes an event out of both sides, and a worker that died stays dead.

**ReverseInteraction.** Two facts about order carry the proof. Notifications and requests
are handled and shown in the order in which the host sent them (`DownOK`, `OrderOK`), and
of the requests of a session only the youngest can be waiting (`AskersOK`). Snapshots
overtake them: a reply names a run that is retired, or one whose end has not been seen and
is still to be told (`ReplyOK`); a run whose start has been handled is known, and one whose
end has been handled is retired (`KnownOK`); and a run that was seen to end is retired or
can no longer be named by anything on its way (`EndedOK`), which gives `NoRevival`.
`RequestHasOneTaker` follows from what a step does to requests: the host withdraws some, the
client claims some, and four actions send, register, show and end one. An update of the
client's knowledge either retires runs or only adds to it, which is all `ShownOK`, and with it
`LoadingHasEnd`, needs to know. `GateWaitsForCancelled` rests on the host closing a session,
with its runs cancelled, before it waits for the prompt lock (`HostOK`). `OrderOK` matters only
from the second request on, which the run does not reach.

Model-checked only are the liveness properties (`SelectedIsServed`, `CancelledRunEnds`,
`TurnEnds`, `TurnSettles`, `AnswerComes`): they need reasoning about fairness and ENABLED
that the prover does not support. The four disagreements above are counterexamples of TLC.

## 5. Plan

The modules above are done, and what they claim as safety is proved. What would add most
next:

1. The safety part of the liveness arguments: from each waiting state the step that is
   assumed fair is enabled by what the invariants say (a ready input has a scheduling call
   due or a holder of the lock; a barrier in a channel has a living writer).
2. The steps of `session/cancel` against the turn it names, in `AsyncContinuation`, as an
   action property.
3. Host tasks: admission against closing, drain and abort; then the retry of model
   requests, and the resume of a workflow from its journal.

## 6. Not modelled

Rendering, themes, wire encodings, provider protocols, tools and storage back ends
are data conversion or input and output, and they are most of the repository's lines.
What the loop receives from models, tools and background tasks is nondeterministic in
the models. The modules share the queue, the prompt lock and the loop, but are
checked apart: `UserInputSession` sees background work as `WakeForTask` and other turns as
external runs, `AsyncContinuation` sees the mailbox's runs as turns of kind "input", and
`TranscriptWriter` is the flush that `UserInputSession` makes in one step. A composition
of all of them is out of TLC's reach. `PROJECT.json` gives the reason for each component
that is left out.

------------------------- MODULE AsyncContinuation -------------------------
(***************************************************************************)
(* The scheduler of internal continuations (peri-acp, host/continuation.rs,*)
(* host/prompt_dispatch.rs, host/notify.rs).  A session runs one turn at a *)
(* time, under its prompt lock.  Results of background agents and triggers *)
(* of cron wait in the session's queue; when no turn would take them the   *)
(* host starts one by itself: once after a cancel, and again as long as a  *)
(* completed turn leaves messages behind.  A user's prompt supersedes what *)
(* has not begun.                                                          *)
(*                                                                         *)
(* One action is one hold of the sessions' lock, one operation on the      *)
(* queue or on a channel, or one step of the turn between two of them.     *)
(***************************************************************************)
EXTENDS Naturals, Sequences, FiniteSets

CONSTANTS
  Results,     \* background agents, each with the result it will publish
  Crons,       \* triggers of cron
  Prompts,     \* prompts that users send outside the mailbox
  MaxCancels,  \* bound on session/cancel
  MaxFailures  \* bound on turns that fail and prompts that are refused

ASSUME ContinuationAssumption ==
  /\ IsFiniteSet(Prompts)
  /\ Results \cap (Crons \cup Prompts) = {}
  /\ Crons \cap Prompts = {}
  /\ MaxCancels \in Nat /\ MaxFailures \in Nat

\* Background shells and workflows are left out: their notifications never start a
\* turn.  The turn of an input of the mailbox is one that the model begins in.
VARIABLES
  queue,     \* the messages of the session's queue
  task,      \* each background task: none, running, routed, done
  cron,      \* the triggers that have not fired
  prompt,    \* each prompt: new, bumped, injecting, waiting, done
  chan,      \* the channel of continuation requests
  armed,     \* SessionState.continuation_armed
  epoch,     \* SessionState.continuation_epoch
  pending,   \* SessionState.continuation_mq_steering_pending
  inFlight,  \* SessionState.continuation_in_flight
  token,     \* SessionState.cancel_token is present
  idle,      \* the flag idle_suspended
  waiting,   \* per epoch, the continuations that wait for the prompt lock
  turn,      \* the turn that holds the prompt lock
  cancels,   \* cancels so far
  failures,  \* failures so far
  arms,      \* cancels that hit the turn of a user
  takes,     \* continuations that a cancel has caused
  spent,     \* one of them found nothing to take
  excused    \* what waits was left behind by a failure, or by a user who
             \* cancelled the continuation itself or whose prompt came late

workVars == <<queue, task, cron>>
stateVars == <<armed, epoch, pending, inFlight, token>>
historyVars == <<arms, takes, spent, excused>>
boundVars == <<cancels, failures>>
vars == <<queue, task, cron, prompt, chan, armed, epoch, pending, inFlight, token,
          idle, waiting, turn, cancels, failures, arms, takes, spent,
          excused>>

Messages == Results \cup Crons \cup Prompts
Epochs == 0 .. Cardinality(Prompts)

Requests == {"agent", "mq"}

Kinds == {"none", "prompt", "continuation", "input"}
Places == {"none", "admitting", "marking", "starting", "opening", "loop", "looked",
           "ended", "settling"}
Turns == [kind : Kinds, at : Places, brings : SUBSET Prompts, epoch : Epochs,
          cancelled : BOOLEAN]

NoTurn ==
  [kind |-> "none", at |-> "none", brings |-> {}, epoch |-> 0, cancelled |-> FALSE]

\* A turn with the prompts it brings, or with the epoch it was scheduled in.
NewTurn(kind, ps, e) ==
  [kind |-> kind, at |-> "admitting", brings |-> ps, epoch |-> e, cancelled |-> FALSE]

Init ==
  /\ queue = {}
  /\ task = [t \in Results |-> "none"]
  /\ cron = Crons
  /\ prompt = [p \in Prompts |-> "new"]
  /\ chan = <<>>
  /\ armed = FALSE /\ pending = FALSE /\ inFlight = FALSE
  /\ token = FALSE /\ idle = FALSE
  /\ epoch = 0
  /\ waiting = [e \in Epochs |-> 0]
  /\ turn \in {NoTurn, NewTurn("input", {}, 0)}
  /\ cancels = 0 /\ failures = 0
  /\ arms = 0 /\ takes = 0 /\ spent = FALSE /\ excused = FALSE

-----------------------------------------------------------------------------
(* Background tasks, cron and the channel                                  *)

At(place) == turn.at = place
Goto(place) == turn' = [turn EXCEPT !.at = place]

HasAgentResult == queue \cap Results # {}
HasMessages == queue # {}

\* A task counts as active until its callback has returned.
Active(t) == task[t] \in {"running", "routed"}

\* A tool call of the running turn begins a task.
Spawn(t) ==
  /\ At("loop") /\ ~idle
  /\ task[t] = "none"
  /\ task' = [task EXCEPT ![t] = "running"]
  /\ UNCHANGED <<queue, cron, prompt, chan, stateVars, idle, waiting, turn,
                 boundVars, historyVars>>

\* on_bg_complete: the result first, then the notification.
Route(t) ==
  /\ task[t] = "running"
  /\ task' = [task EXCEPT ![t] = "routed"]
  /\ queue' = queue \cup {t}
  /\ UNCHANGED <<cron, prompt, chan, stateVars, idle, waiting, turn, boundVars,
                 historyVars>>

NotifyScheduler(t) ==
  /\ task[t] = "routed"
  /\ task' = [task EXCEPT ![t] = "done"]
  /\ chan' = Append(chan, "agent")
  /\ UNCHANGED <<queue, cron, prompt, stateVars, idle, waiting, turn, boundVars,
                 historyVars>>

AwaitLock(e) == waiting' = [waiting EXCEPT ![e] = @ + 1]

\* take_continuation_if_armed: one continuation for one cancel.
TakeIfArmed ==
  /\ armed
  /\ armed' = FALSE
  /\ takes' = takes + 1
  /\ AwaitLock(epoch)

\* A request for what a turn has left: it waits for a continuation in flight.
TakeSteering ==
  /\ pending' = TRUE
  /\ IF inFlight THEN UNCHANGED waiting ELSE AwaitLock(epoch)

\* One round of the scheduler, in one hold of the sessions' lock.
Schedule ==
  /\ chan # <<>>
  /\ chan' = Tail(chan)
  /\ \/ /\ Head(chan) = "mq"
        /\ TakeSteering
        /\ UNCHANGED <<armed, takes>>
     \/ /\ Head(chan) = "agent"
        /\ TakeIfArmed
        /\ UNCHANGED pending
     \/ /\ Head(chan) = "agent" /\ ~armed
        /\ UNCHANGED <<armed, takes, pending, waiting>>
  /\ UNCHANGED <<workVars, prompt, epoch, inFlight, token, idle, turn, boundVars,
                 arms, spent, excused>>

\* The scheduler of cron: message, mark and epoch in one hold.
FireCron(c) ==
  /\ c \in cron
  /\ cron' = cron \ {c}
  /\ queue' = queue \cup {c}
  /\ pending' = TRUE
  /\ AwaitLock(epoch)
  /\ UNCHANGED <<task, prompt, chan, armed, epoch, inFlight, token, idle, turn,
                 boundVars, historyVars>>

-----------------------------------------------------------------------------
(* session/cancel                                                          *)

\* Slip: the cancel of a continuation asks for another one.
SlipCancelArms == TRUE

CancelArms == ~inFlight

\* Slip: a result that was notified before the cancel is not looked for.
SlipAsksAtOnce == FALSE

AsksAtOnce == CancelArms /\ HasAgentResult

\* One hold; the request it returns is sent behind the hold by the server loop,
\* before anything else the loop does.
Cancel ==
  /\ cancels < MaxCancels
  /\ token
  /\ cancels' = cancels + 1
  /\ turn' = [turn EXCEPT !.cancelled = TRUE]
  /\ armed' = (armed \/ CancelArms)
  /\ arms' = IF turn.kind = "continuation" THEN arms ELSE arms + 1
  /\ chan' = IF AsksAtOnce THEN Append(chan, "agent") ELSE chan
  /\ excused' = (excused \/ turn.kind = "continuation")
  /\ UNCHANGED <<workVars, prompt, epoch, pending, inFlight, token, idle, waiting,
                 failures, takes, spent>>

-----------------------------------------------------------------------------
(* A prompt before it holds the prompt lock                                *)

\* What has not begun is superseded before the prompt waits for the lock.
Submit(p) ==
  /\ prompt[p] = "new"
  /\ prompt' = [prompt EXCEPT ![p] = "bumped"]
  /\ armed' = FALSE
  /\ epoch' = epoch + 1
  /\ UNCHANGED <<workVars, chan, pending, inFlight, token, idle, waiting, turn,
                 boundVars, historyVars>>

LookAtIdle(p) ==
  /\ prompt[p] = "bumped"
  /\ prompt' = [prompt EXCEPT ![p] = IF idle THEN "injecting" ELSE "waiting"]
  /\ UNCHANGED <<workVars, chan, stateVars, idle, waiting, turn, boundVars,
                 historyVars>>

\* The suspended turn gets the prompt; the caller's request has been answered.
Inject(p) ==
  /\ prompt[p] = "injecting"
  /\ prompt' = [prompt EXCEPT ![p] = "done"]
  /\ queue' = queue \cup {p}
  /\ excused' = (excused \/ turn.cancelled \/ ~(At("loop") \/ At("looked")))
  /\ UNCHANGED <<task, cron, chan, stateVars, idle, waiting, turn, boundVars, arms,
                 takes, spent>>

Fail == failures < MaxFailures /\ failures' = failures + 1 /\ excused' = TRUE

\* The workspace no longer validates: the prompt fails after it has superseded.
Refuse(p) ==
  /\ prompt[p] \in {"injecting", "waiting"}
  /\ prompt' = [prompt EXCEPT ![p] = "done"]
  /\ Fail
  /\ UNCHANGED <<workVars, chan, stateVars, idle, waiting, turn, cancels,
                 arms, takes, spent>>

-----------------------------------------------------------------------------
(* The turn under the prompt lock                                          *)

\* A continuation that waits gets the lock.
LeaveWait(e) ==
  /\ waiting[e] > 0
  /\ waiting' = [waiting EXCEPT ![e] = @ - 1]

Acquire ==
  /\ turn = NoTurn
  /\ \/ \E p \in Prompts :
          /\ prompt[p] = "waiting"
          /\ prompt' = [prompt EXCEPT ![p] = "done"]
          /\ turn' = NewTurn("prompt", {p}, 0)
          /\ UNCHANGED waiting
     \/ \E e \in Epochs :
          /\ LeaveWait(e)
          /\ turn' = NewTurn("continuation", {}, e)
          /\ UNCHANGED prompt
  /\ UNCHANGED <<workVars, chan, stateVars, idle, boundVars, historyVars>>

\* Slip: a continuation runs whatever is in the queue.
SlipDispatchable(e) == e = epoch

\* continuation_dispatchable: not superseded, and there is something to take.
Dispatchable(e) ==
  /\ e = epoch
  /\ IF pending THEN HasMessages ELSE HasAgentResult

\* The admission: a continuation that is superseded or has nothing to take
\* gives the lock back.
Admit ==
  /\ At("admitting")
  /\ IF turn.kind # "continuation" THEN Goto("starting")
     ELSE IF Dispatchable(turn.epoch) THEN Goto("marking")
     ELSE turn' = NoTurn
  /\ spent' = (spent \/ (turn' = NoTurn /\ turn.epoch = epoch /\ takes > 0))
  /\ UNCHANGED <<workVars, prompt, chan, stateVars, idle, waiting, boundVars, arms,
                 takes, excused>>

\* A second hold marks the continuation.
Mark ==
  /\ At("marking")
  /\ inFlight' = TRUE
  /\ pending' = FALSE
  /\ Goto("starting")
  /\ UNCHANGED <<workVars, prompt, chan, armed, epoch, token, idle, waiting,
                 boundVars, historyVars>>

\* run_prompt registers the token by which the turn can be cancelled.
Register ==
  /\ At("starting")
  /\ token' = TRUE
  /\ Goto("opening")
  /\ UNCHANGED <<workVars, prompt, chan, armed, epoch, pending, inFlight, idle,
                 waiting, boundVars, historyVars>>

\* The turn pushes its own prompt; a continuation brings none.
Open ==
  /\ At("opening")
  /\ queue' = queue \cup turn.brings
  /\ Goto("loop")
  /\ UNCHANGED <<task, cron, prompt, chan, stateVars, idle, waiting, boundVars,
                 historyVars>>

\* Receive takes all that waits, also after a wake.
Drain ==
  /\ At("loop") /\ ~idle
  /\ ~turn.cancelled
  /\ queue # {}
  /\ queue' = {}
  /\ excused' = FALSE
  /\ spent' = FALSE
  /\ UNCHANGED <<task, cron, prompt, chan, stateVars, idle, waiting, turn, boundVars,
                 arms, takes>>

Suspend ==
  /\ At("loop") /\ ~idle
  /\ queue = {}
  /\ \E t \in Results : Active(t)
  /\ idle' = TRUE
  /\ UNCHANGED <<workVars, prompt, chan, stateVars, waiting, turn, boundVars,
                 historyVars>>

\* A message, the end of a task, or the cancel.
Wake ==
  /\ idle
  /\ queue # {} \/ turn.cancelled \/ \A t \in Results : ~Active(t)
  /\ idle' = FALSE
  /\ UNCHANGED <<workVars, prompt, chan, stateVars, waiting, turn, boundVars,
                 historyVars>>

\* The loop completes only with an empty queue and no active task.
Complete ==
  /\ At("loop") /\ ~idle
  /\ queue = {}
  /\ \A t \in Results : ~Active(t)
  /\ Goto("looked")
  /\ UNCHANGED <<workVars, prompt, chan, stateVars, idle, waiting, boundVars,
                 historyVars>>

Interrupt ==
  /\ At("loop") /\ ~idle
  /\ turn.cancelled
  /\ Goto("ended")
  /\ UNCHANGED <<workVars, prompt, chan, stateVars, idle, waiting, boundVars,
                 historyVars>>

\* A model error, a tool's panic or the iteration limit.
FailTurn ==
  /\ At("loop") /\ ~idle
  /\ Fail
  /\ Goto("ended")
  /\ UNCHANGED <<workVars, prompt, chan, stateVars, idle, waiting, cancels,
                 arms, takes, spent>>

\* An assembly error ends the turn before or after its token is registered; a
\* token that is there stays until the turn settles.
FailStart ==
  /\ At("starting") \/ At("opening")
  /\ Fail
  /\ Goto("settling")
  /\ UNCHANGED <<workVars, prompt, chan, stateVars, idle, waiting, cancels, arms,
                 takes, spent>>

\* Behind a completed loop: what came since the last look asks for a turn.
LookBehind ==
  /\ At("looked")
  /\ chan' = IF HasMessages THEN Append(chan, "mq") ELSE chan
  /\ Goto("ended")
  /\ UNCHANGED <<workVars, prompt, stateVars, idle, waiting, boundVars, historyVars>>

\* finish_prompt_turn
Finish ==
  /\ At("ended")
  /\ token' = FALSE
  /\ Goto("settling")
  /\ UNCHANGED <<workVars, prompt, chan, armed, epoch, pending, inFlight, idle,
                 waiting, boundVars, historyVars>>

\* Slip: a request that waited for the continuation in flight is dropped.
SlipSettle ==
  /\ At("settling")
  /\ inFlight' = FALSE
  /\ pending' = FALSE
  /\ token' = FALSE
  /\ turn' = NoTurn
  /\ UNCHANGED <<workVars, prompt, chan, armed, epoch, idle, waiting,
                 boundVars, historyVars>>

\* Slip: the mark of a continuation is left by a turn that was cancelled.
SlipSettleCancelled ==
  /\ At("settling")
  /\ inFlight' = (inFlight /\ turn.cancelled)
  /\ pending' = (pending /\ HasMessages)
  /\ chan' = IF pending' THEN Append(chan, "mq") ELSE chan
  /\ token' = FALSE
  /\ turn' = NoTurn
  /\ UNCHANGED <<workVars, prompt, armed, epoch, idle, waiting, boundVars,
                 historyVars>>

\* The end of dispatch_prompt_turn: one hold, a request behind it, the lock.
\* A token that an early error has left is dropped.
Settle ==
  /\ At("settling")
  /\ inFlight' = FALSE
  /\ pending' = (pending /\ HasMessages)
  /\ chan' = IF pending' THEN Append(chan, "mq") ELSE chan
  /\ token' = FALSE
  /\ turn' = NoTurn
  /\ UNCHANGED <<workVars, prompt, armed, epoch, idle, waiting, boundVars,
                 historyVars>>

-----------------------------------------------------------------------------
TurnStep ==
  \/ Admit \/ Mark \/ Register \/ Open \/ Drain \/ Suspend \/ Wake \/ Complete
  \/ Interrupt \/ LookBehind \/ Finish \/ Settle

PromptStep(p) == LookAtIdle(p) \/ Inject(p)

TaskStep(t) == Route(t) \/ NotifyScheduler(t)

Next ==
  \/ TurnStep \/ Acquire \/ FailTurn \/ FailStart \/ Schedule \/ Cancel
  \/ \E t \in Results : Spawn(t) \/ TaskStep(t)
  \/ \E c \in Crons : FireCron(c)
  \/ \E p \in Prompts : Submit(p) \/ PromptStep(p) \/ Refuse(p)

Spec == Init /\ [][Next]_vars

-----------------------------------------------------------------------------
(* Properties                                                              *)

\* The marks that outlive no turn: whichever way a turn ends, the next cancel and
\* the next request of the queue do not meet the mark, the token or the suspension
\* of one that is over.  (continuation.rs, in_flight; prompt.rs, the cancel token)
MarksFollowTurn ==
  /\ inFlight <=> /\ turn.kind = "continuation"
                  /\ turn.at \notin {"none", "admitting", "marking"}
  /\ turn.at \in {"opening", "loop", "looked", "ended"} => token
  /\ token => \/ turn.at \in {"opening", "loop", "looked", "ended"}
              \/ At("settling") /\ excused
  /\ idle => At("loop")

\* The type invariant, with the marks that follow the turn.
TypeOK ==
  /\ queue \subseteq Messages
  /\ task \in [Results -> {"none", "running", "routed", "done"}]
  /\ cron \subseteq Crons
  /\ prompt \in [Prompts -> {"new", "bumped", "injecting", "waiting", "done"}]
  /\ chan \in Seq(Requests)
  /\ armed \in BOOLEAN /\ pending \in BOOLEAN /\ inFlight \in BOOLEAN
  /\ token \in BOOLEAN /\ idle \in BOOLEAN
  /\ epoch \in Epochs
  /\ waiting \in [Epochs -> Nat]
  /\ turn \in Turns
  /\ cancels \in Nat /\ failures \in Nat
  /\ arms \in Nat /\ takes \in Nat /\ spent \in BOOLEAN /\ excused \in BOOLEAN
  /\ MarksFollowTurn

\* Nothing of the host will look at the queue any more by itself.
AtRest ==
  /\ turn = NoTurn
  /\ chan = <<>>
  /\ \A e \in Epochs : waiting[e] = 0
  /\ \A p \in Prompts : prompt[p] \in {"new", "done"}

\* A deferred result of a background agent is not forgotten, whatever the order of
\* its notification and of the cancel of the turn that began it: when the host comes
\* to rest it has been taken, or a failure left it, or the user cancelled the
\* continuation that was to take it, or that continuation was spent on a result
\* that the cancelled turn had taken itself.  (continuation.rs, the race of cancel
\* and callback)
ResultHasTaker ==
  AtRest /\ (\A t \in Results : ~Active(t)) /\ queue \cap Results # {} =>
    excused \/ spent

\* A cancel causes one continuation at most, and the cancel of a continuation
\* none: no chain of continuations that the user can only cancel again.
NoChain == takes <= arms

\* A continuation that has begun finds a message: the check under the prompt lock
\* is still true when the loop of the turn first receives, so the model is never
\* called for nothing.
NoEmptyRun ==
  turn.kind = "continuation" /\ turn.at \in {"marking", "starting", "opening"} =>
    queue # {}

\* A trigger of cron is not forgotten, whichever turn runs when it fires: the mark it
\* sets outlives the turns that do not take it, and the end of a turn asks again.  When
\* a trigger waits at rest, something has failed since the last drain, or the user
\* cancelled the continuation that was to take it, or a prompt was injected too late.
\* (prompt_dispatch.rs, mq_steering_reschedule)
TriggerHasTaker == AtRest /\ queue \cap Crons # {} => excused

\* A prompt that was injected into a suspended turn is taken by a turn: it does not
\* stay in the queue of a session that has come to rest.  (prompt_dispatch.rs, the
\* injection: "the suspended loop wakes and consumes it")
InjectedPromptTaken == AtRest => queue \cap Prompts = {}
=============================================================================

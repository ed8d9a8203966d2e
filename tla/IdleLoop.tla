------------------------------ MODULE IdleLoop ------------------------------
(***************************************************************************)
(* The end of a turn against the session's background tasks (peri-agent,   *)
(* agent/stages/mod.rs, run_react_loop; peri-acp-types, session/inbox.rs). *)
(* The loop may only end when no task is active and no result waits; while *)
(* a task is active it suspends on three signals: the cancel, the inbox's  *)
(* wake permit, and the version of the task registry.  Each probe is a     *)
(* step of its own, and the tasks move between any two of them.            *)
(***************************************************************************)
EXTENDS BackgroundTasks

CONSTANT MaxWork  \* bound on the iterations that reason and act

ASSUME WorkAssumption == MaxWork \in Nat

VARIABLES
  at,         \* where the loop is
  received,   \* results that Receive has taken into the transcript
  work,       \* iterations that reasoned and acted
  shouldWait, \* what the probe of the active tasks said
  stopped     \* the turn has been cancelled

loopVars == <<at, received, work, shouldWait, stopped>>
vars == <<taskVars, loopVars>>

Places == {"receive", "acting", "recheck", "version", "probe", "enter", "suspending",
           "waiting", "requeue", "lastversion", "tail", "completed",
           "interrupted"}

Init ==
  /\ TasksInit
  /\ at = "acting"
  /\ received = {}
  /\ work = 1
  /\ shouldWait = FALSE
  /\ stopped = FALSE

-----------------------------------------------------------------------------
Goto(place) == at' = place

\* The results other than the loop's own state stay as they are.
TasksRest == UNCHANGED <<scopeVars, registryVars, stage, emitted>>

\* The tool call that began the task has not returned.
InToolCall(t) ==
  \/ stage[t] \in {"foreground", "promoting", "gated", "owned", "starting", "withdrawn"}
  \/ <<t, "Started">> \in due

\* Reason and Act: the tools begin tasks.  A loop with a tool result or with
\* new input reasons again; the iterations are bounded.
Act ==
  /\ at = "acting"
  /\ \A t \in Tasks : ~InToolCall(t)
  /\ \/ Goto("receive") /\ UNCHANGED work
     \/ work < MaxWork /\ work' = work + 1 /\ UNCHANGED at
  /\ UNCHANGED <<taskVars, received, shouldWait, stopped>>

CancelTurn ==
  /\ ~stopped
  /\ at \notin {"completed", "interrupted"}
  /\ stopped' = TRUE
  /\ UNCHANGED <<taskVars, at, received, work, shouldWait>>

\* The loop looks at the cancel at its top and while it is suspended.
Interrupted ==
  /\ stopped
  /\ at \in {"receive", "suspending", "waiting"}
  /\ Goto("interrupted")
  /\ UNCHANGED <<taskVars, received, work, shouldWait, stopped>>

\* One lock hold drains the queue.  New input makes the loop reason.
Receive ==
  /\ at = "receive"
  /\ ~stopped
  /\ queue' = {}
  /\ received' = received \cup queue
  /\ IF queue = {} THEN Goto("recheck") /\ UNCHANGED work
                   ELSE Goto("acting") /\ work' = work + 1
  /\ TasksRest
  /\ UNCHANGED <<unseen, permit, shouldWait, stopped>>

\* The two looks at the queue that may turn back before the loop decides.
LookAtQueue(place, otherwise) ==
  /\ at = place
  /\ Goto(IF queue # {} THEN "receive" ELSE otherwise)
  /\ UNCHANGED <<taskVars, received, work, shouldWait, stopped>>

\* has_changed and borrow_and_update: a move of the registry is looked at once.
LookAtVersion(place, otherwise) ==
  /\ at = place
  /\ Goto(IF unseen THEN "receive" ELSE otherwise)
  /\ unseen' = FALSE
  /\ TasksRest
  /\ UNCHANGED <<inboxVars, received, work, shouldWait, stopped>>

\* Slip: a completing task does not count as active.
SlipProbe ==
  /\ at = "probe"
  /\ shouldWait' = \E t \in Tasks : entry[t] = "running"
  /\ Goto(IF shouldWait' THEN "enter" ELSE "requeue")
  /\ UNCHANGED <<taskVars, received, work, stopped>>

Probe ==
  /\ at = "probe"
  /\ shouldWait' = \E t \in Tasks : Active(t)
  /\ Goto(IF shouldWait' THEN "enter" ELSE "requeue")
  /\ UNCHANGED <<taskVars, received, work, stopped>>

\* The first poll of the select: a message that is already there, or register.
Suspend == LookAtQueue("suspending", "waiting")

WokenByInbox ==
  /\ at = "waiting"
  /\ ~stopped
  /\ permit
  /\ permit' = FALSE
  /\ IF queue # {} THEN Goto("receive") ELSE UNCHANGED at
  /\ TasksRest
  /\ UNCHANGED <<unseen, queue, received, work, shouldWait, stopped>>

WokenByRegistry ==
  /\ at \in {"suspending", "waiting"}
  /\ ~stopped
  /\ unseen
  /\ unseen' = FALSE
  /\ Goto("receive")
  /\ TasksRest
  /\ UNCHANGED <<inboxVars, received, work, shouldWait, stopped>>

\* The order of the looks: queue, version, active tasks, queue, version, and the
\* tail's queue (eight times at most; there are fewer tasks here).
Recheck == LookAtQueue("recheck", "version")
FirstVersion == LookAtVersion("version", "probe")
EnterIdle == LookAtQueue("enter", "suspending")
Requeue == LookAtQueue("requeue", "lastversion")
LastVersion == LookAtVersion("lastversion", "tail")
Tail == LookAtQueue("tail", "completed")

Loop ==
  \/ Act \/ Interrupted \/ Receive \/ Recheck \/ FirstVersion \/ Probe
  \/ EnterIdle \/ Suspend \/ WokenByInbox \/ WokenByRegistry \/ Requeue
  \/ LastVersion \/ Tail

\* Tasks begin in the loop's tool calls; the rest of their life is their own.
TaskStep ==
  /\ \/ Background
     \/ \E t \in Tasks : MayBegin /\ Begin(t) /\ at = "acting"
     \/ \E t \in Tasks : InCall(t)
  /\ UNCHANGED loopVars

IdleNext == Loop \/ TaskStep \/ CancelTurn

\* The loop's own code runs; so does the code of tasks that end, and here every
\* execution ends some day.  A panic is no end.
EndsSomeDay(t) == Ends(t) \/ AbortAgent(t)

IdleFairness ==
  /\ WF_vars(Loop)
  /\ \A t \in Tasks : WF_vars(Settles(t) /\ UNCHANGED loopVars)
                        /\ WF_vars(EndsSomeDay(t) /\ UNCHANGED loopVars)
                        /\ WF_vars(InCall(t) /\ UNCHANGED loopVars)
                        /\ WF_vars(CancelListed(t) /\ UNCHANGED loopVars)
  /\ WF_vars(ListTasks /\ UNCHANGED loopVars)
  /\ \A t \in Tasks, event \in Events : WF_vars(Notify(t, event) /\ UNCHANGED loopVars)

IdleSpec == Init /\ [][IdleNext]_vars

FairIdleSpec == IdleSpec /\ IdleFairness

-----------------------------------------------------------------------------
(* Properties                                                              *)

\* A loop that completes has taken every result and leaves no task behind: what
\* began in this turn is finished and received, unless somebody cancelled it: a
\* cancelled sub-agent or workflow may still publish, and its result then waits
\* for the next turn.  (#117 and the checks before the exit)
Began(t) ==
  \/ stage[t] \in {"active", "ended", "claimed", "pushed", "routed"}
  \/ Active(t)

NothingLeftBehind ==
  [][at # "completed" /\ at' = "completed" =>
       /\ queue \subseteq told
       /\ \A t \in Tasks : Began(t) => t \in told]_vars

\* A loop that waits with a result in the queue or without an active task has a
\* signal to wake it, or somebody is about to give one.
NoWakeLost ==
  at = "waiting" /\ (queue # {} \/ \A t \in Tasks : ~Active(t)) =>
    \/ permit \/ unseen
    \/ due # {}
    \/ \E t \in Tasks : stage[t] = "pushed"

\* A turn ends when its tasks end: a suspended loop is always woken, by a result,
\* by the end of its last task, or by a cancel.  Only the panic of a sub-agent,
\* whose entry nobody completes, may keep it waiting.
TurnEnds == <>(at \in {"completed", "interrupted"} \/ panics > 0)
=============================================================================

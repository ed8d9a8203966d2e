--------------------------- MODULE BackgroundTasks ---------------------------
(***************************************************************************)
(* The background tasks of a session (peri-agent, agent/async_tasks): the  *)
(* registry of visible tasks with its limits per kind, claims and cancels; *)
(* the execution scope that admits, tracks and drains what really runs;    *)
(* and the three kinds of execution: shells, background sub-agents and     *)
(* workflow runs.  A registry entry and the execution behind it live       *)
(* apart: a cancel removes the entry at once, the execution ends later.    *)
(* Every lock acquisition and every await is a boundary between actions.   *)
(* Names of tasks are unique: an entry never returns.                      *)
(***************************************************************************)
EXTENDS Integers, FiniteSets

CONSTANTS
  Shells, Agents, Workflows,                  \* names of tasks, by kind
  ShellLimit, AgentLimit, WorkflowLimit,      \* limits per kind (5, 3, 3)
  MaxBegun,         \* bound on tasks that begin
  MaxPanics,        \* bound on panics of sub-agents and of shell callbacks
  MaxShutdowns      \* bound on calls of shutdown

Tasks == Shells \cup Agents \cup Workflows

ASSUME TasksAssumption ==
  /\ IsFiniteSet(Tasks)
  /\ Shells \cap Agents = {}
  /\ Shells \cap Workflows = {}
  /\ Agents \cap Workflows = {}
  /\ ShellLimit \in Nat /\ AgentLimit \in Nat /\ WorkflowLimit \in Nat
  /\ MaxBegun \in Nat /\ MaxPanics \in Nat /\ MaxShutdowns \in Nat

VARIABLES
  open,        \* the scope admits executions and registrations
  uncertain,   \* some execution ended without evidence of its end
  shutdown,    \* where TaskManager::shutdown is, or what it reported
  shutdowns,   \* used part of MaxShutdowns
  toCancel,    \* what cancel_all listed and has not yet cancelled
  entry,       \* the registry's entry of each task
  unkillable,  \* entries registered without a way to kill
  unsettled,   \* external executions whose end nobody has confirmed
  stage,       \* where each execution is
  told,        \* executions told to stop by a cancel
  stray,       \* executions whose processes may have outlived their owner
  panics,      \* used part of MaxPanics
  due,         \* registry changes whose notification is outstanding
  emitted,     \* terminal events sent to the host
  unseen,      \* the activity version has moved since the loop looked
  queue,       \* tasks whose result is in the session's queue
  permit       \* the wake permit of the session's inbox

shutdownVars == <<open, shutdown, shutdowns, toCancel>>
evidenceVars == <<uncertain, stray, panics>>
scopeVars == <<shutdownVars, evidenceVars>>
registryVars == <<entry, unkillable, unsettled, told, due>>
signalVars == <<emitted, unseen>>
inboxVars == <<queue, permit>>
taskVars == <<scopeVars, registryVars, stage, signalVars, inboxVars>>

Stages == {"none", "foreground", "promoting", "reaping", "cleanup", "gated",
           "owned", "starting", "withdrawn", "active", "ended", "claimed",
           "pushed", "routed", "finished"}
Events == {"Started", "Completed", "Cancelled"}

TypeOK ==
  /\ open \in BOOLEAN
  /\ uncertain \in BOOLEAN
  /\ shutdown \in {"none", "closing", "cancelling", "draining",
                   "Complete", "Incomplete"}
  /\ shutdowns \in Nat
  /\ toCancel \subseteq Tasks
  /\ entry \in [Tasks -> {"absent", "running", "completing"}]
  /\ unkillable \subseteq Tasks
  /\ unsettled \subseteq Tasks
  /\ stage \in [Tasks -> Stages]
  /\ told \subseteq Tasks
  /\ stray \subseteq Tasks
  /\ panics \in Nat
  /\ due \subseteq Tasks \X Events
  /\ emitted \subseteq Tasks \X Events
  /\ unseen \in BOOLEAN
  /\ queue \subseteq Tasks
  /\ permit \in BOOLEAN

TasksInit ==
  /\ open = TRUE
  /\ uncertain = FALSE
  /\ shutdown = "none"
  /\ shutdowns = 0
  /\ toCancel = {}
  /\ entry = [t \in Tasks |-> "absent"]
  /\ unkillable = {}
  /\ unsettled = {}
  /\ stage = [t \in Tasks |-> "none"]
  /\ told = {}
  /\ stray = {}
  /\ panics = 0
  /\ due = {}
  /\ emitted = {}
  /\ unseen = FALSE
  /\ queue = {}
  /\ permit = FALSE

-----------------------------------------------------------------------------
(* The registry                                                            *)

Active(t) == entry[t] # "absent"

\* Completing tasks count: they hold their place until they settle.
Holding(K) == Cardinality({t \in K : Active(t)})

Room(t) ==
  \/ t \in Shells /\ Holding(Shells) < ShellLimit
  \/ t \in Agents /\ Holding(Agents) < AgentLimit
  \/ t \in Workflows /\ Holding(Workflows) < WorkflowLimit

Move(t, s) == stage' = [stage EXCEPT ![t] = s]

Enter(t) ==
  /\ entry' = [entry EXCEPT ![t] = "running"]
  /\ due' = due \cup {<<t, "Started">>}
  /\ unsettled' = IF t \in Agents THEN unsettled ELSE unsettled \cup {t}

Remove(t, event) ==
  /\ entry' = [entry EXCEPT ![t] = "absent"]
  /\ due' = due \cup {<<t, event>>}

\* Slip: the version does not move.
SlipNotify(t, event) ==
  /\ <<t, event>> \in due
  /\ due' = due \ {<<t, event>>}
  /\ emitted' = emitted \cup ({<<t, event>>} \ Tasks \X {"Started"})
  /\ UNCHANGED <<scopeVars, entry, unkillable, unsettled, told, stage, unseen,
                 inboxVars>>

\* The caller of a registry operation, after the lock: the version, the event.
Notify(t, event) ==
  /\ <<t, event>> \in due
  /\ due' = due \ {<<t, event>>}
  /\ emitted' = emitted \cup ({<<t, event>>} \ Tasks \X {"Started"})
  /\ unseen' = TRUE
  /\ UNCHANGED <<scopeVars, entry, unkillable, unsettled, told, stage, inboxVars>>

Cancellable(t) == entry[t] = "running" /\ t \notin unkillable

\* The entry goes at once; the execution is told to stop and owns its end.
Cancel(t) ==
  /\ Cancellable(t)
  /\ Remove(t, "Cancelled")
  /\ told' = told \cup {t}
  /\ UNCHANGED <<scopeVars, unkillable, unsettled, stage, signalVars, inboxVars>>

-----------------------------------------------------------------------------
(* Shells                                                                  *)

\* spawn_shell holds the admission from the process's start to its worker's.
SpawnShell(t) ==
  /\ t \in Shells
  /\ stage[t] = "none"
  /\ open
  /\ Room(t)
  /\ Enter(t)
  /\ Move(t, "active")
  /\ UNCHANGED <<scopeVars, unkillable, told, signalVars, inboxVars>>

\* The process does not start: an entry that nobody can kill is finalized.
SpawnFails(t) ==
  /\ t \in Shells
  /\ stage[t] = "none"
  /\ open
  /\ Room(t)
  /\ Enter(t)
  /\ unkillable' = unkillable \cup {t}
  /\ Move(t, "ended")
  /\ UNCHANGED <<scopeVars, told, signalVars, inboxVars>>

\* The process started but is not registered (the limit) or not attached.
SpawnRefused(t) ==
  /\ t \in Shells
  /\ stage[t] = "none"
  /\ open
  /\ Move(t, "reaping")
  /\ UNCHANGED <<scopeVars, registryVars, signalVars, inboxVars>>

\* Its group is seen to have ended, or the guard is dropped and cleans up.
Reaped(t) ==
  /\ stage[t] = "reaping"
  /\ Move(t, "finished") \/ Move(t, "cleanup")
  /\ UNCHANGED <<scopeVars, registryVars, signalVars, inboxVars>>

BeginForeground(t) ==
  /\ t \in Shells
  /\ stage[t] = "none"
  /\ open
  /\ Move(t, "foreground")
  /\ UNCHANGED <<scopeVars, registryVars, signalVars, inboxVars>>

\* It ends and confirms, or its tool call is dropped and its guard cleans up.
EndForeground(t) ==
  /\ stage[t] = "foreground"
  /\ Move(t, "finished") \/ Move(t, "cleanup")
  /\ UNCHANGED <<scopeVars, registryVars, signalVars, inboxVars>>

\* A slow or detached foreground shell becomes a background task.
Promote(t) ==
  /\ stage[t] = "foreground"
  /\ IF open /\ Room(t)
       THEN Enter(t) /\ Move(t, "promoting")
       ELSE Move(t, "cleanup") /\ UNCHANGED <<entry, due, unsettled>>
  /\ UNCHANGED <<scopeVars, unkillable, told, signalVars, inboxVars>>

\* The worker is spawned under an admission of its own, which may be refused.
SpawnPromoted(t) ==
  /\ stage[t] = "promoting"
  /\ <<t, "Started">> \notin due
  /\ Move(t, IF open THEN "active" ELSE "cleanup")
  /\ UNCHANGED <<scopeVars, registryVars, signalVars, inboxVars>>

\* A guard dropped with a live process: kill and reap, for three seconds.
CleanUp(t) ==
  /\ stage[t] = "cleanup"
  /\ Move(t, "finished")
  /\ \/ /\ unsettled' = unsettled \ {t}
        /\ UNCHANGED <<uncertain, stray>>
     \/ /\ uncertain' = TRUE
        /\ stray' = stray \cup {t}
        /\ UNCHANGED unsettled
  /\ UNCHANGED <<shutdownVars, panics, entry, unkillable, told, due,
                 signalVars, inboxVars>>

\* Exit, timeout, kill or a panic of the worker: the group has really stopped.
ShellEnds(t) ==
  /\ t \in Shells
  /\ stage[t] = "active"
  /\ unsettled' = unsettled \ {t}
  /\ Move(t, "ended")
  /\ UNCHANGED <<scopeVars, entry, unkillable, told, due, signalVars, inboxVars>>

\* Slip: the claim does not look at the entry.
SlipClaim(t) ==
  /\ t \in Shells
  /\ stage[t] = "ended"
  /\ Move(t, "claimed")
  /\ UNCHANGED <<scopeVars, registryVars, signalVars, inboxVars>>

\* Slip: the claim takes the entry out instead of marking it.
SlipClaimRemoves(t) ==
  /\ t \in Shells
  /\ stage[t] = "ended"
  /\ IF entry[t] = "running"
       THEN /\ entry' = [entry EXCEPT ![t] = "absent"]
            /\ Move(t, "claimed")
       ELSE Move(t, "finished") /\ UNCHANGED entry
  /\ UNCHANGED <<scopeVars, unkillable, unsettled, told, due, signalVars, inboxVars>>

\* The claim excludes a cancel from here on; a cancelled shell stays silent.
Claim(t) ==
  /\ t \in Shells
  /\ stage[t] = "ended"
  /\ IF entry[t] = "running"
       THEN /\ entry' = [entry EXCEPT ![t] = "completing"]
            /\ Move(t, "claimed")
       ELSE Move(t, "finished") /\ UNCHANGED entry
  /\ UNCHANGED <<scopeVars, unkillable, unsettled, told, due, signalVars, inboxVars>>

\* Slip: the panic ends the finalizer.
SlipCallbackPanics(t) ==
  /\ stage[t] = "claimed"
  /\ panics < MaxPanics
  /\ panics' = panics + 1
  /\ Move(t, "finished")
  /\ UNCHANGED <<shutdownVars, uncertain, stray, registryVars,
                 signalVars, inboxVars>>

\* A panic of the callback is caught; the task still settles.
CallbackPanics(t) ==
  /\ stage[t] = "claimed"
  /\ panics < MaxPanics
  /\ panics' = panics + 1
  /\ Move(t, "routed")
  /\ UNCHANGED <<shutdownVars, uncertain, stray, registryVars,
                 signalVars, inboxVars>>

-----------------------------------------------------------------------------
(* Sub-agents                                                              *)

\* The execution is owned first and waits at a gate for its registration.
SpawnAgent(t) ==
  /\ t \in Agents
  /\ stage[t] = "none"
  /\ open
  /\ Move(t, "gated")
  /\ UNCHANGED <<scopeVars, registryVars, signalVars, inboxVars>>

RegisterAgent(t) ==
  /\ stage[t] = "gated"
  /\ IF open /\ Room(t)
       THEN Enter(t) /\ Move(t, "starting")
       ELSE Move(t, "finished") /\ UNCHANGED <<entry, due, unsettled>>
  /\ UNCHANGED <<scopeVars, unkillable, told, signalVars, inboxVars>>

ReleaseAgent(t) ==
  /\ t \in Agents
  /\ stage[t] = "starting"
  /\ <<t, "Started">> \notin due
  /\ Move(t, "active")
  /\ UNCHANGED <<scopeVars, registryVars, signalVars, inboxVars>>

AgentEnds(t) ==
  /\ t \in Agents
  /\ stage[t] = "active"
  /\ Move(t, "ended")
  /\ UNCHANGED <<scopeVars, registryVars, signalVars, inboxVars>>

\* The grace of a cancel has passed: the task is dropped at an await.
AbortAgent(t) ==
  /\ t \in Agents \cap told
  /\ stage[t] \in {"starting", "active", "ended"}
  /\ Move(t, "finished")
  /\ uncertain' = TRUE
  /\ UNCHANGED <<shutdownVars, stray, panics, registryVars,
                 signalVars, inboxVars>>

\* Nothing catches the panic of a sub-agent: its entry stays.
AgentPanics(t) ==
  /\ t \in Agents
  /\ stage[t] = "active"
  /\ panics < MaxPanics
  /\ panics' = panics + 1
  /\ Move(t, "finished")
  /\ uncertain' = TRUE
  /\ UNCHANGED <<shutdownVars, stray, registryVars, signalVars, inboxVars>>

-----------------------------------------------------------------------------
(* Workflow runs                                                           *)

AdmitWorkflow(t) ==
  /\ t \in Workflows
  /\ stage[t] = "none"
  /\ open
  /\ Move(t, "owned")
  /\ UNCHANGED <<scopeVars, registryVars, signalVars, inboxVars>>

RegisterWorkflow(t) ==
  /\ stage[t] = "owned"
  /\ IF open /\ Room(t)
       THEN Enter(t) /\ Move(t, "starting")
       ELSE Move(t, "finished") /\ UNCHANGED <<entry, due, unsettled>>
  /\ UNCHANGED <<scopeVars, unkillable, told, signalVars, inboxVars>>

\* The run is spawned under an admission of its own; refused, it is withdrawn.
StartWorkflow(t) ==
  /\ t \in Workflows
  /\ stage[t] = "starting"
  /\ <<t, "Started">> \notin due
  /\ IF open
       THEN Move(t, "active") /\ UNCHANGED unsettled
       ELSE Move(t, "withdrawn") /\ unsettled' = unsettled \ {t}
  /\ UNCHANGED <<scopeVars, entry, unkillable, told, due, signalVars, inboxVars>>

Withdraw(t) ==
  /\ stage[t] = "withdrawn"
  /\ Move(t, "finished")
  /\ IF Cancellable(t)
       THEN Remove(t, "Cancelled") /\ told' = told \cup {t}
       ELSE UNCHANGED <<entry, due, told>>
  /\ UNCHANGED <<scopeVars, unkillable, unsettled, signalVars, inboxVars>>

\* Slip: a cleanup that failed leaves the owner confirmed.
SlipWorkflowEnds(t) ==
  /\ t \in Workflows
  /\ stage[t] = "active"
  /\ Move(t, "ended")
  /\ \/ stray' = stray /\ unsettled' = unsettled \ {t}
     \/ stray' = stray \cup {t} /\ UNCHANGED unsettled
  /\ UNCHANGED <<shutdownVars, uncertain, panics, entry, unkillable, told, due,
                 signalVars, inboxVars>>

\* The runner returns: its processes are gone, or it cannot tell.
WorkflowEnds(t) ==
  /\ t \in Workflows
  /\ stage[t] = "active"
  /\ Move(t, "ended")
  /\ \/ /\ unsettled' = unsettled \ {t}
        /\ UNCHANGED <<uncertain, stray>>
     \/ /\ uncertain' = TRUE
        /\ stray' = stray \cup {t}
        /\ UNCHANGED unsettled
  /\ UNCHANGED <<shutdownVars, panics, entry, unkillable, told, due,
                 signalVars, inboxVars>>

-----------------------------------------------------------------------------
(* Results: into the queue, the wake, then the end of the entry            *)

\* Sub-agents and workflows publish without a claim, also when cancelled.
ReadyToPush(t) ==
  \/ t \in Shells /\ stage[t] = "claimed"
  \/ t \notin Shells /\ stage[t] = "ended"

Push(t) ==
  /\ ReadyToPush(t)
  /\ queue' = queue \cup {t}
  /\ Move(t, "pushed")
  /\ UNCHANGED <<scopeVars, registryVars, signalVars, permit>>

\* Slip: the result is pushed without a wake.
SlipWake(t) ==
  /\ stage[t] = "pushed"
  /\ Move(t, "routed")
  /\ UNCHANGED <<scopeVars, registryVars, signalVars, inboxVars>>

Wake(t) ==
  /\ stage[t] = "pushed"
  /\ permit' = TRUE
  /\ Move(t, "routed")
  /\ UNCHANGED <<scopeVars, registryVars, signalVars, queue>>

\* A task that a cancel removed completes without an event.
Complete(t) ==
  /\ stage[t] = "routed"
  /\ unsettled' = unsettled \ {t}
  /\ Move(t, "finished")
  /\ IF Active(t) THEN Remove(t, "Completed") ELSE UNCHANGED <<entry, due>>
  /\ UNCHANGED <<scopeVars, unkillable, told, signalVars, inboxVars>>

-----------------------------------------------------------------------------
(* Shutdown of the session's tasks                                         *)

\* What the tracker waits for.  The consumer of workflow results is not in it.
Tracked ==
  {t \in Tasks :
     IF t \in Workflows
       THEN stage[t] \in {"owned", "starting", "active"}
       ELSE stage[t] \notin {"none", "finished"}}

BeginShutdown ==
  /\ shutdown \in {"none", "Complete", "Incomplete"}
  /\ shutdowns < MaxShutdowns
  /\ shutdowns' = shutdowns + 1
  /\ open' = FALSE
  /\ shutdown' = "closing"
  /\ UNCHANGED <<toCancel, evidenceVars, registryVars, stage,
                 signalVars, inboxVars>>

ListTasks ==
  /\ shutdown = "closing"
  /\ toCancel' = {t \in Tasks : Active(t)}
  /\ shutdown' = "cancelling"
  /\ UNCHANGED <<open, shutdowns, evidenceVars, registryVars, stage,
                 signalVars, inboxVars>>

\* Slip: the first task that cannot be cancelled ends the loop.
SlipCancelListed(t) ==
  /\ t \in toCancel
  /\ toCancel' = IF Cancellable(t) THEN toCancel \ {t} ELSE {}
  /\ IF Cancellable(t)
       THEN Remove(t, "Cancelled") /\ told' = told \cup {t}
       ELSE UNCHANGED <<entry, due, told>>
  /\ UNCHANGED <<open, shutdown, shutdowns, evidenceVars, unkillable, unsettled,
                 stage, signalVars, inboxVars>>

\* A task that cannot be cancelled keeps its entry and ends by itself.
CancelListed(t) ==
  /\ t \in toCancel
  /\ toCancel' = toCancel \ {t}
  /\ IF Cancellable(t)
       THEN Remove(t, "Cancelled") /\ told' = told \cup {t}
       ELSE UNCHANGED <<entry, due, told>>
  /\ UNCHANGED <<open, shutdown, shutdowns, evidenceVars, unkillable, unsettled,
                 stage, signalVars, inboxVars>>

AwaitDrain ==
  /\ shutdown = "cancelling"
  /\ toCancel = {}
  /\ shutdown' = "draining"
  /\ UNCHANGED <<open, shutdowns, toCancel, evidenceVars, registryVars, stage,
                 signalVars, inboxVars>>

\* The tracker is empty, or five seconds have passed.
Report ==
  /\ shutdown = "draining"
  /\ \/ Tracked # {} /\ shutdown' = "Incomplete"
     \/ /\ Tracked = {}
        /\ shutdown' = IF ~uncertain /\ unsettled = {} THEN "Complete"
                                                       ELSE "Incomplete"
  /\ UNCHANGED <<open, shutdowns, toCancel, evidenceVars, registryVars, stage,
                 signalVars, inboxVars>>

-----------------------------------------------------------------------------
\* The bound on the tasks of a run.
MayBegin == Cardinality({t \in Tasks : stage[t] # "none"}) < MaxBegun

\* What a tool call of the loop may begin.
Begin(t) ==
  SpawnShell(t) \/ SpawnFails(t) \/ SpawnRefused(t) \/ BeginForeground(t)
    \/ SpawnAgent(t) \/ AdmitWorkflow(t)

\* What the execution of a tool call goes on to do within the call.
InCall(t) ==
  EndForeground(t) \/ Promote(t) \/ SpawnPromoted(t) \/ RegisterAgent(t)
    \/ ReleaseAgent(t) \/ RegisterWorkflow(t) \/ StartWorkflow(t) \/ Withdraw(t)

\* How an execution ends by itself.
Ends(t) == ShellEnds(t) \/ AgentEnds(t) \/ WorkflowEnds(t)

\* What follows the end of an execution or the drop of its owner.
Settles(t) ==
  Reaped(t) \/ CleanUp(t) \/ Claim(t) \/ Push(t) \/ Wake(t) \/ Complete(t)

Faults(t) == CallbackPanics(t) \/ AgentPanics(t)

Shutdown ==
  BeginShutdown \/ ListTasks \/ (\E t \in Tasks : CancelListed(t)) \/ AwaitDrain
    \/ Report

Background ==
  \/ \E t \in Tasks : \/ Ends(t) \/ Settles(t) \/ AbortAgent(t) \/ Faults(t)
                      \/ Cancel(t)
                      \/ \E event \in Events : Notify(t, event)
  \/ Shutdown

Next ==
  \/ Background
  \/ \E t \in Tasks : MayBegin /\ Begin(t)
  \/ \E t \in Tasks : InCall(t)

Spec == TasksInit /\ [][Next]_taskVars

-----------------------------------------------------------------------------
(* Properties                                                              *)

\* A task ends once for its watchers: completed or cancelled, never both; and a
\* cancelled shell never publishes a result.  (claim_completion against cancel)
OneOutcome ==
  \A t \in Tasks :
    <<t, "Cancelled">> \in due \cup emitted =>
      /\ <<t, "Completed">> \notin due \cup emitted
      /\ t \in Shells => t \notin queue

\* Until its result is in the queue an execution is visible as an active task,
\* unless somebody cancelled it: an idle loop that sees no active task has
\* nothing more to wait for.  (the order of push, wake and complete)
HeldUntilRouted ==
  \A t \in Tasks :
    stage[t] \in {"active", "ended", "claimed", "pushed"} =>
      Active(t) \/ t \in told

\* A claim belongs to a finalizer that is on its way to settle it: a completing
\* entry, which no cancel can remove, never keeps its place in the limit for good.
ClaimIsOwned ==
  \A t \in Tasks :
    entry[t] = "completing" => stage[t] \in {"claimed", "pushed", "routed"}

\* After a shutdown that reported Complete nothing runs and no process of the
\* session is left behind, now or later.  (scope close, tracker and evidence)
CompleteMeansStopped ==
  shutdown = "Complete" => Tracked = {} /\ stray = {}

\* Once a shutdown has cancelled what it listed, the only entries left are those
\* that no cancel can remove and that settle by themselves: nothing registers
\* behind the listing, and nothing listed is passed over.
OnlyUncancellableRemain ==
  shutdown \in {"draining", "Complete", "Incomplete"} =>
    \A t \in Tasks : entry[t] = "running" => t \in unkillable
=============================================================================

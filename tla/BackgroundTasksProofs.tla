------------------------ MODULE BackgroundTasksProofs ------------------------
(***************************************************************************)
(* For every number of tasks, every limit and every number of panics and   *)
(* shutdowns: what is visible, who settles a claim, how a task ends, and   *)
(* what a shutdown that reports Complete has shown.  Then, for every bound *)
(* on the work of a turn, the loop that ends the turn against these tasks: *)
(* it waits only while somebody will wake it, and leaves nothing behind.   *)
(***************************************************************************)
EXTENDS IdleLoop, TLAPS

\* The stages that only one kind of execution passes through.
Kinds ==
  \A t \in Tasks :
    /\ stage[t] \in {"foreground", "promoting", "reaping", "cleanup", "claimed"}
         => t \in Shells
    /\ stage[t] = "gated" => t \in Agents
    /\ stage[t] \in {"owned", "withdrawn"} => t \in Workflows

\* Visible from the registration on, also before the execution is released.
VisibleOrTold ==
  \A t \in Tasks :
    stage[t] \in {"promoting", "starting", "active", "ended", "claimed", "pushed"} =>
      Active(t) \/ t \in told

Told(t, event) == <<t, event>> \in due \cup emitted

\* An entry begins once and its outcome is announced only when it is gone; the
\* claim of a shell keeps its entry from the cancels until it settles.
OutcomeAt(t) ==
  /\ stage[t] \in {"none", "foreground", "gated", "owned"} => ~Active(t)
  /\ stage[t] \in {"none", "foreground", "gated", "owned"} \/ Active(t) =>
       ~Told(t, "Completed") /\ ~Told(t, "Cancelled")
  /\ ~(Told(t, "Completed") /\ Told(t, "Cancelled"))
  /\ t \in Shells /\ stage[t] \in {"claimed", "pushed", "routed"} =>
       entry[t] = "completing"
  /\ t \in Shells /\ t \in queue =>
       /\ stage[t] \in {"pushed", "routed", "finished"}
       /\ entry[t] # "running"
       /\ ~Told(t, "Cancelled")

OutcomeOnce == \A t \in Tasks : OutcomeAt(t)

\* A scope that has begun to shut down stays closed; while it cancels, what is
\* still running and can be cancelled is on its list.
ClosedForGood ==
  /\ shutdown # "none" => ~open
  /\ shutdown \in {"cancelling", "draining", "Complete", "Incomplete"} =>
       \A t \in Tasks : entry[t] = "running" => t \in unkillable \cup toCancel
  /\ shutdown \in {"draining", "Complete", "Incomplete"} => toCancel = {}
  /\ stray # {} => uncertain

Inv ==
  /\ TypeOK
  /\ Kinds
  /\ VisibleOrTold
  /\ ClaimIsOwned
  /\ OutcomeOnce
  /\ ClosedForGood
  /\ CompleteMeansStopped

\* An entry that begins announces no outcome.
LEMMA EnterTells ==
  ASSUME NEW t, Enter(t), emitted' = emitted
  PROVE  \A u \in Tasks : \A event \in {"Completed", "Cancelled"} :
           Told(u, event)' <=> Told(u, event)
BY DEF Enter, Told

\* An entry that goes announces one outcome, its own.
LEMMA RemoveTells ==
  ASSUME NEW t, NEW outcome, Remove(t, outcome), emitted' = emitted
  PROVE  \A u \in Tasks : \A event \in {"Completed", "Cancelled"} :
           Told(u, event)' <=> Told(u, event) \/ (u = t /\ event = outcome)
BY DEF Remove, Told

\* Every step keeps the types.
LEMMA TypeStep ==
  ASSUME TypeOK, [Next]_taskVars
  PROVE  TypeOK'
<1> USE DEF TypeOK, Stages, Events, Move, Enter, Remove, scopeVars,
            shutdownVars, evidenceVars, registryVars, signalVars, inboxVars
<1>1. ASSUME NEW t \in Tasks, SpawnShell(t) PROVE TypeOK'
  BY <1>1 DEF SpawnShell
<1>2. ASSUME NEW t \in Tasks, SpawnFails(t) PROVE TypeOK'
  BY <1>2 DEF SpawnFails
<1>3. ASSUME NEW t \in Tasks, SpawnRefused(t) PROVE TypeOK'
  BY <1>3 DEF SpawnRefused
<1>4. ASSUME NEW t \in Tasks, BeginForeground(t) PROVE TypeOK'
  BY <1>4 DEF BeginForeground
<1>5. ASSUME NEW t \in Tasks, SpawnAgent(t) PROVE TypeOK'
  BY <1>5 DEF SpawnAgent
<1>6. ASSUME NEW t \in Tasks, AdmitWorkflow(t) PROVE TypeOK'
  BY <1>6 DEF AdmitWorkflow
<1>7. ASSUME NEW t \in Tasks, EndForeground(t) PROVE TypeOK'
  BY <1>7 DEF EndForeground
<1>8. ASSUME NEW t \in Tasks, Promote(t) PROVE TypeOK'
  BY <1>8 DEF Promote
<1>9. ASSUME NEW t \in Tasks, SpawnPromoted(t) PROVE TypeOK'
  BY <1>9 DEF SpawnPromoted
<1>10. ASSUME NEW t \in Tasks, RegisterAgent(t) PROVE TypeOK'
  BY <1>10 DEF RegisterAgent
<1>11. ASSUME NEW t \in Tasks, ReleaseAgent(t) PROVE TypeOK'
  BY <1>11 DEF ReleaseAgent
<1>12. ASSUME NEW t \in Tasks, RegisterWorkflow(t) PROVE TypeOK'
  BY <1>12 DEF RegisterWorkflow
<1>13. ASSUME NEW t \in Tasks, StartWorkflow(t) PROVE TypeOK'
  BY <1>13 DEF StartWorkflow
<1>14. ASSUME NEW t \in Tasks, Withdraw(t) PROVE TypeOK'
  BY <1>14 DEF Withdraw, Cancellable
<1>15. ASSUME NEW t \in Tasks, ShellEnds(t) PROVE TypeOK'
  BY <1>15 DEF ShellEnds
<1>16. ASSUME NEW t \in Tasks, AgentEnds(t) PROVE TypeOK'
  BY <1>16 DEF AgentEnds
<1>17. ASSUME NEW t \in Tasks, WorkflowEnds(t) PROVE TypeOK'
  BY <1>17 DEF WorkflowEnds
<1>18. ASSUME NEW t \in Tasks, Reaped(t) PROVE TypeOK'
  BY <1>18 DEF Reaped
<1>19. ASSUME NEW t \in Tasks, CleanUp(t) PROVE TypeOK'
  BY <1>19 DEF CleanUp
<1>20. ASSUME NEW t \in Tasks, Claim(t) PROVE TypeOK'
  BY <1>20 DEF Claim
<1>21. ASSUME NEW t \in Tasks, Push(t) PROVE TypeOK'
  BY <1>21 DEF Push, ReadyToPush
<1>22. ASSUME NEW t \in Tasks, Wake(t) PROVE TypeOK'
  BY <1>22 DEF Wake
<1>23. ASSUME NEW t \in Tasks, Complete(t) PROVE TypeOK'
  BY <1>23 DEF Complete
<1>24. ASSUME NEW t \in Tasks, AbortAgent(t) PROVE TypeOK'
  BY <1>24 DEF AbortAgent
<1>25. ASSUME NEW t \in Tasks, CallbackPanics(t) PROVE TypeOK'
  BY <1>25 DEF CallbackPanics
<1>26. ASSUME NEW t \in Tasks, AgentPanics(t) PROVE TypeOK'
  BY <1>26 DEF AgentPanics
<1>27. ASSUME NEW t \in Tasks, Cancel(t) PROVE TypeOK'
  BY <1>27 DEF Cancel, Cancellable
<1>28. ASSUME NEW t \in Tasks, NEW event \in Events, Notify(t, event)
      PROVE  TypeOK'
  BY <1>28 DEF Notify
<1>29. CASE BeginShutdown
  <2>1. shutdowns' \in Nat
    BY <1>29 DEF BeginShutdown
  <2> QED
    BY <1>29, <2>1 DEF BeginShutdown
<1>30. CASE ListTasks
  BY <1>30 DEF ListTasks
<1>31. ASSUME NEW t \in Tasks, CancelListed(t) PROVE TypeOK'
  BY <1>31 DEF CancelListed, Cancellable
<1>32. CASE AwaitDrain
  BY <1>32 DEF AwaitDrain
<1>33. CASE Report
  BY <1>33 DEF Report
<1>34. CASE UNCHANGED taskVars
  BY <1>34 DEF taskVars
<1> QED
  BY <1>1, <1>2, <1>3, <1>4, <1>5, <1>6, <1>7, <1>8, <1>9, <1>10, <1>11,
     <1>12, <1>13, <1>14, <1>15, <1>16, <1>17, <1>18, <1>19, <1>20, <1>21,
     <1>22, <1>23, <1>24, <1>25, <1>26, <1>27, <1>28, <1>29, <1>30, <1>31,
     <1>32, <1>33, <1>34
     DEF Next, Begin, InCall, Background, Ends, Settles, Faults, Shutdown

\* No step takes an execution out of the stages of its kind.
LEMMA KindsStep ==
  ASSUME TypeOK, Kinds, [Next]_taskVars
  PROVE  Kinds'
<1> USE DEF TypeOK, Kinds, Stages, Move, scopeVars, shutdownVars,
            evidenceVars, registryVars, signalVars, inboxVars
<1>1. ASSUME NEW t \in Tasks, SpawnShell(t) PROVE Kinds'
  BY <1>1 DEF SpawnShell
<1>2. ASSUME NEW t \in Tasks, SpawnFails(t) PROVE Kinds'
  BY <1>2 DEF SpawnFails
<1>3. ASSUME NEW t \in Tasks, SpawnRefused(t) PROVE Kinds'
  BY <1>3 DEF SpawnRefused
<1>4. ASSUME NEW t \in Tasks, BeginForeground(t) PROVE Kinds'
  BY <1>4 DEF BeginForeground
<1>5. ASSUME NEW t \in Tasks, SpawnAgent(t) PROVE Kinds'
  BY <1>5 DEF SpawnAgent
<1>6. ASSUME NEW t \in Tasks, AdmitWorkflow(t) PROVE Kinds'
  BY <1>6 DEF AdmitWorkflow
<1>7. ASSUME NEW t \in Tasks, EndForeground(t) PROVE Kinds'
  BY <1>7 DEF EndForeground
<1>8. ASSUME NEW t \in Tasks, Promote(t) PROVE Kinds'
  BY <1>8 DEF Promote
<1>9. ASSUME NEW t \in Tasks, SpawnPromoted(t) PROVE Kinds'
  BY <1>9 DEF SpawnPromoted
<1>10. ASSUME NEW t \in Tasks, RegisterAgent(t) PROVE Kinds'
  BY <1>10 DEF RegisterAgent
<1>11. ASSUME NEW t \in Tasks, ReleaseAgent(t) PROVE Kinds'
  BY <1>11 DEF ReleaseAgent
<1>12. ASSUME NEW t \in Tasks, RegisterWorkflow(t) PROVE Kinds'
  BY <1>12 DEF RegisterWorkflow
<1>13. ASSUME NEW t \in Tasks, StartWorkflow(t) PROVE Kinds'
  BY <1>13 DEF StartWorkflow
<1>14. ASSUME NEW t \in Tasks, Withdraw(t) PROVE Kinds'
  BY <1>14 DEF Withdraw, Cancellable
<1>15. ASSUME NEW t \in Tasks, ShellEnds(t) PROVE Kinds'
  BY <1>15 DEF ShellEnds
<1>16. ASSUME NEW t \in Tasks, AgentEnds(t) PROVE Kinds'
  BY <1>16 DEF AgentEnds
<1>17. ASSUME NEW t \in Tasks, WorkflowEnds(t) PROVE Kinds'
  BY <1>17 DEF WorkflowEnds
<1>18. ASSUME NEW t \in Tasks, Reaped(t) PROVE Kinds'
  BY <1>18 DEF Reaped
<1>19. ASSUME NEW t \in Tasks, CleanUp(t) PROVE Kinds'
  BY <1>19 DEF CleanUp
<1>20. ASSUME NEW t \in Tasks, Claim(t) PROVE Kinds'
  BY <1>20 DEF Claim
<1>21. ASSUME NEW t \in Tasks, Push(t) PROVE Kinds'
  BY <1>21 DEF Push, ReadyToPush
<1>22. ASSUME NEW t \in Tasks, Wake(t) PROVE Kinds'
  BY <1>22 DEF Wake
<1>23. ASSUME NEW t \in Tasks, Complete(t) PROVE Kinds'
  BY <1>23 DEF Complete
<1>24. ASSUME NEW t \in Tasks, AbortAgent(t) PROVE Kinds'
  BY <1>24 DEF AbortAgent
<1>25. ASSUME NEW t \in Tasks, CallbackPanics(t) PROVE Kinds'
  BY <1>25 DEF CallbackPanics
<1>26. ASSUME NEW t \in Tasks, AgentPanics(t) PROVE Kinds'
  BY <1>26 DEF AgentPanics
<1>27. ASSUME NEW t \in Tasks, Cancel(t) PROVE Kinds'
  BY <1>27 DEF Cancel, Cancellable
<1>28. ASSUME NEW t \in Tasks, NEW event \in Events, Notify(t, event)
      PROVE  Kinds'
  BY <1>28 DEF Notify
<1>29. CASE BeginShutdown
  BY <1>29 DEF BeginShutdown
<1>30. CASE ListTasks
  BY <1>30 DEF ListTasks
<1>31. ASSUME NEW t \in Tasks, CancelListed(t) PROVE Kinds'
  BY <1>31 DEF CancelListed, Cancellable
<1>32. CASE AwaitDrain
  BY <1>32 DEF AwaitDrain
<1>33. CASE Report
  BY <1>33 DEF Report
<1>34. CASE UNCHANGED taskVars
  BY <1>34 DEF taskVars
<1> QED
  BY <1>1, <1>2, <1>3, <1>4, <1>5, <1>6, <1>7, <1>8, <1>9, <1>10, <1>11,
     <1>12, <1>13, <1>14, <1>15, <1>16, <1>17, <1>18, <1>19, <1>20, <1>21,
     <1>22, <1>23, <1>24, <1>25, <1>26, <1>27, <1>28, <1>29, <1>30, <1>31,
     <1>32, <1>33, <1>34
     DEF Next, Begin, InCall, Background, Ends, Settles, Faults, Shutdown

\* An entry goes only with a cancel or after the push; only a finalizer claims.
LEMMA VisibleStep ==
  ASSUME TypeOK, VisibleOrTold, ClaimIsOwned, [Next]_taskVars
  PROVE  VisibleOrTold' /\ ClaimIsOwned'
<1> USE DEF TypeOK, VisibleOrTold, ClaimIsOwned, Active, Stages, Move, Enter,
            Remove, scopeVars, shutdownVars, evidenceVars, registryVars,
            signalVars, inboxVars
<1>1. ASSUME NEW t \in Tasks, SpawnShell(t) PROVE VisibleOrTold' /\ ClaimIsOwned'
  BY <1>1 DEF SpawnShell
<1>2. ASSUME NEW t \in Tasks, SpawnFails(t) PROVE VisibleOrTold' /\ ClaimIsOwned'
  BY <1>2 DEF SpawnFails
<1>3. ASSUME NEW t \in Tasks, SpawnRefused(t) PROVE VisibleOrTold' /\ ClaimIsOwned'
  BY <1>3 DEF SpawnRefused
<1>4. ASSUME NEW t \in Tasks, BeginForeground(t) PROVE VisibleOrTold' /\ ClaimIsOwned'
  BY <1>4 DEF BeginForeground
<1>5. ASSUME NEW t \in Tasks, SpawnAgent(t) PROVE VisibleOrTold' /\ ClaimIsOwned'
  BY <1>5 DEF SpawnAgent
<1>6. ASSUME NEW t \in Tasks, AdmitWorkflow(t) PROVE VisibleOrTold' /\ ClaimIsOwned'
  BY <1>6 DEF AdmitWorkflow
<1>7. ASSUME NEW t \in Tasks, EndForeground(t) PROVE VisibleOrTold' /\ ClaimIsOwned'
  BY <1>7 DEF EndForeground
<1>8. ASSUME NEW t \in Tasks, Promote(t) PROVE VisibleOrTold' /\ ClaimIsOwned'
  BY <1>8 DEF Promote
<1>9. ASSUME NEW t \in Tasks, SpawnPromoted(t) PROVE VisibleOrTold' /\ ClaimIsOwned'
  BY <1>9 DEF SpawnPromoted
<1>10. ASSUME NEW t \in Tasks, RegisterAgent(t) PROVE VisibleOrTold' /\ ClaimIsOwned'
  BY <1>10 DEF RegisterAgent
<1>11. ASSUME NEW t \in Tasks, ReleaseAgent(t) PROVE VisibleOrTold' /\ ClaimIsOwned'
  BY <1>11 DEF ReleaseAgent
<1>12. ASSUME NEW t \in Tasks, RegisterWorkflow(t) PROVE VisibleOrTold' /\ ClaimIsOwned'
  BY <1>12 DEF RegisterWorkflow
<1>13. ASSUME NEW t \in Tasks, StartWorkflow(t) PROVE VisibleOrTold' /\ ClaimIsOwned'
  BY <1>13 DEF StartWorkflow
<1>14. ASSUME NEW t \in Tasks, Withdraw(t) PROVE VisibleOrTold' /\ ClaimIsOwned'
  BY <1>14 DEF Withdraw, Cancellable
<1>15. ASSUME NEW t \in Tasks, ShellEnds(t) PROVE VisibleOrTold' /\ ClaimIsOwned'
  BY <1>15 DEF ShellEnds
<1>16. ASSUME NEW t \in Tasks, AgentEnds(t) PROVE VisibleOrTold' /\ ClaimIsOwned'
  BY <1>16 DEF AgentEnds
<1>17. ASSUME NEW t \in Tasks, WorkflowEnds(t) PROVE VisibleOrTold' /\ ClaimIsOwned'
  BY <1>17 DEF WorkflowEnds
<1>18. ASSUME NEW t \in Tasks, Reaped(t) PROVE VisibleOrTold' /\ ClaimIsOwned'
  BY <1>18 DEF Reaped
<1>19. ASSUME NEW t \in Tasks, CleanUp(t) PROVE VisibleOrTold' /\ ClaimIsOwned'
  BY <1>19 DEF CleanUp
<1>20. ASSUME NEW t \in Tasks, Claim(t) PROVE VisibleOrTold' /\ ClaimIsOwned'
  BY <1>20 DEF Claim
<1>21. ASSUME NEW t \in Tasks, Push(t) PROVE VisibleOrTold' /\ ClaimIsOwned'
  BY <1>21 DEF Push, ReadyToPush
<1>22. ASSUME NEW t \in Tasks, Wake(t) PROVE VisibleOrTold' /\ ClaimIsOwned'
  BY <1>22 DEF Wake
<1>23. ASSUME NEW t \in Tasks, Complete(t) PROVE VisibleOrTold' /\ ClaimIsOwned'
  BY <1>23 DEF Complete
<1>24. ASSUME NEW t \in Tasks, AbortAgent(t) PROVE VisibleOrTold' /\ ClaimIsOwned'
  BY <1>24 DEF AbortAgent
<1>25. ASSUME NEW t \in Tasks, CallbackPanics(t) PROVE VisibleOrTold' /\ ClaimIsOwned'
  BY <1>25 DEF CallbackPanics
<1>26. ASSUME NEW t \in Tasks, AgentPanics(t) PROVE VisibleOrTold' /\ ClaimIsOwned'
  BY <1>26 DEF AgentPanics
<1>27. ASSUME NEW t \in Tasks, Cancel(t) PROVE VisibleOrTold' /\ ClaimIsOwned'
  BY <1>27 DEF Cancel, Cancellable
<1>28. ASSUME NEW t \in Tasks, NEW event \in Events, Notify(t, event)
      PROVE  VisibleOrTold' /\ ClaimIsOwned'
  BY <1>28 DEF Notify
<1>29. CASE BeginShutdown
  BY <1>29 DEF BeginShutdown
<1>30. CASE ListTasks
  BY <1>30 DEF ListTasks
<1>31. ASSUME NEW t \in Tasks, CancelListed(t) PROVE VisibleOrTold' /\ ClaimIsOwned'
  BY <1>31 DEF CancelListed, Cancellable
<1>32. CASE AwaitDrain
  BY <1>32 DEF AwaitDrain
<1>33. CASE Report
  BY <1>33 DEF Report
<1>34. CASE UNCHANGED taskVars
  BY <1>34 DEF taskVars
<1> QED
  BY <1>1, <1>2, <1>3, <1>4, <1>5, <1>6, <1>7, <1>8, <1>9, <1>10, <1>11,
     <1>12, <1>13, <1>14, <1>15, <1>16, <1>17, <1>18, <1>19, <1>20, <1>21,
     <1>22, <1>23, <1>24, <1>25, <1>26, <1>27, <1>28, <1>29, <1>30, <1>31,
     <1>32, <1>33, <1>34
     DEF Next, Begin, InCall, Background, Ends, Settles, Faults, Shutdown

\* An outcome is announced when the entry goes, and the entry goes once.
LEMMA OutcomeStep ==
  ASSUME TypeOK, Kinds, ClaimIsOwned, OutcomeOnce, [Next]_taskVars
  PROVE  OutcomeOnce'
<1> USE DEF TypeOK, Kinds, ClaimIsOwned, OutcomeOnce, OutcomeAt, Active,
            Stages, Move, scopeVars, shutdownVars, evidenceVars, registryVars,
            signalVars, inboxVars
<1>1. ASSUME NEW t \in Tasks, SpawnShell(t) PROVE OutcomeOnce'
  BY <1>1 DEF SpawnShell, Enter, Told
<1>2. ASSUME NEW t \in Tasks, SpawnFails(t) PROVE OutcomeOnce'
  BY <1>2 DEF SpawnFails, Enter, Told
<1>3. ASSUME NEW t \in Tasks, SpawnRefused(t) PROVE OutcomeOnce'
  BY <1>3 DEF SpawnRefused, Told
<1>4. ASSUME NEW t \in Tasks, BeginForeground(t) PROVE OutcomeOnce'
  BY <1>4 DEF BeginForeground, Told
<1>5. ASSUME NEW t \in Tasks, SpawnAgent(t) PROVE OutcomeOnce'
  BY <1>5 DEF SpawnAgent, Told
<1>6. ASSUME NEW t \in Tasks, AdmitWorkflow(t) PROVE OutcomeOnce'
  BY <1>6 DEF AdmitWorkflow, Told
<1>7. ASSUME NEW t \in Tasks, EndForeground(t) PROVE OutcomeOnce'
  BY <1>7 DEF EndForeground, Told
<1>8. ASSUME NEW t \in Tasks, Promote(t) PROVE OutcomeOnce'
  <2>1. \A u \in Tasks : \A event \in {"Completed", "Cancelled"} :
          Told(u, event)' <=> Told(u, event)
    <3>1. CASE open /\ Room(t)
      BY <1>8, <3>1, EnterTells DEF Promote
    <3>2. CASE ~(open /\ Room(t))
      BY <1>8, <3>2 DEF Promote, Told
    <3> QED
      BY <3>1, <3>2
  <2> QED
    BY <1>8, <2>1 DEF Promote, Enter
<1>9. ASSUME NEW t \in Tasks, SpawnPromoted(t) PROVE OutcomeOnce'
  BY <1>9 DEF SpawnPromoted, Told
<1>10. ASSUME NEW t \in Tasks, RegisterAgent(t) PROVE OutcomeOnce'
  <2>1. \A u \in Tasks : \A event \in {"Completed", "Cancelled"} :
          Told(u, event)' <=> Told(u, event)
    <3>1. CASE open /\ Room(t)
      BY <1>10, <3>1, EnterTells DEF RegisterAgent
    <3>2. CASE ~(open /\ Room(t))
      BY <1>10, <3>2 DEF RegisterAgent, Told
    <3> QED
      BY <3>1, <3>2
  <2> QED
    BY <1>10, <2>1 DEF RegisterAgent, Enter
<1>11. ASSUME NEW t \in Tasks, ReleaseAgent(t) PROVE OutcomeOnce'
  BY <1>11 DEF ReleaseAgent, Told
<1>12. ASSUME NEW t \in Tasks, RegisterWorkflow(t) PROVE OutcomeOnce'
  <2>1. \A u \in Tasks : \A event \in {"Completed", "Cancelled"} :
          Told(u, event)' <=> Told(u, event)
    <3>1. CASE open /\ Room(t)
      BY <1>12, <3>1, EnterTells DEF RegisterWorkflow
    <3>2. CASE ~(open /\ Room(t))
      BY <1>12, <3>2 DEF RegisterWorkflow, Told
    <3> QED
      BY <3>1, <3>2
  <2> QED
    BY <1>12, <2>1 DEF RegisterWorkflow, Enter
<1>13. ASSUME NEW t \in Tasks, StartWorkflow(t) PROVE OutcomeOnce'
  <2>1. \A u \in Tasks : \A event \in {"Completed", "Cancelled"} :
          Told(u, event)' <=> Told(u, event)
    BY <1>13 DEF StartWorkflow, Told
  <2> QED
    BY <1>13, <2>1 DEF StartWorkflow
<1>14. ASSUME NEW t \in Tasks, Withdraw(t) PROVE OutcomeOnce'
  <2>1. CASE Cancellable(t)
    <3>1. \A u \in Tasks : \A event \in {"Completed", "Cancelled"} :
          Told(u, event)' <=> Told(u, event) \/ (u = t /\ event = "Cancelled")
      BY <1>14, <2>1, RemoveTells DEF Withdraw
    <3> QED
      BY <1>14, <2>1, <3>1 DEF Withdraw, Cancellable, Remove
  <2>2. CASE ~Cancellable(t)
    <3>1. \A u \in Tasks : \A event \in {"Completed", "Cancelled"} :
          Told(u, event)' <=> Told(u, event)
      BY <1>14, <2>2 DEF Withdraw, Told
    <3> QED
      BY <1>14, <2>2, <3>1 DEF Withdraw, Cancellable
  <2> QED
    BY <2>1, <2>2
<1>15. ASSUME NEW t \in Tasks, ShellEnds(t) PROVE OutcomeOnce'
  BY <1>15 DEF ShellEnds, Told
<1>16. ASSUME NEW t \in Tasks, AgentEnds(t) PROVE OutcomeOnce'
  BY <1>16 DEF AgentEnds, Told
<1>17. ASSUME NEW t \in Tasks, WorkflowEnds(t) PROVE OutcomeOnce'
  BY <1>17 DEF WorkflowEnds, Told
<1>18. ASSUME NEW t \in Tasks, Reaped(t) PROVE OutcomeOnce'
  BY <1>18 DEF Reaped, Told
<1>19. ASSUME NEW t \in Tasks, CleanUp(t) PROVE OutcomeOnce'
  BY <1>19 DEF CleanUp, Told
<1>20. ASSUME NEW t \in Tasks, Claim(t) PROVE OutcomeOnce'
  <2>1. \A u \in Tasks : \A event \in {"Completed", "Cancelled"} :
          Told(u, event)' <=> Told(u, event)
    BY <1>20 DEF Claim, Told
  <2> QED
    BY <1>20, <2>1 DEF Claim
<1>21. ASSUME NEW t \in Tasks, Push(t) PROVE OutcomeOnce'
  BY <1>21 DEF Push, ReadyToPush, Told
<1>22. ASSUME NEW t \in Tasks, Wake(t) PROVE OutcomeOnce'
  BY <1>22 DEF Wake, Told
<1>23. ASSUME NEW t \in Tasks, Complete(t) PROVE OutcomeOnce'
  <2>1. CASE Active(t)
    <3>1. \A u \in Tasks : \A event \in {"Completed", "Cancelled"} :
          Told(u, event)' <=> Told(u, event) \/ (u = t /\ event = "Completed")
      BY <1>23, <2>1, RemoveTells DEF Complete
    <3> QED
      BY <1>23, <2>1, <3>1 DEF Complete, Remove
  <2>2. CASE ~Active(t)
    <3>1. \A u \in Tasks : \A event \in {"Completed", "Cancelled"} :
          Told(u, event)' <=> Told(u, event)
      BY <1>23, <2>2 DEF Complete, Told
    <3> QED
      BY <1>23, <2>2, <3>1 DEF Complete
  <2> QED
    BY <2>1, <2>2
<1>24. ASSUME NEW t \in Tasks, AbortAgent(t) PROVE OutcomeOnce'
  BY <1>24 DEF AbortAgent, Told
<1>25. ASSUME NEW t \in Tasks, CallbackPanics(t) PROVE OutcomeOnce'
  BY <1>25 DEF CallbackPanics, Told
<1>26. ASSUME NEW t \in Tasks, AgentPanics(t) PROVE OutcomeOnce'
  BY <1>26 DEF AgentPanics, Told
<1>27. ASSUME NEW t \in Tasks, Cancel(t) PROVE OutcomeOnce'
  <2>1. \A u \in Tasks : \A event \in {"Completed", "Cancelled"} :
          Told(u, event)' <=> Told(u, event) \/ (u = t /\ event = "Cancelled")
    BY <1>27, RemoveTells DEF Cancel
  <2>2. OutcomeAt(t)'
    BY <1>27, <2>1 DEF Cancel, Cancellable, Remove
  <2>3. ASSUME NEW u \in Tasks, u # t PROVE OutcomeAt(u)'
    <3>1. UNCHANGED <<stage[u], entry[u]>> /\ queue' = queue
      BY <1>27, <2>3 DEF Cancel, Remove
    <3> QED
      BY <2>1, <2>3, <3>1
  <2> QED
    BY <2>2, <2>3
<1>28. ASSUME NEW t \in Tasks, NEW event \in Events, Notify(t, event)
      PROVE  OutcomeOnce'
  BY <1>28 DEF Notify, Told
<1>29. CASE BeginShutdown
  BY <1>29 DEF BeginShutdown, Told
<1>30. CASE ListTasks
  BY <1>30 DEF ListTasks, Told
<1>31. ASSUME NEW t \in Tasks, CancelListed(t) PROVE OutcomeOnce'
  <2>1. CASE Cancellable(t)
    <3>1. \A u \in Tasks : \A event \in {"Completed", "Cancelled"} :
          Told(u, event)' <=> Told(u, event) \/ (u = t /\ event = "Cancelled")
      BY <1>31, <2>1, RemoveTells DEF CancelListed
    <3>2. OutcomeAt(t)'
      BY <1>31, <2>1, <3>1 DEF CancelListed, Cancellable, Remove
    <3>3. ASSUME NEW u \in Tasks, u # t PROVE OutcomeAt(u)'
      <4>1. UNCHANGED <<stage[u], entry[u]>> /\ queue' = queue
        BY <1>31, <2>1, <3>3 DEF CancelListed, Remove
      <4> QED
        BY <3>1, <3>3, <4>1
    <3> QED
      BY <3>2, <3>3
  <2>2. CASE ~Cancellable(t)
    <3>1. \A u \in Tasks : \A event \in {"Completed", "Cancelled"} :
          Told(u, event)' <=> Told(u, event)
      BY <1>31, <2>2 DEF CancelListed, Told
    <3> QED
      BY <1>31, <2>2, <3>1 DEF CancelListed, Cancellable
  <2> QED
    BY <2>1, <2>2
<1>32. CASE AwaitDrain
  BY <1>32 DEF AwaitDrain, Told
<1>33. CASE Report
  BY <1>33 DEF Report, Told
<1>34. CASE UNCHANGED taskVars
  BY <1>34 DEF taskVars, Told
<1> QED
  BY <1>1, <1>2, <1>3, <1>4, <1>5, <1>6, <1>7, <1>8, <1>9, <1>10, <1>11,
     <1>12, <1>13, <1>14, <1>15, <1>16, <1>17, <1>18, <1>19, <1>20, <1>21,
     <1>22, <1>23, <1>24, <1>25, <1>26, <1>27, <1>28, <1>29, <1>30, <1>31,
     <1>32, <1>33, <1>34
     DEF Next, Begin, InCall, Background, Ends, Settles, Faults, Shutdown

\* Nothing enters a closed scope, and what it listed is cancelled or unkillable.
LEMMA ShutdownStep ==
  ASSUME TypeOK, Kinds, ClosedForGood, [Next]_taskVars
  PROVE  ClosedForGood'
<1> USE DEF TypeOK, Kinds, ClosedForGood, Active, Stages, Move, Enter, Remove,
            scopeVars, shutdownVars, evidenceVars, registryVars, signalVars,
            inboxVars
<1>1. ASSUME NEW t \in Tasks, SpawnShell(t) PROVE ClosedForGood'
  BY <1>1 DEF SpawnShell
<1>2. ASSUME NEW t \in Tasks, SpawnFails(t) PROVE ClosedForGood'
  BY <1>2 DEF SpawnFails
<1>3. ASSUME NEW t \in Tasks, SpawnRefused(t) PROVE ClosedForGood'
  BY <1>3 DEF SpawnRefused
<1>4. ASSUME NEW t \in Tasks, BeginForeground(t) PROVE ClosedForGood'
  BY <1>4 DEF BeginForeground
<1>5. ASSUME NEW t \in Tasks, SpawnAgent(t) PROVE ClosedForGood'
  BY <1>5 DEF SpawnAgent
<1>6. ASSUME NEW t \in Tasks, AdmitWorkflow(t) PROVE ClosedForGood'
  BY <1>6 DEF AdmitWorkflow
<1>7. ASSUME NEW t \in Tasks, EndForeground(t) PROVE ClosedForGood'
  BY <1>7 DEF EndForeground
<1>8. ASSUME NEW t \in Tasks, Promote(t) PROVE ClosedForGood'
  BY <1>8 DEF Promote
<1>9. ASSUME NEW t \in Tasks, SpawnPromoted(t) PROVE ClosedForGood'
  BY <1>9 DEF SpawnPromoted
<1>10. ASSUME NEW t \in Tasks, RegisterAgent(t) PROVE ClosedForGood'
  BY <1>10 DEF RegisterAgent
<1>11. ASSUME NEW t \in Tasks, ReleaseAgent(t) PROVE ClosedForGood'
  BY <1>11 DEF ReleaseAgent
<1>12. ASSUME NEW t \in Tasks, RegisterWorkflow(t) PROVE ClosedForGood'
  BY <1>12 DEF RegisterWorkflow
<1>13. ASSUME NEW t \in Tasks, StartWorkflow(t) PROVE ClosedForGood'
  BY <1>13 DEF StartWorkflow
<1>14. ASSUME NEW t \in Tasks, Withdraw(t) PROVE ClosedForGood'
  BY <1>14 DEF Withdraw, Cancellable
<1>15. ASSUME NEW t \in Tasks, ShellEnds(t) PROVE ClosedForGood'
  BY <1>15 DEF ShellEnds
<1>16. ASSUME NEW t \in Tasks, AgentEnds(t) PROVE ClosedForGood'
  BY <1>16 DEF AgentEnds
<1>17. ASSUME NEW t \in Tasks, WorkflowEnds(t) PROVE ClosedForGood'
  BY <1>17 DEF WorkflowEnds
<1>18. ASSUME NEW t \in Tasks, Reaped(t) PROVE ClosedForGood'
  BY <1>18 DEF Reaped
<1>19. ASSUME NEW t \in Tasks, CleanUp(t) PROVE ClosedForGood'
  BY <1>19 DEF CleanUp
<1>20. ASSUME NEW t \in Tasks, Claim(t) PROVE ClosedForGood'
  BY <1>20 DEF Claim
<1>21. ASSUME NEW t \in Tasks, Push(t) PROVE ClosedForGood'
  BY <1>21 DEF Push, ReadyToPush
<1>22. ASSUME NEW t \in Tasks, Wake(t) PROVE ClosedForGood'
  BY <1>22 DEF Wake
<1>23. ASSUME NEW t \in Tasks, Complete(t) PROVE ClosedForGood'
  BY <1>23 DEF Complete
<1>24. ASSUME NEW t \in Tasks, AbortAgent(t) PROVE ClosedForGood'
  BY <1>24 DEF AbortAgent
<1>25. ASSUME NEW t \in Tasks, CallbackPanics(t) PROVE ClosedForGood'
  BY <1>25 DEF CallbackPanics
<1>26. ASSUME NEW t \in Tasks, AgentPanics(t) PROVE ClosedForGood'
  BY <1>26 DEF AgentPanics
<1>27. ASSUME NEW t \in Tasks, Cancel(t) PROVE ClosedForGood'
  BY <1>27 DEF Cancel, Cancellable
<1>28. ASSUME NEW t \in Tasks, NEW event \in Events, Notify(t, event)
      PROVE  ClosedForGood'
  BY <1>28 DEF Notify
<1>29. CASE BeginShutdown
  BY <1>29 DEF BeginShutdown
<1>30. CASE ListTasks
  BY <1>30 DEF ListTasks
<1>31. ASSUME NEW t \in Tasks, CancelListed(t) PROVE ClosedForGood'
  BY <1>31 DEF CancelListed, Cancellable
<1>32. CASE AwaitDrain
  BY <1>32 DEF AwaitDrain
<1>33. CASE Report
  BY <1>33 DEF Report
<1>34. CASE UNCHANGED taskVars
  BY <1>34 DEF taskVars
<1> QED
  BY <1>1, <1>2, <1>3, <1>4, <1>5, <1>6, <1>7, <1>8, <1>9, <1>10, <1>11,
     <1>12, <1>13, <1>14, <1>15, <1>16, <1>17, <1>18, <1>19, <1>20, <1>21,
     <1>22, <1>23, <1>24, <1>25, <1>26, <1>27, <1>28, <1>29, <1>30, <1>31,
     <1>32, <1>33, <1>34
     DEF Next, Begin, InCall, Background, Ends, Settles, Faults, Shutdown

\* Nothing tracked can begin behind a shutdown that reported Complete.
LEMMA CompleteStep ==
  ASSUME TypeOK, Kinds, ClosedForGood, CompleteMeansStopped, [Next]_taskVars
  PROVE  CompleteMeansStopped'
<1> USE DEF TypeOK, Kinds, ClosedForGood, CompleteMeansStopped, Tracked,
            Stages, Move, scopeVars, shutdownVars, evidenceVars, registryVars,
            signalVars, inboxVars
<1>1. ASSUME NEW t \in Tasks, SpawnShell(t) PROVE CompleteMeansStopped'
  BY <1>1 DEF SpawnShell
<1>2. ASSUME NEW t \in Tasks, SpawnFails(t) PROVE CompleteMeansStopped'
  BY <1>2 DEF SpawnFails
<1>3. ASSUME NEW t \in Tasks, SpawnRefused(t) PROVE CompleteMeansStopped'
  BY <1>3 DEF SpawnRefused
<1>4. ASSUME NEW t \in Tasks, BeginForeground(t) PROVE CompleteMeansStopped'
  BY <1>4 DEF BeginForeground
<1>5. ASSUME NEW t \in Tasks, SpawnAgent(t) PROVE CompleteMeansStopped'
  BY <1>5 DEF SpawnAgent
<1>6. ASSUME NEW t \in Tasks, AdmitWorkflow(t) PROVE CompleteMeansStopped'
  BY <1>6 DEF AdmitWorkflow
<1>7. ASSUME NEW t \in Tasks, EndForeground(t) PROVE CompleteMeansStopped'
  BY <1>7 DEF EndForeground
<1>8. ASSUME NEW t \in Tasks, Promote(t) PROVE CompleteMeansStopped'
  BY <1>8 DEF Promote
<1>9. ASSUME NEW t \in Tasks, SpawnPromoted(t) PROVE CompleteMeansStopped'
  BY <1>9 DEF SpawnPromoted
<1>10. ASSUME NEW t \in Tasks, RegisterAgent(t) PROVE CompleteMeansStopped'
  BY <1>10 DEF RegisterAgent
<1>11. ASSUME NEW t \in Tasks, ReleaseAgent(t) PROVE CompleteMeansStopped'
  BY <1>11 DEF ReleaseAgent
<1>12. ASSUME NEW t \in Tasks, RegisterWorkflow(t) PROVE CompleteMeansStopped'
  BY <1>12 DEF RegisterWorkflow
<1>13. ASSUME NEW t \in Tasks, StartWorkflow(t) PROVE CompleteMeansStopped'
  BY <1>13 DEF StartWorkflow
<1>14. ASSUME NEW t \in Tasks, Withdraw(t) PROVE CompleteMeansStopped'
  BY <1>14 DEF Withdraw, Cancellable
<1>15. ASSUME NEW t \in Tasks, ShellEnds(t) PROVE CompleteMeansStopped'
  BY <1>15 DEF ShellEnds
<1>16. ASSUME NEW t \in Tasks, AgentEnds(t) PROVE CompleteMeansStopped'
  BY <1>16 DEF AgentEnds
<1>17. ASSUME NEW t \in Tasks, WorkflowEnds(t) PROVE CompleteMeansStopped'
  BY <1>17 DEF WorkflowEnds
<1>18. ASSUME NEW t \in Tasks, Reaped(t) PROVE CompleteMeansStopped'
  BY <1>18 DEF Reaped
<1>19. ASSUME NEW t \in Tasks, CleanUp(t) PROVE CompleteMeansStopped'
  <2>1. t \in Shells
    BY <1>19 DEF CleanUp
  <2>2. t \notin Workflows
    BY <2>1, TasksAssumption
  <2>3. shutdown # "Complete"
    BY <1>19, <2>2 DEF CleanUp
  <2> QED
    BY <1>19, <2>3 DEF CleanUp
<1>20. ASSUME NEW t \in Tasks, Claim(t) PROVE CompleteMeansStopped'
  BY <1>20 DEF Claim
<1>21. ASSUME NEW t \in Tasks, Push(t) PROVE CompleteMeansStopped'
  BY <1>21 DEF Push, ReadyToPush
<1>22. ASSUME NEW t \in Tasks, Wake(t) PROVE CompleteMeansStopped'
  BY <1>22 DEF Wake
<1>23. ASSUME NEW t \in Tasks, Complete(t) PROVE CompleteMeansStopped'
  BY <1>23 DEF Complete
<1>24. ASSUME NEW t \in Tasks, AbortAgent(t) PROVE CompleteMeansStopped'
  BY <1>24 DEF AbortAgent
<1>25. ASSUME NEW t \in Tasks, CallbackPanics(t) PROVE CompleteMeansStopped'
  BY <1>25 DEF CallbackPanics
<1>26. ASSUME NEW t \in Tasks, AgentPanics(t) PROVE CompleteMeansStopped'
  BY <1>26 DEF AgentPanics
<1>27. ASSUME NEW t \in Tasks, Cancel(t) PROVE CompleteMeansStopped'
  BY <1>27 DEF Cancel, Cancellable
<1>28. ASSUME NEW t \in Tasks, NEW event \in Events, Notify(t, event)
      PROVE  CompleteMeansStopped'
  BY <1>28 DEF Notify
<1>29. CASE BeginShutdown
  BY <1>29 DEF BeginShutdown
<1>30. CASE ListTasks
  BY <1>30 DEF ListTasks
<1>31. ASSUME NEW t \in Tasks, CancelListed(t) PROVE CompleteMeansStopped'
  BY <1>31 DEF CancelListed, Cancellable
<1>32. CASE AwaitDrain
  BY <1>32 DEF AwaitDrain
<1>33. CASE Report
  BY <1>33 DEF Report
<1>34. CASE UNCHANGED taskVars
  BY <1>34 DEF taskVars
<1> QED
  BY <1>1, <1>2, <1>3, <1>4, <1>5, <1>6, <1>7, <1>8, <1>9, <1>10, <1>11,
     <1>12, <1>13, <1>14, <1>15, <1>16, <1>17, <1>18, <1>19, <1>20, <1>21,
     <1>22, <1>23, <1>24, <1>25, <1>26, <1>27, <1>28, <1>29, <1>30, <1>31,
     <1>32, <1>33, <1>34
     DEF Next, Begin, InCall, Background, Ends, Settles, Faults, Shutdown

\* The invariant holds at the start.
LEMMA InvInit == TasksInit => Inv
<1> SUFFICES ASSUME TasksInit PROVE Inv
  OBVIOUS
<1> USE DEF TasksInit
<1>1. TypeOK
  BY DEF TypeOK, Stages
<1>2. Kinds /\ VisibleOrTold /\ ClaimIsOwned
  BY DEF Kinds, VisibleOrTold, ClaimIsOwned
<1>3. OutcomeOnce
  BY DEF OutcomeOnce, OutcomeAt, Told, Active
<1>4. ClosedForGood /\ CompleteMeansStopped
  BY DEF ClosedForGood, CompleteMeansStopped
<1> QED
  BY <1>1, <1>2, <1>3, <1>4 DEF Inv

\* Every step keeps the invariant.
LEMMA InvStep == Inv /\ [Next]_taskVars => Inv'
BY TypeStep, KindsStep, VisibleStep, OutcomeStep, ShutdownStep, CompleteStep
   DEF Inv

\* What the invariant says of the properties that the runs check.
LEMMA InvImplies ==
  Inv => /\ TypeOK
         /\ OneOutcome
         /\ HeldUntilRouted
         /\ ClaimIsOwned
         /\ CompleteMeansStopped
         /\ OnlyUncancellableRemain
<1> SUFFICES ASSUME Inv
             PROVE  /\ OneOutcome
                    /\ HeldUntilRouted
                    /\ OnlyUncancellableRemain
  BY DEF Inv
<1>1. OneOutcome
  BY DEF Inv, OutcomeOnce, OutcomeAt, Told, OneOutcome
<1>2. HeldUntilRouted
  BY DEF Inv, VisibleOrTold, HeldUntilRouted
<1>3. OnlyUncancellableRemain
  BY DEF Inv, ClosedForGood, OnlyUncancellableRemain
<1> QED
  BY <1>1, <1>2, <1>3

\* The invariant holds in every behaviour.
LEMMA Invariant == Spec => []Inv
BY InvInit, InvStep, PTL DEF Spec

\* Every variable of the tasks keeps its type.  (registry and scope)
THEOREM TasksTypeOK == Spec => []TypeOK
BY Invariant, InvImplies, PTL

\* A task is announced as completed or as cancelled, never as both, and a
\* cancelled shell publishes nothing.  (claim_completion against cancel)
THEOREM TaskEndsOnce == Spec => []OneOutcome
BY Invariant, InvImplies, PTL

\* A task that has not published its result is visible or was cancelled.  (the
\* order of push, wake and complete)
THEOREM VisibleUntilRouted == Spec => []HeldUntilRouted
BY Invariant, InvImplies, PTL

\* Every claim has a finalizer that settles it.  (claim_completion)
THEOREM ClaimSettles == Spec => []ClaimIsOwned
BY Invariant, InvImplies, PTL

\* A shutdown that reports Complete leaves no execution and no process behind,
\* then and later.  (TaskManager::shutdown)
THEOREM ShutdownIsComplete == Spec => []CompleteMeansStopped
BY Invariant, InvImplies, PTL

\* After the cancels of a shutdown only entries remain that nobody can cancel:
\* nothing registers behind the listing.  (close before cancel_all)
THEOREM NothingRegistersBehind == Spec => []OnlyUncancellableRemain
BY Invariant, InvImplies, PTL

-----------------------------------------------------------------------------
(* The loop at the end of a turn                                           *)

\* A result that was published and not yet settled is visible, or its task was
\* cancelled.
RoutedVisible == \A t \in Tasks : stage[t] = "routed" => Active(t) \/ t \in told

\* The loop leaves Act when its tool calls have returned, and begins none elsewhere.
CallsOver == at # "acting" => \A t \in Tasks : ~InToolCall(t)

\* Past a probe that saw no active task there is none.
NoneActive == at \in {"requeue", "lastversion", "tail"} => \A t \in Tasks : ~Active(t)

\* Past a probe that saw one, it is still there or its end is being told.
Roused ==
  at \in {"enter", "suspending", "waiting"} =>
    (\E t \in Tasks : Active(t)) \/ unseen \/ due # {}

\* A result that reached the queue after the loop looked there wakes it.
WakeOwed ==
  at = "waiting" /\ queue # {} =>
    permit \/ \E t \in Tasks : stage[t] = "pushed"

IdleInv ==
  /\ Inv
  /\ RoutedVisible
  /\ CallsOver
  /\ NoneActive
  /\ Roused
  /\ WakeOwed

\* What a step outside the tool calls does to the loop's signals: entries only
\* go, and one that goes is told; a result only comes with a wake behind it.
Signals ==
  /\ unseen => unseen'
  /\ permit => permit'
  /\ due # {} => due' # {} \/ unseen'
  /\ \A t \in Tasks : Active(t)' => Active(t)
  /\ \A t \in Tasks : Active(t) => Active(t)' \/ due' # {}
  /\ \A t \in Tasks : InToolCall(t)' => InToolCall(t)
  /\ queue' = queue \/ \E t \in Tasks : stage'[t] = "pushed"
  /\ \A t \in Tasks : stage[t] = "pushed" => stage'[t] = "pushed" \/ permit'

\* Every action of a task, a callback or a shutdown.
LEMMA BackgroundSignals ==
  ASSUME TypeOK, Background
  PROVE  Signals
<1> USE DEF TypeOK, Stages, Events, Move, scopeVars, shutdownVars, evidenceVars,
            registryVars, signalVars, inboxVars, Active, InToolCall, Signals
<1>1. ASSUME NEW t \in Tasks, ShellEnds(t) PROVE Signals
  BY <1>1 DEF ShellEnds
<1>2. ASSUME NEW t \in Tasks, AgentEnds(t) PROVE Signals
  BY <1>2 DEF AgentEnds
<1>3. ASSUME NEW t \in Tasks, WorkflowEnds(t) PROVE Signals
  BY <1>3 DEF WorkflowEnds
<1>4. ASSUME NEW t \in Tasks, Reaped(t) PROVE Signals
  BY <1>4 DEF Reaped
<1>5. ASSUME NEW t \in Tasks, CleanUp(t) PROVE Signals
  BY <1>5 DEF CleanUp
<1>6. ASSUME NEW t \in Tasks, Claim(t) PROVE Signals
  BY <1>6 DEF Claim
<1>7. ASSUME NEW t \in Tasks, Push(t) PROVE Signals
  BY <1>7 DEF Push, ReadyToPush
<1>8. ASSUME NEW t \in Tasks, Wake(t) PROVE Signals
  BY <1>8 DEF Wake
<1>9. ASSUME NEW t \in Tasks, Complete(t) PROVE Signals
  <2>1. CASE Active(t)
    <3>1. Remove(t, "Completed")
      BY <1>9, <2>1 DEF Complete
    <3>2. \A u \in Tasks : InToolCall(u)' => InToolCall(u)
      BY <1>9, <3>1 DEF Complete, Remove
    <3> QED
      BY <1>9, <3>1, <3>2 DEF Complete, Remove
  <2>2. CASE ~Active(t)
    BY <1>9, <2>2 DEF Complete
  <2> QED
    BY <2>1, <2>2
<1>10. ASSUME NEW t \in Tasks, AbortAgent(t) PROVE Signals
  BY <1>10 DEF AbortAgent
<1>11. ASSUME NEW t \in Tasks, Faults(t) PROVE Signals
  BY <1>11 DEF Faults, CallbackPanics, AgentPanics
<1>12. ASSUME NEW t \in Tasks, Cancel(t) PROVE Signals
  BY <1>12 DEF Cancel, Cancellable, Remove
<1>13. ASSUME NEW t \in Tasks, NEW event \in Events, Notify(t, event) PROVE Signals
  BY <1>13 DEF Notify
<1>14. CASE BeginShutdown \/ ListTasks \/ AwaitDrain \/ Report
  BY <1>14 DEF BeginShutdown, ListTasks, AwaitDrain, Report
<1>15. ASSUME NEW t \in Tasks, CancelListed(t) PROVE Signals
  <2>1. CASE Cancellable(t)
    <3>1. Remove(t, "Cancelled")
      BY <1>15, <2>1 DEF CancelListed
    <3>2. \A u \in Tasks : InToolCall(u)' => InToolCall(u)
      BY <1>15, <3>1 DEF CancelListed, Remove
    <3> QED
      BY <1>15, <3>1, <3>2 DEF CancelListed, Remove
  <2>2. CASE ~Cancellable(t)
    BY <1>15, <2>2 DEF CancelListed
  <2> QED
    BY <2>1, <2>2
<1> QED
  BY <1>1, <1>2, <1>3, <1>4, <1>5, <1>6, <1>7, <1>8, <1>9, <1>10, <1>11, <1>12,
     <1>13, <1>14, <1>15 DEF Background, Ends, Settles, Shutdown

\* A result leaves the list of those to settle by settling, its entry by that or
\* by a cancel.
LEMMA RoutedStep ==
  ASSUME Inv, RoutedVisible, Next
  PROVE  RoutedVisible'
<1> USE DEF Stages, Events, Move, scopeVars, shutdownVars, evidenceVars,
            registryVars, signalVars, inboxVars, Active, RoutedVisible
<1>0. /\ TypeOK /\ VisibleOrTold
      /\ \A t \in Tasks : stage[t] = "claimed" => Active(t)
  <2>1. \A t \in Tasks : stage[t] = "claimed" => t \in Shells /\ OutcomeAt(t)
    BY DEF Inv, Kinds, OutcomeOnce
  <2>2. \A t \in Tasks : stage[t] = "claimed" => entry[t] = "completing"
    BY <2>1 DEF OutcomeAt
  <2> QED
    BY <2>2 DEF Inv
<1> USE <1>0 DEF TypeOK
<1>1. ASSUME NEW t \in Tasks, Begin(t) PROVE RoutedVisible'
  BY <1>1 DEF Begin, SpawnShell, SpawnFails, SpawnRefused, BeginForeground, SpawnAgent,
              AdmitWorkflow, Enter
<1>2. ASSUME NEW t \in Tasks, EndForeground(t) \/ Promote(t) \/ SpawnPromoted(t)
      PROVE  RoutedVisible'
  BY <1>2 DEF EndForeground, Promote, SpawnPromoted, Enter
<1>3. ASSUME NEW t \in Tasks, RegisterAgent(t) \/ ReleaseAgent(t) PROVE RoutedVisible'
  BY <1>3 DEF RegisterAgent, ReleaseAgent, Enter
<1>4. ASSUME NEW t \in Tasks, RegisterWorkflow(t) \/ StartWorkflow(t) PROVE RoutedVisible'
  BY <1>4 DEF RegisterWorkflow, StartWorkflow, Enter
<1>5. ASSUME NEW t \in Tasks, Withdraw(t) PROVE RoutedVisible'
  BY <1>5 DEF Withdraw, Cancellable, Remove
<1>6. ASSUME NEW t \in Tasks, Ends(t) PROVE RoutedVisible'
  BY <1>6 DEF Ends, ShellEnds, AgentEnds, WorkflowEnds
<1>7. ASSUME NEW t \in Tasks, Reaped(t) \/ CleanUp(t) PROVE RoutedVisible'
  BY <1>7 DEF Reaped, CleanUp
<1>8. ASSUME NEW t \in Tasks, Claim(t) PROVE RoutedVisible'
  BY <1>8 DEF Claim
<1>9. ASSUME NEW t \in Tasks, Push(t) PROVE RoutedVisible'
  BY <1>9 DEF Push, ReadyToPush
<1>10. ASSUME NEW t \in Tasks, Wake(t) PROVE RoutedVisible'
  BY <1>10 DEF Wake, VisibleOrTold
<1>11. ASSUME NEW t \in Tasks, Complete(t) PROVE RoutedVisible'
  BY <1>11 DEF Complete, Remove
<1>12. ASSUME NEW t \in Tasks, AbortAgent(t) PROVE RoutedVisible'
  BY <1>12 DEF AbortAgent
<1>13. ASSUME NEW t \in Tasks, Faults(t) PROVE RoutedVisible'
  BY <1>13 DEF Faults, CallbackPanics, AgentPanics
<1>14. ASSUME NEW t \in Tasks, Cancel(t) PROVE RoutedVisible'
  BY <1>14 DEF Cancel, Cancellable, Remove
<1>15. ASSUME NEW t \in Tasks, NEW event \in Events, Notify(t, event) PROVE RoutedVisible'
  BY <1>15 DEF Notify
<1>16. CASE BeginShutdown \/ ListTasks \/ AwaitDrain \/ Report
  BY <1>16 DEF BeginShutdown, ListTasks, AwaitDrain, Report
<1>17. ASSUME NEW t \in Tasks, CancelListed(t) PROVE RoutedVisible'
  BY <1>17 DEF CancelListed, Cancellable, Remove
<1> QED
  BY <1>1, <1>2, <1>3, <1>4, <1>5, <1>6, <1>7, <1>8, <1>9, <1>10, <1>11, <1>12,
     <1>13, <1>14, <1>15, <1>16, <1>17
     DEF Next, InCall, Background, Settles, Shutdown

\* The loop takes results and signals; everything else of the tasks is theirs.
LEMMA LoopKeepsInv ==
  ASSUME Inv, TasksRest, queue' = queue \/ queue' = {},
         unseen' \in BOOLEAN, permit' \in BOOLEAN
  PROVE  Inv'
<1> USE DEF TasksRest, scopeVars, shutdownVars, evidenceVars, registryVars
<1>1. TypeOK'
  BY DEF Inv, TypeOK
<1>2. Kinds' /\ VisibleOrTold' /\ ClaimIsOwned'
  BY DEF Inv, Kinds, VisibleOrTold, ClaimIsOwned, Active
<1>3. OutcomeOnce'
  BY DEF Inv, OutcomeOnce, OutcomeAt, Told, Active
<1>4. ClosedForGood' /\ CompleteMeansStopped'
  BY DEF Inv, ClosedForGood, CompleteMeansStopped, Tracked
<1> QED
  BY <1>1, <1>2, <1>3, <1>4 DEF Inv

\* A step of the loop that leaves the tasks alone leaves their part alone.
LEMMA LoopOnlyLooks ==
  ASSUME Inv, RoutedVisible, UNCHANGED taskVars
  PROVE  Inv' /\ RoutedVisible'
<1>1. Inv'
  BY InvStep
<1>2. RoutedVisible'
  BY DEF RoutedVisible, Active, taskVars, registryVars
<1> QED
  BY <1>1, <1>2

\* A step of the loop that takes signals.
LEMMA LoopTakesSignals ==
  ASSUME Inv, RoutedVisible, TasksRest, queue' = queue \/ queue' = {},
         unseen' \in BOOLEAN, permit' \in BOOLEAN
  PROVE  Inv' /\ RoutedVisible'
<1>1. Inv'
  BY LoopKeepsInv
<1>2. RoutedVisible'
  BY DEF RoutedVisible, Active, TasksRest, registryVars
<1> QED
  BY <1>1, <1>2

\* The tasks move below the loop, whatever it is looking at.
LEMMA TasksKeepIdle ==
  ASSUME IdleInv, TaskStep
  PROVE  IdleInv'
<1>1. Next
  BY DEF TaskStep, Next
<1>2. Inv' /\ RoutedVisible'
  BY <1>1, InvStep, RoutedStep DEF IdleInv
<1>3. CASE at = "acting"
  <2>1. at' = "acting"
    BY <1>3 DEF TaskStep, loopVars
  <2> QED
    BY <1>2, <2>1 DEF IdleInv, CallsOver, NoneActive, Roused, WakeOwed
<1>4. CASE at # "acting"
  <2>1. \A t \in Tasks : ~InCall(t)
    <3>1. ASSUME NEW t \in Tasks, ~InToolCall(t) PROVE ~InCall(t)
      BY <3>1 DEF InToolCall, InCall, EndForeground, Promote, SpawnPromoted,
         RegisterAgent, ReleaseAgent, RegisterWorkflow, StartWorkflow, Withdraw
    <3> QED
      BY <1>4, <3>1 DEF IdleInv, CallsOver
  <2>2. Background /\ at' = at
    BY <1>4, <2>1 DEF TaskStep, loopVars
  <2>3. Signals
    BY <2>2, BackgroundSignals DEF IdleInv, Inv
  <2>4. CallsOver' /\ NoneActive'
    BY <2>2, <2>3 DEF IdleInv, Signals, CallsOver, NoneActive
  <2>5. Roused'
    BY <2>2, <2>3 DEF IdleInv, Signals, Roused
  <2>6. WakeOwed'
    BY <2>2, <2>3 DEF IdleInv, Signals, WakeOwed
  <2> QED
    BY <1>2, <2>4, <2>5, <2>6 DEF IdleInv
<1> QED
  BY <1>3, <1>4

\* Each look of the loop establishes what its next place asks for.
LEMMA LoopKeepsIdle ==
  ASSUME IdleInv, Loop
  PROVE  IdleInv'
<1> USE DEF Goto, CallsOver, NoneActive, Roused, WakeOwed, InToolCall, Active
<1>0. Inv /\ RoutedVisible /\ unseen \in BOOLEAN /\ permit \in BOOLEAN
  BY DEF IdleInv, Inv, TypeOK
<1>1. CASE Act
  <2>1. UNCHANGED taskVars
    BY <1>1 DEF Act
  <2>2. Inv' /\ RoutedVisible'
    BY <1>0, <2>1, LoopOnlyLooks
  <2> QED
    BY <1>1, <2>2 DEF IdleInv, Act, taskVars, registryVars
<1>2. CASE Interrupted
  <2>1. UNCHANGED taskVars
    BY <1>2 DEF Interrupted
  <2>2. Inv' /\ RoutedVisible'
    BY <1>0, <2>1, LoopOnlyLooks
  <2> QED
    BY <1>2, <2>2 DEF IdleInv, Interrupted, taskVars, registryVars
<1>3. CASE Receive
  <2>1. Inv' /\ RoutedVisible'
    BY <1>0, <1>3, LoopTakesSignals DEF Receive
  <2> QED
    BY <1>3, <2>1 DEF IdleInv, Receive, TasksRest, registryVars
<1>4. ASSUME NEW place \in {"recheck", "enter", "suspending", "requeue", "tail"},
             NEW otherwise \in Places,
             LookAtQueue(place, otherwise),
             otherwise \in {"enter", "suspending", "waiting"} =>
               place \in {"enter", "suspending", "waiting"},
             otherwise \in {"requeue", "lastversion", "tail"} =>
               place \in {"requeue", "lastversion", "tail"}
      PROVE  IdleInv'
  <2>1. UNCHANGED taskVars
    BY <1>4 DEF LookAtQueue
  <2>2. Inv' /\ RoutedVisible'
    BY <1>0, <2>1, LoopOnlyLooks
  <2> QED
    BY <1>4, <2>2 DEF IdleInv, LookAtQueue, taskVars, registryVars, inboxVars, signalVars
<1>5. CASE FirstVersion \/ LastVersion
  <2>1. Inv' /\ RoutedVisible'
    BY <1>0, <1>5, LoopTakesSignals
       DEF FirstVersion, LastVersion, LookAtVersion, inboxVars
  <2> QED
    BY <1>5, <2>1 DEF IdleInv, FirstVersion, LastVersion, LookAtVersion, TasksRest,
       registryVars
<1>6. CASE Probe
  <2>1. UNCHANGED taskVars
    BY <1>6 DEF Probe
  <2>2. Inv' /\ RoutedVisible'
    BY <1>0, <2>1, LoopOnlyLooks
  <2>3. CASE \E t \in Tasks : Active(t)
    BY <1>6, <2>2, <2>3 DEF IdleInv, Probe, taskVars, registryVars, Active
  <2>4. CASE ~ \E t \in Tasks : Active(t)
    BY <1>6, <2>2, <2>4 DEF IdleInv, Probe, taskVars, registryVars, Active
  <2> QED
    BY <2>3, <2>4
<1>7. CASE WokenByInbox
  <2>1. Inv' /\ RoutedVisible'
    BY <1>0, <1>7, LoopTakesSignals DEF WokenByInbox
  <2> QED
    BY <1>7, <2>1 DEF IdleInv, WokenByInbox, TasksRest, registryVars
<1>8. CASE WokenByRegistry
  <2>1. Inv' /\ RoutedVisible'
    BY <1>0, <1>8, LoopTakesSignals DEF WokenByRegistry, inboxVars
  <2> QED
    BY <1>8, <2>1 DEF IdleInv, WokenByRegistry, TasksRest, registryVars
<1>9. CASE Recheck \/ EnterIdle \/ Suspend \/ Requeue \/ Tail
  BY <1>4, <1>9 DEF Recheck, EnterIdle, Suspend, Requeue, Tail, Places
<1> QED
  BY <1>1, <1>2, <1>3, <1>5, <1>6, <1>7, <1>8, <1>9 DEF Loop

\* Every step of the loop, of its tasks and of the cancel.
LEMMA IdleStep == IdleInv /\ [IdleNext]_vars => IdleInv'
<1> SUFFICES ASSUME IdleInv, [IdleNext]_vars PROVE IdleInv'
  OBVIOUS
<1>1. CASE Loop
  BY <1>1, LoopKeepsIdle
<1>2. CASE TaskStep
  BY <1>2, TasksKeepIdle
<1>3. CASE CancelTurn \/ UNCHANGED vars
  <2>1. UNCHANGED taskVars /\ at' = at
    BY <1>3 DEF CancelTurn, vars, loopVars
  <2>2. Inv' /\ RoutedVisible'
    BY <2>1, LoopOnlyLooks DEF IdleInv
  <2> QED
    BY <2>1, <2>2 DEF IdleInv, CallsOver, NoneActive, Roused, WakeOwed, InToolCall,
       Active, taskVars, registryVars, signalVars, inboxVars
<1> QED
  BY <1>1, <1>2, <1>3 DEF IdleNext

\* A turn begins in its tool calls, with no task.
LEMMA IdleInit == Init => IdleInv
<1> SUFFICES ASSUME Init PROVE IdleInv
  OBVIOUS
<1>1. Inv
  BY InvInit DEF Init
<1> QED
  BY <1>1 DEF Init, TasksInit, IdleInv, RoutedVisible, CallsOver, NoneActive, Roused,
     WakeOwed

\* The loop against every movement of the tasks and every delivery of a signal.
LEMMA IdleInvariant == IdleSpec => []IdleInv
BY IdleInit, IdleStep, PTL DEF IdleSpec

\* A suspended loop with a result in the queue or without an active task has a
\* signal to wake it, or one on its way (stages/mod.rs, the select of the idle
\* wait), for any tasks and limits.
THEOREM SuspendedIsWoken == IdleSpec => []NoWakeLost
<1>1. IdleInv => NoWakeLost
  BY DEF IdleInv, Roused, WakeOwed, NoWakeLost
<1> QED
  BY <1>1, IdleInvariant, PTL

\* A turn that completes leaves no result in the queue and no task of its own
\* behind, unless a cancel told it to stop (the checks before the exit).
THEOREM TurnLeavesNothing == IdleSpec => NothingLeftBehind
<1> DEFINE Taken ==
      at # "completed" /\ at' = "completed" =>
        /\ queue \subseteq told
        /\ \A t \in Tasks : Began(t) => t \in told
<1>1. IdleInv /\ [IdleNext]_vars => [Taken]_vars
  <2> SUFFICES ASSUME IdleInv, IdleNext, at # "completed", at' = "completed"
               PROVE  /\ queue \subseteq told
                      /\ \A t \in Tasks : Began(t) => t \in told
    OBVIOUS
  <2>1. Tail
    BY DEF IdleNext, Loop, TaskStep, CancelTurn, loopVars, Act, Interrupted, Receive,
       Recheck, FirstVersion, Probe, EnterIdle, Suspend, WokenByInbox,
       WokenByRegistry, Requeue, LastVersion, LookAtQueue, LookAtVersion, Goto
  <2>2. at = "tail" /\ queue = {}
    BY <2>1 DEF Tail, LookAtQueue, Goto
  <2>3. \A t \in Tasks : ~Active(t)
    BY <2>2 DEF IdleInv, NoneActive
  <2>4. ASSUME NEW t \in Tasks, Began(t) PROVE t \in told
    BY <2>3, <2>4 DEF IdleInv, Inv, VisibleOrTold, RoutedVisible, Began
  <2> QED
    BY <2>2, <2>4
<1> QED
  BY <1>1, IdleInvariant, PTL DEF IdleSpec, NothingLeftBehind
=============================================================================

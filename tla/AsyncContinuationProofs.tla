---------------------- MODULE AsyncContinuationProofs ----------------------
(***************************************************************************)
(* Proofs about the scheduler of continuations, for every number of agents,*)
(* triggers, prompts, cancels and failures: its types, that no cancel      *)
(* causes a chain of continuations, that no continuation runs for nothing, *)
(* and that what waits when the host comes to rest was not forgotten.      *)
(*                                                                         *)
(* That a result or a trigger has a taker is a statement about rest.  The  *)
(* inductive form says, for every other state, what the taker will be: a   *)
(* prompt on its way, a continuation that waits in the current epoch, a    *)
(* request in the channel, a mark that the end of the turn looks at, the   *)
(* turn that runs, or an armed cancel with a notification still to come.   *)
(***************************************************************************)
EXTENDS AsyncContinuation, FiniteSetTheorems, SequenceTheorems, TLAPS

\* A turn has a kind exactly when there is one, and only continuations are marked.
TurnOK ==
  /\ turn.kind = "none" <=> turn.at = "none"
  /\ turn.at = "none" => turn = NoTurn
  /\ turn.at = "marking" => turn.kind = "continuation"

\* The epoch counts the prompts that have superseded what had not begun.
EpochCounts == epoch = Cardinality({p \in Prompts : prompt[p] # "new"})

\* An armed cancel is one that has not yet caused its continuation.
ArmedOnce == takes <= arms /\ (armed => takes < arms)

Sent(r) == \E n \in DOMAIN chan : chan[n] = r

\* A continuation that is not superseded waits for the prompt lock.
Called == waiting[epoch] > 0

PromptComes == \E p \in Prompts : prompt[p] \in {"bumped", "injecting", "waiting"}

Admitting == turn.kind = "continuation" /\ turn.at = "admitting"
Current == Admitting => turn.epoch = epoch

\* The turn still has a Receive before it.
Early == turn.at \in {"admitting", "marking", "starting", "opening", "loop"}

\* A continuation of a cancel waits.
ByTake == takes > 0 /\ Called
Answered == armed \/ PromptComes \/ ByTake

\* A trigger that waits is marked, or a continuation that has the mark runs.
TriggerMarked ==
  queue \cap Crons # {} /\ ~excused =>
    \/ pending
    \/ turn.kind = "continuation" /\ turn.at \in {"starting", "opening", "loop"}

\* And somebody will look at the mark.
TriggerCalled ==
  queue \cap Crons # {} /\ ~excused =>
    Called \/ Sent("mq") \/ PromptComes \/ (turn.kind # "none" /\ Current)

CancelledContinuation == turn.kind = "continuation" /\ turn.cancelled => excused

\* A cancelled turn has left the cancel armed, or what came of it.
CancelAnswered == turn.cancelled /\ ~excused /\ ~spent => Answered

\* A turn that ends by itself leaves no active agent.
EndsAlone ==
  turn.at \in {"looked", "ended", "settling"} /\ ~turn.cancelled /\ ~excused =>
    \A t \in Results : ~Active(t)

\* The result of an agent that still runs will meet its turn or an armed cancel.
ActiveAwaited ==
  (\E t \in Results : Active(t)) /\ ~excused /\ ~spent =>
    \/ Answered
    \/ Early /\ ~turn.cancelled /\ Current /\ (Admitting => takes > 0)

\* The turn that runs will receive what waits.
Receives == (Early \/ turn.at = "looked") /\ ~turn.cancelled /\ Current

\* What will take a result that waits while no turn receives it.
Asked ==
  \/ PromptComes \/ Called \/ Sent("mq")
  \/ pending /\ turn.at \in {"ended", "settling"}
  \/ armed /\ (Sent("agent") \/ \E t \in Results : task[t] = "routed")

ResultCalled == HasAgentResult /\ ~excused /\ ~spent => Asked \/ Receives

\* A prompt joins a turn that still receives.
JoinsLoop == turn' = turn /\ turn.at \in {"loop", "looked"} /\ ~turn.cancelled

\* The continuation that a cancel has asked for gets the lock.
Answers ==
  /\ turn'.kind = "continuation" /\ turn'.at = "admitting" /\ ~turn'.cancelled
  /\ turn'.epoch = epoch' /\ takes' > 0

\* A prompt gets the lock.
JoinsNew == turn'.kind = "prompt" /\ turn'.at = "admitting" /\ ~turn'.cancelled

-----------------------------------------------------------------------------
(* The fields of the turn                                                  *)

\* A step of the turn changes its place alone.
LEMMA GotoFields ==
  ASSUME turn \in Turns, NEW place \in Places, Goto(place)
  PROVE  /\ turn' \in Turns /\ turn'.at = place /\ turn'.kind = turn.kind
         /\ turn'.epoch = turn.epoch /\ turn'.cancelled = turn.cancelled
         /\ turn'.brings = turn.brings
BY DEF Goto, Turns

\* The cancel changes the flag alone.
LEMMA CancelFields ==
  ASSUME turn \in Turns, turn' = [turn EXCEPT !.cancelled = TRUE]
  PROVE  /\ turn' \in Turns /\ turn'.at = turn.at /\ turn'.kind = turn.kind
         /\ turn'.epoch = turn.epoch /\ turn'.cancelled
         /\ turn'.brings = turn.brings
BY DEF Turns

\* The fields of a turn that begins.
LEMMA NewFields ==
  ASSUME NEW k \in Kinds, NEW ps \in SUBSET Prompts, NEW e \in Epochs
  PROVE  LET new == NewTurn(k, ps, e)
         IN  /\ new \in Turns /\ new.at = "admitting" /\ new.kind = k
             /\ new.epoch = e /\ new.cancelled = FALSE /\ new.brings = ps
BY DEF NewTurn, Turns, Places

\* The epochs are numbers, from zero on.
LEMMA ZeroEpoch == 0 \in Epochs /\ Epochs \subseteq Nat
BY ContinuationAssumption, FS_CardinalityType DEF Epochs

\* The fields of the turn that is none.
LEMMA NoFields ==
  /\ NoTurn \in Turns /\ NoTurn.at = "none" /\ NoTurn.kind = "none"
  /\ NoTurn.cancelled = FALSE
BY ZeroEpoch DEF NoTurn, Turns, Places, Kinds

\* The lock goes to a prompt or to a continuation of the epoch it waited in.
LEMMA Acquired ==
  ASSUME Acquire
  PROVE  /\ turn' \in Turns /\ turn'.at = "admitting" /\ ~turn'.cancelled
         /\ \/ turn'.kind = "prompt"
            \/ /\ turn'.kind = "continuation"
               /\ turn'.epoch \in Epochs /\ LeaveWait(turn'.epoch)
<1>1. ASSUME NEW p \in Prompts, turn' = NewTurn("prompt", {p}, 0)
      PROVE  turn' \in Turns /\ turn'.at = "admitting" /\ ~turn'.cancelled
             /\ turn'.kind = "prompt"
  BY <1>1, ZeroEpoch DEF NewTurn, Turns, Places, Kinds
<1>2. ASSUME NEW e \in Epochs, turn' = NewTurn("continuation", {}, e)
      PROVE  turn' \in Turns /\ turn'.at = "admitting" /\ ~turn'.cancelled
             /\ turn'.kind = "continuation" /\ turn'.epoch = e
  BY <1>2 DEF NewTurn, Turns, Places, Kinds
<1> QED
  BY <1>1, <1>2 DEF Acquire

\* A request that is sent is in the channel, with all that was.
LEMMA AppendSent ==
  ASSUME NEW r \in Requests, chan \in Seq(Requests), chan' = Append(chan, r)
  PROVE  \A q : Sent(q)' <=> Sent(q) \/ q = r
BY DEF Sent

\* The scheduler takes one request from the channel.
LEMMA TailSent ==
  ASSUME chan \in Seq(Requests), chan # <<>>, chan' = Tail(chan)
  PROVE  \A q : Sent(q) => Sent(q)' \/ q = Head(chan)
<1> SUFFICES ASSUME NEW q, NEW n \in DOMAIN chan, chan[n] = q, q # Head(chan)
             PROVE  \E m \in DOMAIN Tail(chan) : Tail(chan)[m] = q
  BY DEF Sent
<1>1. n # 1 /\ n - 1 \in DOMAIN Tail(chan) /\ Tail(chan)[n - 1] = chan[n]
  OBVIOUS
<1> QED
  BY <1>1

\* Every step keeps the shape of the turn and the marks that follow it: a turn's end
\* clears what its beginning has set.
LEMMA TurnKept ==
  ASSUME turn \in Turns, TurnOK, MarksFollowTurn, [Next]_vars
  PROVE  TurnOK' /\ MarksFollowTurn'
<1> USE DEF TurnOK, MarksFollowTurn, At, TakeIfArmed
<1>1. ASSUME Admit PROVE TurnOK' /\ MarksFollowTurn'
  BY <1>1, GotoFields, NoFields DEF Admit, stateVars, workVars, boundVars, Places,
     At
<1>2. ASSUME Mark PROVE TurnOK' /\ MarksFollowTurn'
  <2>1. turn'.at = "starting" /\ turn'.kind = "continuation"
    BY <1>2, GotoFields DEF Mark, Places
  <2>2. TurnOK'
    BY <2>1, <1>2 DEF Mark
  <2>3. MarksFollowTurn'
    BY <2>1, <1>2 DEF Mark
  <2> QED
    BY <2>2, <2>3
<1>3. ASSUME Register PROVE TurnOK' /\ MarksFollowTurn'
  BY <1>3, GotoFields DEF Register, workVars, historyVars, boundVars, Places, At
<1>4. ASSUME Open PROVE TurnOK' /\ MarksFollowTurn'
  BY <1>4, GotoFields DEF Open, stateVars, historyVars, boundVars, Places, At
<1>5. ASSUME Drain PROVE TurnOK' /\ MarksFollowTurn'
  BY <1>5 DEF Drain, stateVars, boundVars
<1>6. ASSUME Suspend PROVE TurnOK' /\ MarksFollowTurn'
  BY <1>6 DEF Suspend, stateVars, workVars, historyVars, boundVars
<1>7. ASSUME Wake PROVE TurnOK' /\ MarksFollowTurn'
  BY <1>7 DEF Wake, stateVars, workVars, historyVars, boundVars
<1>8. ASSUME Complete PROVE TurnOK' /\ MarksFollowTurn'
  BY <1>8, GotoFields DEF Complete, stateVars, workVars, historyVars, boundVars,
     Places, At
<1>9. ASSUME Interrupt PROVE TurnOK' /\ MarksFollowTurn'
  BY <1>9, GotoFields DEF Interrupt, stateVars, workVars, historyVars, boundVars,
     Places, At
<1>10. ASSUME LookBehind PROVE TurnOK' /\ MarksFollowTurn'
  BY <1>10, GotoFields DEF LookBehind, stateVars, workVars, historyVars, boundVars,
     Places, At
<1>11. ASSUME Finish PROVE TurnOK' /\ MarksFollowTurn'
  <2>1. turn'.at = "settling" /\ turn'.kind = turn.kind
    BY <1>11, GotoFields DEF Finish, Places
  <2>2. TurnOK'
    BY <2>1, <1>11 DEF Finish
  <2>3. MarksFollowTurn'
    BY <2>1, <1>11 DEF Finish
  <2> QED
    BY <2>2, <2>3
<1>12. ASSUME Settle PROVE TurnOK' /\ MarksFollowTurn'
  <2>1. turn' = NoTurn /\ turn'.at = "none" /\ turn'.kind = "none"
    BY <1>12, NoFields DEF Settle, Places
  <2>2. TurnOK'
    BY <2>1, <1>12 DEF Settle
  <2>3. MarksFollowTurn'
    BY <2>1, <1>12 DEF Settle
  <2> QED
    BY <2>2, <2>3
<1>13. ASSUME Acquire PROVE TurnOK' /\ MarksFollowTurn'
  BY <1>13, Acquired, NoFields DEF Acquire, stateVars, workVars, historyVars,
     boundVars, Places
<1>14. ASSUME FailTurn PROVE TurnOK' /\ MarksFollowTurn'
  BY <1>14, GotoFields DEF FailTurn, stateVars, workVars, Fail, Places, At
<1>15. ASSUME FailStart PROVE TurnOK' /\ MarksFollowTurn'
  <2>1. turn'.at = "settling" /\ turn'.kind = turn.kind
    BY <1>15, GotoFields DEF FailStart, Places
  <2>2. TurnOK'
    BY <2>1, <1>15 DEF FailStart
  <2>3. MarksFollowTurn'
    BY <2>1, <1>15 DEF FailStart, stateVars, Fail
  <2> QED
    BY <2>2, <2>3
<1>16. ASSUME Schedule PROVE TurnOK' /\ MarksFollowTurn'
  BY <1>16 DEF Schedule, workVars, boundVars
<1>17. ASSUME Cancel PROVE TurnOK' /\ MarksFollowTurn'
  BY <1>17, CancelFields DEF Cancel, workVars, Places
<1>18. ASSUME NEW t \in Results, Spawn(t) PROVE TurnOK' /\ MarksFollowTurn'
  BY <1>18 DEF Spawn, stateVars, historyVars, boundVars
<1>19. ASSUME NEW t \in Results, Route(t) PROVE TurnOK' /\ MarksFollowTurn'
  BY <1>19 DEF Route, stateVars, historyVars, boundVars
<1>20. ASSUME NEW t \in Results, NotifyScheduler(t) PROVE TurnOK' /\ MarksFollowTurn'
  BY <1>20 DEF NotifyScheduler, stateVars, historyVars, boundVars
<1>21. ASSUME NEW c \in Crons, FireCron(c) PROVE TurnOK' /\ MarksFollowTurn'
  BY <1>21 DEF FireCron, historyVars, boundVars
<1>22. ASSUME NEW p \in Prompts, Submit(p) PROVE TurnOK' /\ MarksFollowTurn'
  BY <1>22 DEF Submit, workVars, historyVars, boundVars
<1>23. ASSUME NEW p \in Prompts, LookAtIdle(p) PROVE TurnOK' /\ MarksFollowTurn'
  BY <1>23 DEF LookAtIdle, stateVars, workVars, historyVars, boundVars
<1>24. ASSUME NEW p \in Prompts, Inject(p) PROVE TurnOK' /\ MarksFollowTurn'
  BY <1>24 DEF Inject, stateVars, boundVars
<1>25. ASSUME NEW p \in Prompts, Refuse(p) PROVE TurnOK' /\ MarksFollowTurn'
  BY <1>25 DEF Refuse, stateVars, workVars, Fail
<1>26. CASE UNCHANGED vars
  BY <1>26 DEF vars, Fail
<1> QED
  BY <1>1, <1>2, <1>3, <1>4, <1>5, <1>6, <1>7, <1>8, <1>9, <1>10, <1>11, <1>12,
     <1>13, <1>14, <1>15, <1>16, <1>17, <1>18, <1>19, <1>20, <1>21, <1>22, <1>23,
     <1>24, <1>25, <1>26 DEF Next, TurnStep, TaskStep, PromptStep

\* Every step keeps the types of what is not the turn, the channel, the epoch or the
\* waiting.
LEMMA TypesKept ==
  ASSUME TypeOK, TurnOK, [Next]_vars
  PROVE  /\ queue' \subseteq Messages
         /\ task' \in [Results -> {"none", "running", "routed", "done"}]
         /\ cron' \subseteq Crons
         /\ prompt' \in [Prompts -> {"new", "bumped", "injecting", "waiting", "done"}]
         /\ armed' \in BOOLEAN /\ pending' \in BOOLEAN /\ inFlight' \in BOOLEAN
         /\ token' \in BOOLEAN /\ idle' \in BOOLEAN
         /\ cancels' \in Nat /\ failures' \in Nat
         /\ arms' \in Nat /\ takes' \in Nat /\ spent' \in BOOLEAN /\ excused' \in BOOLEAN
<1> DEFINE G == /\ queue \subseteq Messages
         /\ task \in [Results -> {"none", "running", "routed", "done"}]
         /\ cron \subseteq Crons
         /\ prompt \in [Prompts -> {"new", "bumped", "injecting", "waiting", "done"}]
         /\ armed \in BOOLEAN /\ pending \in BOOLEAN /\ inFlight \in BOOLEAN
         /\ token \in BOOLEAN /\ idle \in BOOLEAN
         /\ cancels \in Nat /\ failures \in Nat
         /\ arms \in Nat /\ takes \in Nat /\ spent \in BOOLEAN /\ excused \in BOOLEAN
<1>0. G
  BY DEF TypeOK
<1>00. turn.brings \subseteq Prompts
  BY DEF TypeOK, Turns
<1> USE <1>0, <1>00 DEF Messages, TakeIfArmed, TakeSteering, CancelArms, AsksAtOnce, HasMessages
<1>1. ASSUME Admit PROVE G'
  BY <1>1 DEF Admit, stateVars, workVars, boundVars
<1>2. ASSUME Mark PROVE G'
  BY <1>2 DEF Mark, workVars, historyVars, boundVars
<1>3. ASSUME Register PROVE G'
  BY <1>3 DEF Register, workVars, historyVars, boundVars
<1>4. ASSUME Open PROVE G'
  BY <1>4 DEF Open, stateVars, historyVars, boundVars
<1>5. ASSUME Drain PROVE G'
  BY <1>5 DEF Drain, stateVars, boundVars
<1>6. ASSUME Suspend PROVE G'
  BY <1>6 DEF Suspend, stateVars, workVars, historyVars, boundVars
<1>7. ASSUME Wake PROVE G'
  BY <1>7 DEF Wake, stateVars, workVars, historyVars, boundVars
<1>8. ASSUME Complete PROVE G'
  BY <1>8 DEF Complete, stateVars, workVars, historyVars, boundVars
<1>9. ASSUME Interrupt PROVE G'
  BY <1>9 DEF Interrupt, stateVars, workVars, historyVars, boundVars
<1>10. ASSUME LookBehind PROVE G'
  BY <1>10 DEF LookBehind, stateVars, workVars, historyVars, boundVars
<1>11. ASSUME Finish PROVE G'
  BY <1>11 DEF Finish, workVars, historyVars, boundVars
<1>12. ASSUME Settle PROVE G'
  BY <1>12 DEF Settle, workVars, historyVars, boundVars
<1>13. ASSUME Acquire PROVE G'
  BY <1>13 DEF Acquire, stateVars, workVars, historyVars, boundVars
<1>14. ASSUME FailTurn PROVE G'
  BY <1>14 DEF FailTurn, stateVars, workVars, Fail
<1>15. ASSUME FailStart PROVE G'
  <2>1. /\ queue' = queue /\ task' = task /\ cron' = cron /\ prompt' = prompt
        /\ armed' = armed /\ pending' = pending /\ inFlight' = inFlight
        /\ token' = token /\ idle' = idle /\ cancels' = cancels /\ arms' = arms
        /\ takes' = takes /\ spent' = spent
    BY <1>15 DEF FailStart, stateVars, workVars
  <2>2. failures' = failures + 1 /\ excused' = TRUE
    BY <1>15 DEF FailStart, Fail
  <2>3. failures' \in Nat
    BY <2>2
  <2>4. excused' \in BOOLEAN
    BY <2>2
  <2> QED
    BY <2>1, <2>3, <2>4
<1>16. ASSUME Schedule PROVE G'
  <2>1. Head(chan) = "agent" \/ Head(chan) = "mq"
    BY <1>16 DEF Schedule
  <2>2. /\ queue' = queue /\ task' = task /\ cron' = cron /\ prompt' = prompt
        /\ inFlight' = inFlight /\ token' = token /\ idle' = idle
        /\ cancels' = cancels /\ failures' = failures /\ arms' = arms
        /\ spent' = spent /\ excused' = excused
    BY <1>16 DEF Schedule, workVars, boundVars
  <2>3. takes' \in Nat
    BY <2>1, <1>16 DEF Schedule
  <2>4. armed' \in BOOLEAN
    BY <2>1, <1>16 DEF Schedule
  <2>5. pending' \in BOOLEAN
    BY <2>1, <1>16 DEF Schedule
  <2> QED
    BY <2>2, <2>3, <2>4, <2>5
<1>17. ASSUME Cancel PROVE G'
  BY <1>17 DEF Cancel, workVars
<1>18. ASSUME NEW t \in Results, Spawn(t) PROVE G'
  BY <1>18 DEF Spawn, stateVars, historyVars, boundVars
<1>19. ASSUME NEW t \in Results, Route(t) PROVE G'
  BY <1>19 DEF Route, stateVars, historyVars, boundVars
<1>20. ASSUME NEW t \in Results, NotifyScheduler(t) PROVE G'
  BY <1>20 DEF NotifyScheduler, stateVars, historyVars, boundVars
<1>21. ASSUME NEW c \in Crons, FireCron(c) PROVE G'
  BY <1>21 DEF FireCron, historyVars, boundVars
<1>22. ASSUME NEW p \in Prompts, Submit(p) PROVE G'
  BY <1>22 DEF Submit, workVars, historyVars, boundVars
<1>23. ASSUME NEW p \in Prompts, LookAtIdle(p) PROVE G'
  BY <1>23 DEF LookAtIdle, stateVars, workVars, historyVars, boundVars
<1>24. ASSUME NEW p \in Prompts, Inject(p) PROVE G'
  BY <1>24 DEF Inject, stateVars, boundVars
<1>25. ASSUME NEW p \in Prompts, Refuse(p) PROVE G'
  BY <1>25 DEF Refuse, stateVars, workVars, Fail
<1>26. CASE UNCHANGED vars
  BY <1>26 DEF vars, Fail
<1> QED
  BY <1>1, <1>2, <1>3, <1>4, <1>5, <1>6, <1>7, <1>8, <1>9, <1>10, <1>11, <1>12,
     <1>13, <1>14, <1>15, <1>16, <1>17, <1>18, <1>19, <1>20, <1>21, <1>22, <1>23,
     <1>24, <1>25, <1>26 DEF Next, TurnStep, TaskStep, PromptStep

\* Every step keeps the type of the turn.
LEMMA TurnTyped ==
  ASSUME TypeOK, TurnOK, [Next]_vars
  PROVE  turn' \in Turns
<1> USE DEF TypeOK, TakeIfArmed
<1>1. ASSUME Admit PROVE turn' \in Turns
  BY <1>1, GotoFields, NoFields DEF Admit, stateVars, workVars, boundVars, Places,
     At
<1>2. ASSUME Mark PROVE turn' \in Turns
  BY <1>2, GotoFields DEF Mark, workVars, historyVars, boundVars, Places, At
<1>3. ASSUME Register PROVE turn' \in Turns
  BY <1>3, GotoFields DEF Register, workVars, historyVars, boundVars, Places, At
<1>4. ASSUME Open PROVE turn' \in Turns
  BY <1>4, GotoFields DEF Open, stateVars, historyVars, boundVars, Places, At
<1>5. ASSUME Drain PROVE turn' \in Turns
  BY <1>5 DEF Drain, stateVars, boundVars
<1>6. ASSUME Suspend PROVE turn' \in Turns
  BY <1>6 DEF Suspend, stateVars, workVars, historyVars, boundVars
<1>7. ASSUME Wake PROVE turn' \in Turns
  BY <1>7 DEF Wake, stateVars, workVars, historyVars, boundVars
<1>8. ASSUME Complete PROVE turn' \in Turns
  BY <1>8, GotoFields DEF Complete, stateVars, workVars, historyVars, boundVars,
     Places, At
<1>9. ASSUME Interrupt PROVE turn' \in Turns
  BY <1>9, GotoFields DEF Interrupt, stateVars, workVars, historyVars, boundVars,
     Places, At
<1>10. ASSUME LookBehind PROVE turn' \in Turns
  BY <1>10, GotoFields DEF LookBehind, stateVars, workVars, historyVars, boundVars,
     Places, At
<1>11. ASSUME Finish PROVE turn' \in Turns
  BY <1>11, GotoFields DEF Finish, workVars, historyVars, boundVars, Places, At
<1>12. ASSUME Settle PROVE turn' \in Turns
  BY <1>12, NoFields DEF Settle, workVars, historyVars, boundVars, Places, At
<1>13. ASSUME Acquire PROVE turn' \in Turns
  BY <1>13, Acquired, NoFields DEF Acquire, stateVars, workVars, historyVars,
     boundVars, Places
<1>14. ASSUME FailTurn PROVE turn' \in Turns
  BY <1>14, GotoFields DEF FailTurn, stateVars, workVars, Fail, Places, At
<1>15. ASSUME FailStart PROVE turn' \in Turns
  BY <1>15, GotoFields DEF FailStart, workVars, Fail, Places, At
<1>16. ASSUME Schedule PROVE turn' \in Turns
  BY <1>16 DEF Schedule, workVars, boundVars
<1>17. ASSUME Cancel PROVE turn' \in Turns
  BY <1>17, CancelFields DEF Cancel, workVars, Places
<1>18. ASSUME NEW t \in Results, Spawn(t) PROVE turn' \in Turns
  BY <1>18 DEF Spawn, stateVars, historyVars, boundVars
<1>19. ASSUME NEW t \in Results, Route(t) PROVE turn' \in Turns
  BY <1>19 DEF Route, stateVars, historyVars, boundVars
<1>20. ASSUME NEW t \in Results, NotifyScheduler(t) PROVE turn' \in Turns
  BY <1>20 DEF NotifyScheduler, stateVars, historyVars, boundVars
<1>21. ASSUME NEW c \in Crons, FireCron(c) PROVE turn' \in Turns
  BY <1>21 DEF FireCron, historyVars, boundVars
<1>22. ASSUME NEW p \in Prompts, Submit(p) PROVE turn' \in Turns
  BY <1>22 DEF Submit, workVars, historyVars, boundVars
<1>23. ASSUME NEW p \in Prompts, LookAtIdle(p) PROVE turn' \in Turns
  BY <1>23 DEF LookAtIdle, stateVars, workVars, historyVars, boundVars
<1>24. ASSUME NEW p \in Prompts, Inject(p) PROVE turn' \in Turns
  BY <1>24 DEF Inject, stateVars, boundVars
<1>25. ASSUME NEW p \in Prompts, Refuse(p) PROVE turn' \in Turns
  BY <1>25 DEF Refuse, stateVars, workVars, Fail
<1>26. CASE UNCHANGED vars
  BY <1>26 DEF vars, Fail
<1> QED
  BY <1>1, <1>2, <1>3, <1>4, <1>5, <1>6, <1>7, <1>8, <1>9, <1>10, <1>11, <1>12,
     <1>13, <1>14, <1>15, <1>16, <1>17, <1>18, <1>19, <1>20, <1>21, <1>22, <1>23,
     <1>24, <1>25, <1>26 DEF Next, TurnStep, TaskStep, PromptStep

\* Every step keeps the type of the channel.
LEMMA ChanTyped ==
  ASSUME chan \in Seq(Requests), [Next]_vars
  PROVE  chan' \in Seq(Requests)
<1> USE DEF TakeIfArmed
<1>1. ASSUME Admit PROVE chan' \in Seq(Requests)
  BY <1>1 DEF Admit, stateVars, workVars, boundVars
<1>2. ASSUME Mark PROVE chan' \in Seq(Requests)
  BY <1>2 DEF Mark, workVars, historyVars, boundVars
<1>3. ASSUME Register PROVE chan' \in Seq(Requests)
  BY <1>3 DEF Register, workVars, historyVars, boundVars
<1>4. ASSUME Open PROVE chan' \in Seq(Requests)
  BY <1>4 DEF Open, stateVars, historyVars, boundVars
<1>5. ASSUME Drain PROVE chan' \in Seq(Requests)
  BY <1>5 DEF Drain, stateVars, boundVars
<1>6. ASSUME Suspend PROVE chan' \in Seq(Requests)
  BY <1>6 DEF Suspend, stateVars, workVars, historyVars, boundVars
<1>7. ASSUME Wake PROVE chan' \in Seq(Requests)
  BY <1>7 DEF Wake, stateVars, workVars, historyVars, boundVars
<1>8. ASSUME Complete PROVE chan' \in Seq(Requests)
  BY <1>8 DEF Complete, stateVars, workVars, historyVars, boundVars
<1>9. ASSUME Interrupt PROVE chan' \in Seq(Requests)
  BY <1>9 DEF Interrupt, stateVars, workVars, historyVars, boundVars
<1>10. ASSUME LookBehind PROVE chan' \in Seq(Requests)
  <2>1. chan' = chan \/ \E r \in Requests : chan' = Append(chan, r)
    BY <1>10 DEF LookBehind, Requests
  <2> QED
    BY <2>1
<1>11. ASSUME Finish PROVE chan' \in Seq(Requests)
  BY <1>11 DEF Finish, workVars, historyVars, boundVars
<1>12. ASSUME Settle PROVE chan' \in Seq(Requests)
  <2>1. chan' = chan \/ \E r \in Requests : chan' = Append(chan, r)
    BY <1>12 DEF Settle, Requests
  <2> QED
    BY <2>1
<1>13. ASSUME Acquire PROVE chan' \in Seq(Requests)
  BY <1>13 DEF Acquire, stateVars, workVars, historyVars, boundVars
<1>14. ASSUME FailTurn PROVE chan' \in Seq(Requests)
  BY <1>14 DEF FailTurn, stateVars, workVars, Fail
<1>15. ASSUME FailStart PROVE chan' \in Seq(Requests)
  BY <1>15 DEF FailStart, workVars, Fail
<1>16. ASSUME Schedule PROVE chan' \in Seq(Requests)
  BY <1>16 DEF Schedule
<1>17. ASSUME Cancel PROVE chan' \in Seq(Requests)
  <2>1. chan' = chan \/ \E r \in Requests : chan' = Append(chan, r)
    BY <1>17 DEF Cancel, Requests
  <2> QED
    BY <2>1
<1>18. ASSUME NEW t \in Results, Spawn(t) PROVE chan' \in Seq(Requests)
  BY <1>18 DEF Spawn, stateVars, historyVars, boundVars
<1>19. ASSUME NEW t \in Results, Route(t) PROVE chan' \in Seq(Requests)
  BY <1>19 DEF Route, stateVars, historyVars, boundVars
<1>20. ASSUME NEW t \in Results, NotifyScheduler(t) PROVE chan' \in Seq(Requests)
  <2>1. chan' = chan \/ \E r \in Requests : chan' = Append(chan, r)
    BY <1>20 DEF NotifyScheduler, Requests
  <2> QED
    BY <2>1
<1>21. ASSUME NEW c \in Crons, FireCron(c) PROVE chan' \in Seq(Requests)
  BY <1>21 DEF FireCron, historyVars, boundVars
<1>22. ASSUME NEW p \in Prompts, Submit(p) PROVE chan' \in Seq(Requests)
  BY <1>22 DEF Submit, workVars, historyVars, boundVars
<1>23. ASSUME NEW p \in Prompts, LookAtIdle(p) PROVE chan' \in Seq(Requests)
  BY <1>23 DEF LookAtIdle, stateVars, workVars, historyVars, boundVars
<1>24. ASSUME NEW p \in Prompts, Inject(p) PROVE chan' \in Seq(Requests)
  BY <1>24 DEF Inject, stateVars, boundVars
<1>25. ASSUME NEW p \in Prompts, Refuse(p) PROVE chan' \in Seq(Requests)
  BY <1>25 DEF Refuse, stateVars, workVars, Fail
<1>26. CASE UNCHANGED vars
  BY <1>26 DEF vars, Fail
<1> QED
  BY <1>1, <1>2, <1>3, <1>4, <1>5, <1>6, <1>7, <1>8, <1>9, <1>10, <1>11, <1>12,
     <1>13, <1>14, <1>15, <1>16, <1>17, <1>18, <1>19, <1>20, <1>21, <1>22, <1>23,
     <1>24, <1>25, <1>26 DEF Next, TurnStep, TaskStep, PromptStep

\* The epoch stays within the number of prompts, since each prompt raises it once.
LEMMA EpochTyped ==
  ASSUME TypeOK, EpochCounts, [Next]_vars
  PROVE  epoch' \in Epochs /\ EpochCounts'
<1> DEFINE Bumped == {q \in Prompts : prompt[q] # "new"}
<1>0. IsFiniteSet(Bumped) /\ epoch = Cardinality(Bumped) /\ epoch \in Epochs
      /\ prompt \in [Prompts -> {"new", "bumped", "injecting", "waiting", "done"}]
  BY ContinuationAssumption, FS_Subset DEF EpochCounts, TypeOK
<1> SUFFICES epoch' \in Epochs /\ epoch' = Cardinality(Bumped')
  BY DEF EpochCounts
<1>a. ASSUME epoch' = epoch, Bumped' = Bumped
      PROVE  epoch' \in Epochs /\ epoch' = Cardinality(Bumped')
  BY <1>0, <1>a
<1> HIDE DEF Bumped
<1>1. ASSUME Admit PROVE epoch' \in Epochs /\ epoch' = Cardinality(Bumped')
  <2>1. epoch' = epoch /\ Bumped' = Bumped
    BY <1>1, <1>0 DEF Bumped, Admit, stateVars, workVars, boundVars, NewTurn,
       NoTurn, At
  <2> QED
    BY <2>1, <1>a
<1>2. ASSUME Mark PROVE epoch' \in Epochs /\ epoch' = Cardinality(Bumped')
  <2>1. epoch' = epoch /\ Bumped' = Bumped
    BY <1>2, <1>0 DEF Bumped, Mark, workVars, historyVars, boundVars, NewTurn,
       NoTurn, At
  <2> QED
    BY <2>1, <1>a
<1>3. ASSUME Register PROVE epoch' \in Epochs /\ epoch' = Cardinality(Bumped')
  <2>1. epoch' = epoch /\ Bumped' = Bumped
    BY <1>3, <1>0 DEF Bumped, Register, workVars, historyVars, boundVars, NewTurn,
       NoTurn, At
  <2> QED
    BY <2>1, <1>a
<1>4. ASSUME Open PROVE epoch' \in Epochs /\ epoch' = Cardinality(Bumped')
  <2>1. epoch' = epoch /\ Bumped' = Bumped
    BY <1>4, <1>0 DEF Bumped, Open, stateVars, historyVars, boundVars, NewTurn,
       NoTurn, At
  <2> QED
    BY <2>1, <1>a
<1>5. ASSUME Drain PROVE epoch' \in Epochs /\ epoch' = Cardinality(Bumped')
  <2>1. epoch' = epoch /\ Bumped' = Bumped
    BY <1>5, <1>0 DEF Bumped, Drain, stateVars, boundVars, NewTurn, NoTurn, At
  <2> QED
    BY <2>1, <1>a
<1>6. ASSUME Suspend PROVE epoch' \in Epochs /\ epoch' = Cardinality(Bumped')
  <2>1. epoch' = epoch /\ Bumped' = Bumped
    BY <1>6, <1>0 DEF Bumped, Suspend, stateVars, workVars, historyVars, boundVars,
       NewTurn, NoTurn, At
  <2> QED
    BY <2>1, <1>a
<1>7. ASSUME Wake PROVE epoch' \in Epochs /\ epoch' = Cardinality(Bumped')
  <2>1. epoch' = epoch /\ Bumped' = Bumped
    BY <1>7, <1>0 DEF Bumped, Wake, stateVars, workVars, historyVars, boundVars,
       NewTurn, NoTurn
  <2> QED
    BY <2>1, <1>a
<1>8. ASSUME Complete PROVE epoch' \in Epochs /\ epoch' = Cardinality(Bumped')
  <2>1. epoch' = epoch /\ Bumped' = Bumped
    BY <1>8, <1>0 DEF Bumped, Complete, stateVars, workVars, historyVars, boundVars,
       NewTurn, NoTurn, At
  <2> QED
    BY <2>1, <1>a
<1>9. ASSUME Interrupt PROVE epoch' \in Epochs /\ epoch' = Cardinality(Bumped')
  <2>1. epoch' = epoch /\ Bumped' = Bumped
    BY <1>9, <1>0 DEF Bumped, Interrupt, stateVars, workVars, historyVars,
       boundVars, NewTurn, NoTurn, At
  <2> QED
    BY <2>1, <1>a
<1>10. ASSUME LookBehind PROVE epoch' \in Epochs /\ epoch' = Cardinality(Bumped')
  <2>1. epoch' = epoch /\ Bumped' = Bumped
    BY <1>10, <1>0 DEF Bumped, LookBehind, stateVars, workVars, historyVars,
       boundVars, NewTurn, NoTurn, At
  <2> QED
    BY <2>1, <1>a
<1>11. ASSUME Finish PROVE epoch' \in Epochs /\ epoch' = Cardinality(Bumped')
  <2>1. epoch' = epoch /\ Bumped' = Bumped
    BY <1>11, <1>0 DEF Bumped, Finish, workVars, historyVars, boundVars, NewTurn,
       NoTurn, At
  <2> QED
    BY <2>1, <1>a
<1>12. ASSUME Settle PROVE epoch' \in Epochs /\ epoch' = Cardinality(Bumped')
  <2>1. epoch' = epoch /\ Bumped' = Bumped
    BY <1>12, <1>0 DEF Bumped, Settle, workVars, historyVars, boundVars, NewTurn,
       NoTurn, At
  <2> QED
    BY <2>1, <1>a
<1>13. ASSUME Acquire PROVE epoch' \in Epochs /\ epoch' = Cardinality(Bumped')
  <2>1. epoch' = epoch /\ Bumped' = Bumped
    BY <1>13, <1>0 DEF Bumped, Acquire, stateVars, workVars, historyVars, boundVars,
       NewTurn, NoTurn
  <2> QED
    BY <2>1, <1>a
<1>14. ASSUME FailTurn PROVE epoch' \in Epochs /\ epoch' = Cardinality(Bumped')
  <2>1. epoch' = epoch /\ Bumped' = Bumped
    BY <1>14, <1>0 DEF Bumped, FailTurn, stateVars, workVars, Fail, NewTurn, NoTurn,
       At
  <2> QED
    BY <2>1, <1>a
<1>15. ASSUME FailStart PROVE epoch' \in Epochs /\ epoch' = Cardinality(Bumped')
  <2>1. epoch' = epoch /\ Bumped' = Bumped
    BY <1>15, <1>0 DEF Bumped, FailStart, stateVars, workVars, Fail, NewTurn,
       NoTurn, At
  <2> QED
    BY <2>1, <1>a
<1>16. ASSUME Schedule PROVE epoch' \in Epochs /\ epoch' = Cardinality(Bumped')
  <2>1. epoch' = epoch /\ Bumped' = Bumped
    BY <1>16, <1>0 DEF Bumped, Schedule, workVars, boundVars, TakeIfArmed, NewTurn,
       NoTurn
  <2> QED
    BY <2>1, <1>a
<1>17. ASSUME Cancel PROVE epoch' \in Epochs /\ epoch' = Cardinality(Bumped')
  <2>1. epoch' = epoch /\ Bumped' = Bumped
    BY <1>17, <1>0 DEF Bumped, Cancel, workVars, NewTurn, NoTurn
  <2> QED
    BY <2>1, <1>a
<1>18. ASSUME NEW t \in Results, Spawn(t)
       PROVE epoch' \in Epochs /\ epoch' = Cardinality(Bumped')
  <2>1. epoch' = epoch /\ Bumped' = Bumped
    BY <1>18, <1>0 DEF Bumped, Spawn, stateVars, historyVars, boundVars, NewTurn,
       NoTurn, At
  <2> QED
    BY <2>1, <1>a
<1>19. ASSUME NEW t \in Results, Route(t)
       PROVE epoch' \in Epochs /\ epoch' = Cardinality(Bumped')
  <2>1. epoch' = epoch /\ Bumped' = Bumped
    BY <1>19, <1>0 DEF Bumped, Route, stateVars, historyVars, boundVars, NewTurn,
       NoTurn
  <2> QED
    BY <2>1, <1>a
<1>20. ASSUME NEW t \in Results, NotifyScheduler(t)
       PROVE epoch' \in Epochs /\ epoch' = Cardinality(Bumped')
  <2>1. epoch' = epoch /\ Bumped' = Bumped
    BY <1>20, <1>0 DEF Bumped, NotifyScheduler, stateVars, historyVars, boundVars,
       NewTurn, NoTurn
  <2> QED
    BY <2>1, <1>a
<1>21. ASSUME NEW c \in Crons, FireCron(c)
       PROVE epoch' \in Epochs /\ epoch' = Cardinality(Bumped')
  <2>1. epoch' = epoch /\ Bumped' = Bumped
    BY <1>21, <1>0 DEF Bumped, FireCron, historyVars, boundVars, NewTurn, NoTurn
  <2> QED
    BY <2>1, <1>a
<1>22. ASSUME NEW p \in Prompts, Submit(p)
       PROVE epoch' \in Epochs /\ epoch' = Cardinality(Bumped')
  <2>1. epoch' = epoch + 1 /\ Bumped' = Bumped \cup {p} /\ p \notin Bumped
    BY <1>22, <1>0 DEF Submit, Bumped
  <2>2. Cardinality(Bumped') = Cardinality(Bumped) + 1
    BY <2>1, <1>0, FS_AddElement
  <2>3. Bumped' \subseteq Prompts
    BY <2>1 DEF Bumped
  <2>4. Cardinality(Bumped') <= Cardinality(Prompts)
    BY <2>3, ContinuationAssumption, FS_Subset
  <2>5. Cardinality(Prompts) \in Nat /\ epoch \in Nat
    BY ContinuationAssumption, FS_CardinalityType, <1>0 DEF Epochs
  <2> QED
    BY <1>0, <2>1, <2>2, <2>4, <2>5 DEF Epochs
<1>23. ASSUME NEW p \in Prompts, LookAtIdle(p)
       PROVE epoch' \in Epochs /\ epoch' = Cardinality(Bumped')
  <2>1. epoch' = epoch /\ Bumped' = Bumped
    BY <1>23, <1>0 DEF Bumped, LookAtIdle, stateVars, workVars, historyVars,
       boundVars, NewTurn, NoTurn
  <2> QED
    BY <2>1, <1>a
<1>24. ASSUME NEW p \in Prompts, Inject(p)
       PROVE epoch' \in Epochs /\ epoch' = Cardinality(Bumped')
  <2>1. epoch' = epoch /\ Bumped' = Bumped
    BY <1>24, <1>0 DEF Bumped, Inject, stateVars, boundVars, NewTurn, NoTurn, At
  <2> QED
    BY <2>1, <1>a
<1>25. ASSUME NEW p \in Prompts, Refuse(p)
       PROVE epoch' \in Epochs /\ epoch' = Cardinality(Bumped')
  <2>1. epoch' = epoch /\ Bumped' = Bumped
    BY <1>25, <1>0 DEF Bumped, Refuse, stateVars, workVars, Fail, NewTurn, NoTurn
  <2> QED
    BY <2>1, <1>a
<1>26. CASE UNCHANGED vars
  BY <1>26, <1>a DEF vars, Bumped
<1> QED
  BY <1>1, <1>2, <1>3, <1>4, <1>5, <1>6, <1>7, <1>8, <1>9, <1>10, <1>11, <1>12,
     <1>13, <1>14, <1>15, <1>16, <1>17, <1>18, <1>19, <1>20, <1>21, <1>22, <1>23,
     <1>24, <1>25, <1>26 DEF Next, TurnStep, TaskStep, PromptStep

\* A continuation that is asked for waits, with all that waited.
LEMMA Awaited ==
  ASSUME waiting \in [Epochs -> Nat], NEW e \in Epochs, AwaitLock(e)
  PROVE  /\ waiting' \in [Epochs -> Nat] /\ waiting'[e] > 0
         /\ \A f \in Epochs : waiting[f] > 0 => waiting'[f] > 0
BY DEF AwaitLock

\* A count that is not zero can lose one.
LEMMA OneLess ==
  ASSUME NEW S, NEW f \in [S -> Nat], NEW e \in S, f[e] > 0
  PROVE  [f EXCEPT ![e] = @ - 1] \in [S -> Nat]
<1> DEFINE n == f[e] - 1
<1>1. n \in Nat
  OBVIOUS
<1> HIDE DEF n
<1>2. [f EXCEPT ![e] = n] \in [S -> Nat]
  BY <1>1
<1> QED
  BY <1>2 DEF n

\* Every step keeps the counts of what waits for the lock.
LEMMA WaitingTyped ==
  ASSUME TypeOK, [Next]_vars
  PROVE  waiting' \in [Epochs -> Nat]
<1>0. waiting \in [Epochs -> Nat] /\ epoch \in Epochs
  BY DEF TypeOK
<1> USE <1>0
<1>1. ASSUME Admit PROVE waiting' \in [Epochs -> Nat]
  BY <1>1 DEF Admit, stateVars, workVars, boundVars
<1>2. ASSUME Mark PROVE waiting' \in [Epochs -> Nat]
  BY <1>2 DEF Mark, workVars, historyVars, boundVars
<1>3. ASSUME Register PROVE waiting' \in [Epochs -> Nat]
  BY <1>3 DEF Register, workVars, historyVars, boundVars
<1>4. ASSUME Open PROVE waiting' \in [Epochs -> Nat]
  BY <1>4 DEF Open, stateVars, historyVars, boundVars
<1>5. ASSUME Drain PROVE waiting' \in [Epochs -> Nat]
  BY <1>5 DEF Drain, stateVars, boundVars
<1>6. ASSUME Suspend PROVE waiting' \in [Epochs -> Nat]
  BY <1>6 DEF Suspend, stateVars, workVars, historyVars, boundVars
<1>7. ASSUME Wake PROVE waiting' \in [Epochs -> Nat]
  BY <1>7 DEF Wake, stateVars, workVars, historyVars, boundVars
<1>8. ASSUME Complete PROVE waiting' \in [Epochs -> Nat]
  BY <1>8 DEF Complete, stateVars, workVars, historyVars, boundVars
<1>9. ASSUME Interrupt PROVE waiting' \in [Epochs -> Nat]
  BY <1>9 DEF Interrupt, stateVars, workVars, historyVars, boundVars
<1>10. ASSUME LookBehind PROVE waiting' \in [Epochs -> Nat]
  BY <1>10 DEF LookBehind, stateVars, workVars, historyVars, boundVars
<1>11. ASSUME Finish PROVE waiting' \in [Epochs -> Nat]
  BY <1>11 DEF Finish, workVars, historyVars, boundVars
<1>12. ASSUME Settle PROVE waiting' \in [Epochs -> Nat]
  BY <1>12 DEF Settle, workVars, historyVars, boundVars
<1>13. ASSUME Acquire PROVE waiting' \in [Epochs -> Nat]
  <2>1. ASSUME NEW e \in Epochs, LeaveWait(e) PROVE waiting' \in [Epochs -> Nat]
    BY <2>1, OneLess DEF LeaveWait
  <2> QED
    BY <1>13, <2>1 DEF Acquire
<1>14. ASSUME FailTurn PROVE waiting' \in [Epochs -> Nat]
  BY <1>14 DEF FailTurn, stateVars, workVars
<1>15. ASSUME FailStart PROVE waiting' \in [Epochs -> Nat]
  BY <1>15 DEF FailStart, workVars
<1>16. ASSUME Schedule PROVE waiting' \in [Epochs -> Nat]
  BY <1>16, Awaited DEF Schedule, TakeIfArmed, TakeSteering
<1>17. ASSUME Cancel PROVE waiting' \in [Epochs -> Nat]
  BY <1>17 DEF Cancel, workVars
<1>18. ASSUME NEW t \in Results, Spawn(t) PROVE waiting' \in [Epochs -> Nat]
  BY <1>18 DEF Spawn, stateVars, historyVars, boundVars
<1>19. ASSUME NEW t \in Results, Route(t) PROVE waiting' \in [Epochs -> Nat]
  BY <1>19 DEF Route, stateVars, historyVars, boundVars
<1>20. ASSUME NEW t \in Results, NotifyScheduler(t)
       PROVE waiting' \in [Epochs -> Nat]
  BY <1>20 DEF NotifyScheduler, stateVars, historyVars, boundVars
<1>21. ASSUME NEW c \in Crons, FireCron(c) PROVE waiting' \in [Epochs -> Nat]
  BY <1>21, Awaited DEF FireCron
<1>22. ASSUME NEW p \in Prompts, Submit(p) PROVE waiting' \in [Epochs -> Nat]
  BY <1>22 DEF Submit, workVars, historyVars, boundVars
<1>23. ASSUME NEW p \in Prompts, LookAtIdle(p) PROVE waiting' \in [Epochs -> Nat]
  BY <1>23 DEF LookAtIdle, stateVars, workVars, historyVars, boundVars
<1>24. ASSUME NEW p \in Prompts, Inject(p) PROVE waiting' \in [Epochs -> Nat]
  BY <1>24 DEF Inject, stateVars, boundVars
<1>25. ASSUME NEW p \in Prompts, Refuse(p) PROVE waiting' \in [Epochs -> Nat]
  BY <1>25 DEF Refuse, stateVars, workVars
<1>26. CASE UNCHANGED vars
  BY <1>26 DEF vars
<1> QED
  BY <1>1, <1>2, <1>3, <1>4, <1>5, <1>6, <1>7, <1>8, <1>9, <1>10, <1>11, <1>12,
     <1>13, <1>14, <1>15, <1>16, <1>17, <1>18, <1>19, <1>20, <1>21, <1>22, <1>23,
     <1>24, <1>25, <1>26 DEF Next, TurnStep, TaskStep, PromptStep

\* The types, the shape of the turn and the count of the epoch together are inductive.
LEMMA TypeStep ==
  ASSUME TypeOK, TurnOK, EpochCounts, [Next]_vars
  PROVE  TypeOK' /\ TurnOK' /\ EpochCounts'
<1>1. turn' \in Turns
  BY TurnTyped
<1>2. TurnOK' /\ MarksFollowTurn'
  BY TurnKept DEF TypeOK
<1>3. chan' \in Seq(Requests)
  BY ChanTyped DEF TypeOK
<1>4. epoch' \in Epochs /\ EpochCounts'
  BY EpochTyped
<1>5. waiting' \in [Epochs -> Nat]
  BY WaitingTyped
<1> QED
  BY <1>1, <1>2, <1>3, <1>4, <1>5, TypesKept DEF TypeOK

\* They hold in the beginning.
LEMMA TypeInit ==
  ASSUME Init
  PROVE  TypeOK /\ TurnOK /\ EpochCounts
<1>1. turn \in Turns /\ TurnOK /\ MarksFollowTurn
  <2>1. CASE turn = NoTurn
    BY <2>1, NoFields DEF Init, TurnOK, MarksFollowTurn
  <2>2. CASE turn = NewTurn("input", {}, 0)
    BY <2>2, NewFields, ZeroEpoch DEF Init, TurnOK, MarksFollowTurn, Kinds
  <2> QED
    BY <2>1, <2>2 DEF Init
<1>2. EpochCounts
  <2>1. {p \in Prompts : prompt[p] # "new"} = {}
    BY DEF Init
  <2> QED
    BY <2>1, FS_EmptySet DEF Init, EpochCounts
<1>3. waiting \in [Epochs -> Nat] /\ epoch \in Epochs /\ chan \in Seq(Requests)
  BY ZeroEpoch DEF Init
<1> QED
  BY <1>1, <1>2, <1>3 DEF Init, TypeOK, Messages

\* An armed cancel was counted, and the cancel of a continuation arms nothing.
LEMMA ArmedOnceStep ==
  ASSUME TypeOK, ArmedOnce, [Next]_vars
  PROVE  ArmedOnce'
<1>0. takes \in Nat /\ arms \in Nat
  BY DEF TypeOK
<1> USE <1>0 DEF ArmedOnce
<1>1. ASSUME Admit PROVE ArmedOnce'
  BY <1>1 DEF Admit, stateVars, workVars, boundVars
<1>2. ASSUME Mark PROVE ArmedOnce'
  BY <1>2 DEF Mark, workVars, historyVars, boundVars
<1>3. ASSUME Register PROVE ArmedOnce'
  BY <1>3 DEF Register, workVars, historyVars, boundVars
<1>4. ASSUME Open PROVE ArmedOnce'
  BY <1>4 DEF Open, stateVars, historyVars, boundVars
<1>5. ASSUME Drain PROVE ArmedOnce'
  BY <1>5 DEF Drain, stateVars, boundVars
<1>6. ASSUME Suspend PROVE ArmedOnce'
  BY <1>6 DEF Suspend, stateVars, workVars, historyVars, boundVars
<1>7. ASSUME Wake PROVE ArmedOnce'
  BY <1>7 DEF Wake, stateVars, workVars, historyVars, boundVars
<1>8. ASSUME Complete PROVE ArmedOnce'
  BY <1>8 DEF Complete, stateVars, workVars, historyVars, boundVars
<1>9. ASSUME Interrupt PROVE ArmedOnce'
  BY <1>9 DEF Interrupt, stateVars, workVars, historyVars, boundVars
<1>10. ASSUME LookBehind PROVE ArmedOnce'
  BY <1>10 DEF LookBehind, stateVars, workVars, historyVars, boundVars
<1>11. ASSUME Finish PROVE ArmedOnce'
  BY <1>11 DEF Finish, workVars, historyVars, boundVars
<1>12. ASSUME Settle PROVE ArmedOnce'
  BY <1>12 DEF Settle, workVars, historyVars, boundVars
<1>13. ASSUME Acquire PROVE ArmedOnce'
  BY <1>13 DEF Acquire, stateVars, workVars, historyVars, boundVars
<1>14. ASSUME FailTurn PROVE ArmedOnce'
  BY <1>14 DEF FailTurn, stateVars, workVars, Fail
<1>15. ASSUME FailStart PROVE ArmedOnce'
  BY <1>15 DEF FailStart, stateVars, workVars, Fail
<1>16. ASSUME Schedule PROVE ArmedOnce'
  BY <1>16 DEF Schedule, TakeIfArmed
<1>17. ASSUME Cancel PROVE ArmedOnce'
  <2>1. CASE turn.kind = "continuation"
    <3>1. inFlight
      BY <2>1, <1>17 DEF Cancel, TypeOK, MarksFollowTurn, At
    <3> QED
      BY <2>1, <3>1, <1>17 DEF Cancel, CancelArms
  <2>2. CASE turn.kind # "continuation"
    BY <2>2, <1>17 DEF Cancel
  <2> QED
    BY <2>1, <2>2
<1>18. ASSUME NEW t \in Results, Spawn(t) PROVE ArmedOnce'
  BY <1>18 DEF Spawn, stateVars, historyVars, boundVars
<1>19. ASSUME NEW t \in Results, Route(t) PROVE ArmedOnce'
  BY <1>19 DEF Route, stateVars, historyVars, boundVars
<1>20. ASSUME NEW t \in Results, NotifyScheduler(t) PROVE ArmedOnce'
  BY <1>20 DEF NotifyScheduler, stateVars, historyVars, boundVars
<1>21. ASSUME NEW c \in Crons, FireCron(c) PROVE ArmedOnce'
  BY <1>21 DEF FireCron, historyVars, boundVars
<1>22. ASSUME NEW p \in Prompts, Submit(p) PROVE ArmedOnce'
  BY <1>22 DEF Submit, workVars, historyVars, boundVars
<1>23. ASSUME NEW p \in Prompts, LookAtIdle(p) PROVE ArmedOnce'
  BY <1>23 DEF LookAtIdle, stateVars, workVars, historyVars, boundVars
<1>24. ASSUME NEW p \in Prompts, Inject(p) PROVE ArmedOnce'
  BY <1>24 DEF Inject, stateVars, boundVars
<1>25. ASSUME NEW p \in Prompts, Refuse(p) PROVE ArmedOnce'
  BY <1>25 DEF Refuse, stateVars, workVars, Fail
<1>26. CASE UNCHANGED vars
  BY <1>26 DEF vars, Fail
<1> QED
  BY <1>1, <1>2, <1>3, <1>4, <1>5, <1>6, <1>7, <1>8, <1>9, <1>10, <1>11, <1>12,
     <1>13, <1>14, <1>15, <1>16, <1>17, <1>18, <1>19, <1>20, <1>21, <1>22, <1>23,
     <1>24, <1>25, <1>26 DEF Next, TurnStep, TaskStep, PromptStep

\* Between the check of a continuation and its first Receive nothing leaves the queue.
LEMMA NoEmptyRunStep ==
  ASSUME TypeOK, TurnOK, NoEmptyRun, [Next]_vars
  PROVE  NoEmptyRun'
<1>0. turn \in Turns /\ MarksFollowTurn
  BY DEF TypeOK
<1> USE <1>0 DEF NoEmptyRun
<1>1. ASSUME Admit PROVE NoEmptyRun'
  <2>1. CASE turn' = NoTurn
    BY <2>1, NoFields
  <2>2. CASE turn.kind # "continuation" /\ Goto("starting")
    BY <2>2, GotoFields DEF Places
  <2>3. CASE Dispatchable(turn.epoch) /\ Goto("marking")
    <3>1. queue' = queue /\ queue # {}
      BY <2>3, <1>1 DEF Dispatchable, HasMessages, HasAgentResult, Admit, workVars
    <3> QED
      BY <3>1
  <2> QED
    BY <1>1, <2>1, <2>2, <2>3 DEF Admit
<1>2. ASSUME Mark PROVE NoEmptyRun'
  BY <1>2, GotoFields DEF Mark, workVars, historyVars, boundVars, TurnOK, Places, At
<1>3. ASSUME Register PROVE NoEmptyRun'
  <2>1. turn.at = "starting" /\ turn'.kind = turn.kind /\ queue' = queue
    BY <1>3, GotoFields DEF Register, Places, At, workVars
  <2> QED
    BY <2>1
<1>4. ASSUME Open PROVE NoEmptyRun'
  BY <1>4, GotoFields DEF Open, stateVars, historyVars, boundVars, TurnOK, Places,
     At
<1>5. ASSUME Drain PROVE NoEmptyRun'
  <2>1. turn' = turn /\ turn.at = "loop"
    BY <1>5 DEF Drain, At
  <2> QED
    BY <2>1
<1>6. ASSUME Suspend PROVE NoEmptyRun'
  BY <1>6 DEF Suspend, stateVars, workVars, historyVars, boundVars, TurnOK
<1>7. ASSUME Wake PROVE NoEmptyRun'
  BY <1>7 DEF Wake, stateVars, workVars, historyVars, boundVars, TurnOK
<1>8. ASSUME Complete PROVE NoEmptyRun'
  BY <1>8, GotoFields DEF Complete, stateVars, workVars, historyVars, boundVars,
     TurnOK, Places, At
<1>9. ASSUME Interrupt PROVE NoEmptyRun'
  BY <1>9, GotoFields DEF Interrupt, stateVars, workVars, historyVars, boundVars,
     TurnOK, Places, At
<1>10. ASSUME LookBehind PROVE NoEmptyRun'
  BY <1>10, GotoFields DEF LookBehind, stateVars, workVars, historyVars, boundVars,
     TurnOK, HasMessages, Places, At
<1>11. ASSUME Finish PROVE NoEmptyRun'
  BY <1>11, GotoFields DEF Finish, workVars, historyVars, boundVars, TurnOK, Places,
     At
<1>12. ASSUME Settle PROVE NoEmptyRun'
  BY <1>12, NoFields DEF Settle, workVars, historyVars, boundVars, TurnOK,
     HasMessages, Places, At
<1>13. ASSUME Acquire PROVE NoEmptyRun'
  BY <1>13, Acquired, NoFields DEF Acquire, stateVars, workVars, historyVars,
     boundVars, TurnOK, Places
<1>14. ASSUME FailTurn PROVE NoEmptyRun'
  BY <1>14, GotoFields DEF FailTurn, stateVars, workVars, Fail, TurnOK, Places, At
<1>15. ASSUME FailStart PROVE NoEmptyRun'
  BY <1>15, GotoFields DEF FailStart, workVars, Fail, TurnOK, Places, At
<1>16. ASSUME Schedule PROVE NoEmptyRun'
  BY <1>16 DEF Schedule, workVars, boundVars, TakeIfArmed, TurnOK
<1>17. ASSUME Cancel PROVE NoEmptyRun'
  BY <1>17, CancelFields DEF Cancel, workVars, TurnOK, Places
<1>18. ASSUME NEW t \in Results, Spawn(t) PROVE NoEmptyRun'
  BY <1>18 DEF Spawn, stateVars, historyVars, boundVars, TurnOK
<1>19. ASSUME NEW t \in Results, Route(t) PROVE NoEmptyRun'
  BY <1>19 DEF Route, stateVars, historyVars, boundVars, TurnOK
<1>20. ASSUME NEW t \in Results, NotifyScheduler(t) PROVE NoEmptyRun'
  BY <1>20 DEF NotifyScheduler, stateVars, historyVars, boundVars, TurnOK
<1>21. ASSUME NEW c \in Crons, FireCron(c) PROVE NoEmptyRun'
  BY <1>21 DEF FireCron, historyVars, boundVars, TurnOK
<1>22. ASSUME NEW p \in Prompts, Submit(p) PROVE NoEmptyRun'
  BY <1>22 DEF Submit, workVars, historyVars, boundVars, TurnOK
<1>23. ASSUME NEW p \in Prompts, LookAtIdle(p) PROVE NoEmptyRun'
  BY <1>23 DEF LookAtIdle, stateVars, workVars, historyVars, boundVars, TurnOK
<1>24. ASSUME NEW p \in Prompts, Inject(p) PROVE NoEmptyRun'
  BY <1>24 DEF Inject, stateVars, boundVars, TurnOK
<1>25. ASSUME NEW p \in Prompts, Refuse(p) PROVE NoEmptyRun'
  BY <1>25 DEF Refuse, stateVars, workVars, Fail, TurnOK
<1>26. CASE UNCHANGED vars
  BY <1>26 DEF vars, Fail, TakeIfArmed, TurnOK, HasMessages
<1> QED
  BY <1>1, <1>2, <1>3, <1>4, <1>5, <1>6, <1>7, <1>8, <1>9, <1>10, <1>11, <1>12,
     <1>13, <1>14, <1>15, <1>16, <1>17, <1>18, <1>19, <1>20, <1>21, <1>22, <1>23,
     <1>24, <1>25, <1>26 DEF Next, TurnStep, TaskStep, PromptStep

\* A user who cancels a continuation knows what is left.
LEMMA CancelledContinuationStep ==
  ASSUME TypeOK, TurnOK, CancelledContinuation, [Next]_vars
  PROVE  CancelledContinuation'
<1>0. turn \in Turns /\ MarksFollowTurn /\ TypeOK
  BY DEF TypeOK
<1> USE <1>0 DEF CancelledContinuation
<1>1. ASSUME Admit PROVE CancelledContinuation'
  BY <1>1, GotoFields, NoFields DEF Admit, stateVars, workVars, boundVars, TurnOK,
     Places, At
<1>2. ASSUME Mark PROVE CancelledContinuation'
  BY <1>2, GotoFields DEF Mark, workVars, historyVars, boundVars, TurnOK, Places, At
<1>3. ASSUME Register PROVE CancelledContinuation'
  BY <1>3, GotoFields DEF Register, workVars, historyVars, boundVars, TurnOK,
     Places, At
<1>4. ASSUME Open PROVE CancelledContinuation'
  BY <1>4, GotoFields DEF Open, stateVars, historyVars, boundVars, TurnOK, Places,
     At
<1>5. ASSUME Drain PROVE CancelledContinuation'
  <2>1. turn' = turn /\ ~turn.cancelled
    BY <1>5 DEF Drain
  <2> QED
    BY <2>1
<1>6. ASSUME Suspend PROVE CancelledContinuation'
  BY <1>6 DEF Suspend, stateVars, workVars, historyVars, boundVars, TurnOK
<1>7. ASSUME Wake PROVE CancelledContinuation'
  BY <1>7 DEF Wake, stateVars, workVars, historyVars, boundVars, TurnOK
<1>8. ASSUME Complete PROVE CancelledContinuation'
  BY <1>8, GotoFields DEF Complete, stateVars, workVars, historyVars, boundVars,
     TurnOK, Places, At
<1>9. ASSUME Interrupt PROVE CancelledContinuation'
  BY <1>9, GotoFields DEF Interrupt, stateVars, workVars, historyVars, boundVars,
     TurnOK, Places, At
<1>10. ASSUME LookBehind PROVE CancelledContinuation'
  BY <1>10, GotoFields DEF LookBehind, stateVars, workVars, historyVars, boundVars,
     TurnOK, Places, At
<1>11. ASSUME Finish PROVE CancelledContinuation'
  BY <1>11, GotoFields DEF Finish, workVars, historyVars, boundVars, TurnOK, Places,
     At
<1>12. ASSUME Settle PROVE CancelledContinuation'
  BY <1>12, NoFields DEF Settle, workVars, historyVars, boundVars, TurnOK, Places,
     At
<1>13. ASSUME Acquire PROVE CancelledContinuation'
  BY <1>13, Acquired, NoFields DEF Acquire, stateVars, workVars, historyVars,
     boundVars, TurnOK, Places
<1>14. ASSUME FailTurn PROVE CancelledContinuation'
  BY <1>14, GotoFields DEF FailTurn, stateVars, workVars, Fail, TurnOK, Places, At
<1>15. ASSUME FailStart PROVE CancelledContinuation'
  BY <1>15, GotoFields DEF FailStart, workVars, Fail, TurnOK, Places, At
<1>16. ASSUME Schedule PROVE CancelledContinuation'
  BY <1>16 DEF Schedule, workVars, boundVars, TakeIfArmed, TurnOK
<1>17. ASSUME Cancel PROVE CancelledContinuation'
  BY <1>17, CancelFields DEF Cancel, workVars, TurnOK, Places
<1>18. ASSUME NEW t \in Results, Spawn(t) PROVE CancelledContinuation'
  BY <1>18 DEF Spawn, stateVars, historyVars, boundVars, TurnOK
<1>19. ASSUME NEW t \in Results, Route(t) PROVE CancelledContinuation'
  BY <1>19 DEF Route, stateVars, historyVars, boundVars, TurnOK
<1>20. ASSUME NEW t \in Results, NotifyScheduler(t) PROVE CancelledContinuation'
  BY <1>20 DEF NotifyScheduler, stateVars, historyVars, boundVars, TurnOK
<1>21. ASSUME NEW c \in Crons, FireCron(c) PROVE CancelledContinuation'
  BY <1>21 DEF FireCron, historyVars, boundVars, TurnOK
<1>22. ASSUME NEW p \in Prompts, Submit(p) PROVE CancelledContinuation'
  BY <1>22 DEF Submit, workVars, historyVars, boundVars, TurnOK
<1>23. ASSUME NEW p \in Prompts, LookAtIdle(p) PROVE CancelledContinuation'
  BY <1>23 DEF LookAtIdle, stateVars, workVars, historyVars, boundVars, TurnOK
<1>24. ASSUME NEW p \in Prompts, Inject(p) PROVE CancelledContinuation'
  <2>1. turn' = turn /\ (excused => excused')
    BY <1>24 DEF Inject
  <2> QED
    BY <2>1
<1>25. ASSUME NEW p \in Prompts, Refuse(p) PROVE CancelledContinuation'
  BY <1>25 DEF Refuse, stateVars, workVars, Fail, TurnOK
<1>26. CASE UNCHANGED vars
  BY <1>26 DEF vars, Fail, TakeIfArmed, TurnOK
<1> QED
  BY <1>1, <1>2, <1>3, <1>4, <1>5, <1>6, <1>7, <1>8, <1>9, <1>10, <1>11, <1>12,
     <1>13, <1>14, <1>15, <1>16, <1>17, <1>18, <1>19, <1>20, <1>21, <1>22, <1>23,
     <1>24, <1>25, <1>26 DEF Next, TurnStep, TaskStep, PromptStep

\* The mark of a trigger is cleared only by the continuation that takes it, or over an
\* empty queue.
LEMMA TriggerMarkedStep ==
  ASSUME TypeOK, TurnOK, CancelledContinuation, TriggerMarked, [Next]_vars
  PROVE  TriggerMarked'
<1>0. turn \in Turns /\ MarksFollowTurn /\ TypeOK
  BY DEF TypeOK
<1> USE <1>0 DEF TriggerMarked
<1>1. ASSUME Admit PROVE TriggerMarked'
  BY <1>1, GotoFields, NoFields DEF Admit, stateVars, workVars, boundVars, TurnOK,
     Places, At
<1>2. ASSUME Mark PROVE TriggerMarked'
  BY <1>2, GotoFields DEF Mark, workVars, historyVars, boundVars, TurnOK, Places, At
<1>3. ASSUME Register PROVE TriggerMarked'
  BY <1>3, GotoFields DEF Register, workVars, historyVars, boundVars, TurnOK,
     Places, At
<1>4. ASSUME Open PROVE TriggerMarked'
  <2>1. queue' \cap Crons = queue \cap Crons
    BY <1>4, ContinuationAssumption DEF Open, Turns
  <2>2. turn'.kind = turn.kind /\ turn.at = "opening" /\ turn'.at = "loop"
    BY <1>4, GotoFields DEF Open, At, Places
  <2> QED
    BY <2>1, <2>2, <1>4 DEF Open, stateVars, historyVars
<1>5. ASSUME Drain PROVE TriggerMarked'
  BY <1>5 DEF Drain, stateVars, boundVars, TurnOK
<1>6. ASSUME Suspend PROVE TriggerMarked'
  BY <1>6 DEF Suspend, stateVars, workVars, historyVars, boundVars, TurnOK
<1>7. ASSUME Wake PROVE TriggerMarked'
  BY <1>7 DEF Wake, stateVars, workVars, historyVars, boundVars, TurnOK
<1>8. ASSUME Complete PROVE TriggerMarked'
  BY <1>8, GotoFields DEF Complete, stateVars, workVars, historyVars, boundVars,
     TurnOK, Places, At
<1>9. ASSUME Interrupt PROVE TriggerMarked'
  <2>1. turn.cancelled /\ queue' = queue /\ excused' = excused /\ pending' = pending
    BY <1>9 DEF Interrupt, workVars, stateVars, historyVars
  <2> QED
    BY <2>1 DEF CancelledContinuation
<1>10. ASSUME LookBehind PROVE TriggerMarked'
  BY <1>10, GotoFields DEF LookBehind, stateVars, workVars, historyVars, boundVars,
     TurnOK, HasMessages, Places, At
<1>11. ASSUME Finish PROVE TriggerMarked'
  BY <1>11, GotoFields DEF Finish, workVars, historyVars, boundVars, TurnOK, Places,
     At
<1>12. ASSUME Settle PROVE TriggerMarked'
  BY <1>12, NoFields DEF Settle, workVars, historyVars, boundVars, TurnOK,
     HasMessages, Places, At
<1>13. ASSUME Acquire PROVE TriggerMarked'
  BY <1>13, Acquired, NoFields DEF Acquire, stateVars, workVars, historyVars,
     boundVars, TurnOK, Places
<1>14. ASSUME FailTurn PROVE TriggerMarked'
  BY <1>14, GotoFields DEF FailTurn, stateVars, workVars, Fail, TurnOK, Places, At
<1>15. ASSUME FailStart PROVE TriggerMarked'
  BY <1>15, GotoFields DEF FailStart, workVars, Fail, TurnOK, Places, At
<1>16. ASSUME Schedule PROVE TriggerMarked'
  BY <1>16 DEF Schedule, workVars, boundVars, TakeIfArmed, TakeSteering, TurnOK
<1>17. ASSUME Cancel PROVE TriggerMarked'
  BY <1>17, CancelFields DEF Cancel, workVars, TurnOK, Places
<1>18. ASSUME NEW t \in Results, Spawn(t) PROVE TriggerMarked'
  BY <1>18 DEF Spawn, stateVars, historyVars, boundVars, TurnOK
<1>19. ASSUME NEW t \in Results, Route(t) PROVE TriggerMarked'
  <2>1. queue' \cap Crons = queue \cap Crons
    BY <1>19, ContinuationAssumption DEF Route
  <2> QED
    BY <2>1, <1>19 DEF Route, stateVars, historyVars
<1>20. ASSUME NEW t \in Results, NotifyScheduler(t) PROVE TriggerMarked'
  BY <1>20 DEF NotifyScheduler, stateVars, historyVars, boundVars, TurnOK
<1>21. ASSUME NEW c \in Crons, FireCron(c) PROVE TriggerMarked'
  <2>1. pending'
    BY <1>21 DEF FireCron
  <2> QED
    BY <2>1
<1>22. ASSUME NEW p \in Prompts, Submit(p) PROVE TriggerMarked'
  BY <1>22 DEF Submit, workVars, historyVars, boundVars, TurnOK
<1>23. ASSUME NEW p \in Prompts, LookAtIdle(p) PROVE TriggerMarked'
  BY <1>23 DEF LookAtIdle, stateVars, workVars, historyVars, boundVars, TurnOK
<1>24. ASSUME NEW p \in Prompts, Inject(p) PROVE TriggerMarked'
  <2>1. queue' \cap Crons = queue \cap Crons
    BY <1>24, ContinuationAssumption DEF Inject
  <2> QED
    BY <2>1, <1>24 DEF Inject, stateVars
<1>25. ASSUME NEW p \in Prompts, Refuse(p) PROVE TriggerMarked'
  BY <1>25 DEF Refuse, stateVars, workVars, Fail, TurnOK
<1>26. CASE UNCHANGED vars
  BY <1>26 DEF vars, Fail, TakeIfArmed, TakeSteering, TurnOK, HasMessages
<1> QED
  BY <1>1, <1>2, <1>3, <1>4, <1>5, <1>6, <1>7, <1>8, <1>9, <1>10, <1>11, <1>12,
     <1>13, <1>14, <1>15, <1>16, <1>17, <1>18, <1>19, <1>20, <1>21, <1>22, <1>23,
     <1>24, <1>25, <1>26 DEF Next, TurnStep, TaskStep, PromptStep

\* A channel that does not change keeps what was sent.
LEMMA SentSame ==
  ASSUME chan' = chan
  PROVE  \A q : Sent(q)' <=> Sent(q)
BY DEF Sent

\* A step that takes away none of the takers of a trigger keeps the claim.
LEMMA FrameTriggerCalled ==
  ASSUME TriggerCalled,
         queue' \cap Crons \subseteq queue \cap Crons, excused => excused',
         epoch' = epoch, waiting' = waiting, prompt' = prompt,
         Sent("mq") => Sent("mq")', turn'.kind = turn.kind, turn'.epoch = turn.epoch,
         turn'.at # "admitting" \/ turn'.at = turn.at
  PROVE  TriggerCalled'
BY DEF TriggerCalled, Called, PromptComes, Current, Admitting

\* Somebody will look at the mark of a trigger: a continuation of the epoch that waits,
\* a request, a prompt on its way, or the end of the turn that runs.
LEMMA TriggerCalledStep ==
  ASSUME TypeOK, TurnOK, TriggerMarked, TriggerCalled, [Next]_vars
  PROVE  TriggerCalled'
<1>0. turn \in Turns /\ MarksFollowTurn /\ chan \in Seq(Requests)
      /\ waiting \in [Epochs -> Nat] /\ epoch \in Epochs
      /\ prompt \in [Prompts -> {"new", "bumped", "injecting", "waiting", "done"}]
  BY DEF TypeOK
<1> USE <1>0
<1>1. ASSUME Admit PROVE TriggerCalled'
  <2>1. /\ queue' = queue /\ epoch' = epoch /\ chan' = chan /\ excused' = excused
        /\ prompt' = prompt /\ waiting' = waiting /\ pending' = pending
    BY <1>1 DEF Admit, workVars, stateVars
  <2>2. CASE Goto("starting") \/ Goto("marking")
    <3>1. turn'.kind = turn.kind /\ turn'.epoch = turn.epoch /\ turn'.at # "admitting"
      BY <2>2, GotoFields DEF Places
    <3> QED
      BY <2>1, <3>1, SentSame, FrameTriggerCalled
  <2>3. CASE turn.kind = "continuation" /\ ~Dispatchable(turn.epoch)
    <3>1. queue \cap Crons # {} /\ ~excused => turn.epoch # epoch
      BY <2>3, <1>1 DEF Dispatchable, TriggerMarked, HasMessages, Admit, At
    <3>2. queue \cap Crons # {} /\ ~excused => ~Current
      BY <3>1, <2>3, <1>1 DEF Current, Admitting, Admit, At
    <3> QED
      BY <2>1, <3>2, SentSame DEF TriggerCalled, Called, PromptComes
  <2> QED
    BY <1>1, <2>2, <2>3 DEF Admit
<1>2. ASSUME Mark PROVE TriggerCalled'
  <2>1. turn'.kind = turn.kind /\ turn'.epoch = turn.epoch /\ turn'.at # "admitting"
    BY <1>2, GotoFields DEF Mark, Places
  <2>2. /\ queue' = queue /\ epoch' = epoch /\ waiting' = waiting
        /\ prompt' = prompt /\ chan' = chan /\ (excused => excused')
    BY <1>2 DEF Mark, workVars, historyVars, boundVars
  <2> QED
    BY <2>1, <2>2, SentSame, FrameTriggerCalled
<1>3. ASSUME Register PROVE TriggerCalled'
  <2>1. turn'.kind = turn.kind /\ turn'.epoch = turn.epoch /\ turn'.at # "admitting"
    BY <1>3, GotoFields DEF Register, Places
  <2>2. /\ queue' = queue /\ epoch' = epoch /\ waiting' = waiting
        /\ prompt' = prompt /\ chan' = chan /\ (excused => excused')
    BY <1>3 DEF Register, workVars, historyVars, boundVars
  <2> QED
    BY <2>1, <2>2, SentSame, FrameTriggerCalled
<1>4. ASSUME Open PROVE TriggerCalled'
  <2>1. turn'.kind = turn.kind /\ turn'.epoch = turn.epoch /\ turn'.at # "admitting"
    BY <1>4, GotoFields DEF Open, Places
  <2>2. /\ queue' \cap Crons \subseteq queue /\ epoch' = epoch /\ waiting' = waiting
        /\ prompt' = prompt /\ chan' = chan /\ (excused => excused')
    BY <1>4, ContinuationAssumption DEF Open, Turns, stateVars, historyVars,
       boundVars
  <2> QED
    BY <2>1, <2>2, SentSame, FrameTriggerCalled
<1>5. ASSUME Drain PROVE TriggerCalled'
  <2>1. queue' = {}
    BY <1>5 DEF Drain
  <2> QED
    BY <2>1 DEF TriggerCalled
<1>6. ASSUME Suspend PROVE TriggerCalled'
  <2>1. turn'.kind = turn.kind /\ turn'.epoch = turn.epoch /\ turn'.at = turn.at
    BY <1>6 DEF Suspend
  <2>2. /\ queue' \cap Crons \subseteq queue /\ epoch' = epoch /\ waiting' = waiting
        /\ prompt' = prompt /\ chan' = chan /\ (excused => excused')
    BY <1>6, ContinuationAssumption DEF Suspend, stateVars, workVars, historyVars,
       boundVars
  <2> QED
    BY <2>1, <2>2, SentSame, FrameTriggerCalled
<1>7. ASSUME Wake PROVE TriggerCalled'
  <2>1. turn'.kind = turn.kind /\ turn'.epoch = turn.epoch /\ turn'.at = turn.at
    BY <1>7 DEF Wake
  <2>2. /\ queue' \cap Crons \subseteq queue /\ epoch' = epoch /\ waiting' = waiting
        /\ prompt' = prompt /\ chan' = chan /\ (excused => excused')
    BY <1>7, ContinuationAssumption DEF Wake, stateVars, workVars, historyVars,
       boundVars
  <2> QED
    BY <2>1, <2>2, SentSame, FrameTriggerCalled
<1>8. ASSUME Complete PROVE TriggerCalled'
  <2>1. turn'.kind = turn.kind /\ turn'.epoch = turn.epoch /\ turn'.at # "admitting"
    BY <1>8, GotoFields DEF Complete, Places
  <2>2. /\ queue' = queue /\ epoch' = epoch /\ waiting' = waiting
        /\ prompt' = prompt /\ chan' = chan /\ (excused => excused')
    BY <1>8 DEF Complete, stateVars, workVars, historyVars, boundVars
  <2> QED
    BY <2>1, <2>2, SentSame, FrameTriggerCalled
<1>9. ASSUME Interrupt PROVE TriggerCalled'
  <2>1. turn'.kind = turn.kind /\ turn'.epoch = turn.epoch /\ turn'.at # "admitting"
    BY <1>9, GotoFields DEF Interrupt, Places
  <2>2. /\ queue' = queue /\ epoch' = epoch /\ waiting' = waiting
        /\ prompt' = prompt /\ chan' = chan /\ (excused => excused')
    BY <1>9 DEF Interrupt, stateVars, workVars, historyVars, boundVars
  <2> QED
    BY <2>1, <2>2, SentSame, FrameTriggerCalled
<1>10. ASSUME LookBehind PROVE TriggerCalled'
  <2>1. turn'.kind = turn.kind /\ turn'.epoch = turn.epoch /\ turn'.at # "admitting"
    BY <1>10, GotoFields DEF LookBehind, Places
  <2>2. /\ queue' = queue /\ epoch' = epoch /\ waiting' = waiting
        /\ prompt' = prompt /\ (excused => excused')
    BY <1>10 DEF LookBehind, stateVars, workVars, historyVars
  <2>3. chan' = chan \/ chan' = Append(chan, "mq")
    BY <1>10 DEF LookBehind
  <2> QED
    BY <2>1, <2>2, <2>3, SentSame, AppendSent, FrameTriggerCalled DEF Requests
<1>11. ASSUME Finish PROVE TriggerCalled'
  <2>1. turn'.kind = turn.kind /\ turn'.epoch = turn.epoch /\ turn'.at # "admitting"
    BY <1>11, GotoFields DEF Finish, Places
  <2>2. /\ queue' = queue /\ epoch' = epoch /\ waiting' = waiting
        /\ prompt' = prompt /\ chan' = chan /\ (excused => excused')
    BY <1>11 DEF Finish, workVars, historyVars, boundVars
  <2> QED
    BY <2>1, <2>2, SentSame, FrameTriggerCalled
<1>12. ASSUME Settle PROVE TriggerCalled'
  <2>1. /\ queue' = queue /\ excused' = excused
    BY <1>12 DEF Settle, workVars, historyVars
  <2>2. queue \cap Crons # {} /\ ~excused => pending'
    BY <1>12 DEF Settle, TriggerMarked, At, HasMessages
  <2>3. CASE ~pending'
    BY <2>1, <2>2, <2>3 DEF TriggerCalled
  <2>4. CASE pending'
    BY <2>4, <1>12, AppendSent DEF TriggerCalled, Settle, Requests
  <2> QED
    BY <2>3, <2>4
<1>13. ASSUME Acquire PROVE TriggerCalled'
  <2>1. /\ queue' = queue /\ epoch' = epoch /\ chan' = chan /\ excused' = excused
    BY <1>13 DEF Acquire, workVars, stateVars, historyVars
  <2>2. turn'.kind # "none" /\ turn.kind = "none"
    BY <1>13, Acquired, NoFields DEF Acquire
  <2>3. CASE turn'.kind = "prompt" \/ turn'.epoch = epoch
    BY <2>1, <2>2, <2>3 DEF TriggerCalled, Current, Admitting
  <2>4. CASE turn'.kind = "continuation" /\ turn'.epoch # epoch
    <3>1. waiting'[epoch] = waiting[epoch] /\ prompt' = prompt
      BY <2>4, <1>13 DEF Acquire, LeaveWait, NewTurn
    <3> QED
      BY <2>1, <2>2, <3>1, SentSame DEF TriggerCalled, Called, PromptComes
  <2> QED
    BY <1>13, Acquired, <2>3, <2>4
<1>14. ASSUME FailTurn PROVE TriggerCalled'
  <2>1. turn'.kind = turn.kind /\ turn'.epoch = turn.epoch /\ turn'.at # "admitting"
    BY <1>14, GotoFields DEF FailTurn, Places
  <2>2. /\ queue' = queue /\ epoch' = epoch /\ waiting' = waiting
        /\ prompt' = prompt /\ chan' = chan /\ (excused => excused')
    BY <1>14 DEF FailTurn, stateVars, workVars, Fail
  <2> QED
    BY <2>1, <2>2, SentSame, FrameTriggerCalled
<1>15. ASSUME FailStart PROVE TriggerCalled'
  <2>1. turn'.kind = turn.kind /\ turn'.epoch = turn.epoch /\ turn'.at # "admitting"
    BY <1>15, GotoFields DEF FailStart, Places
  <2>2. /\ queue' = queue /\ epoch' = epoch /\ waiting' = waiting
        /\ prompt' = prompt /\ chan' = chan /\ (excused => excused')
    BY <1>15 DEF FailStart, stateVars, workVars, Fail
  <2> QED
    BY <2>1, <2>2, SentSame, FrameTriggerCalled
<1>16. ASSUME Schedule PROVE TriggerCalled'
  <2>1. /\ queue' = queue /\ epoch' = epoch /\ turn' = turn
        /\ prompt' = prompt /\ excused' = excused
    BY <1>16 DEF Schedule, workVars
  <2>2. chan # <<>> /\ chan' = Tail(chan)
    BY <1>16 DEF Schedule
  <2>3. CASE AwaitLock(epoch)
    BY <2>1, <2>3, Awaited DEF TriggerCalled, Called
  <2>4. CASE waiting' = waiting /\ Head(chan) # "mq"
    BY <2>1, <2>2, <2>4, TailSent, FrameTriggerCalled
  <2>5. CASE waiting' = waiting /\ inFlight
    BY <2>1, <2>5 DEF TriggerCalled, MarksFollowTurn, Current, Admitting
  <2> QED
    BY <1>16, <2>3, <2>4, <2>5 DEF Schedule, TakeIfArmed, TakeSteering
<1>17. ASSUME Cancel PROVE TriggerCalled'
  <2>1. turn'.kind = turn.kind /\ turn'.epoch = turn.epoch /\ turn'.at = turn.at
    BY <1>17, CancelFields DEF Cancel
  <2>2. /\ queue' = queue /\ epoch' = epoch /\ waiting' = waiting
        /\ prompt' = prompt /\ (excused => excused')
    BY <1>17 DEF Cancel, workVars
  <2>3. chan' = chan \/ chan' = Append(chan, "agent")
    BY <1>17 DEF Cancel
  <2> QED
    BY <2>1, <2>2, <2>3, SentSame, AppendSent, FrameTriggerCalled DEF Requests
<1>18. ASSUME NEW t \in Results, Spawn(t) PROVE TriggerCalled'
  <2>1. turn'.kind = turn.kind /\ turn'.epoch = turn.epoch /\ turn'.at = turn.at
    BY <1>18 DEF Spawn
  <2>2. /\ queue' \cap Crons \subseteq queue /\ epoch' = epoch /\ waiting' = waiting
        /\ prompt' = prompt /\ chan' = chan /\ (excused => excused')
    BY <1>18, ContinuationAssumption DEF Spawn, stateVars, historyVars, boundVars
  <2> QED
    BY <2>1, <2>2, SentSame, FrameTriggerCalled
<1>19. ASSUME NEW t \in Results, Route(t) PROVE TriggerCalled'
  <2>1. turn'.kind = turn.kind /\ turn'.epoch = turn.epoch /\ turn'.at = turn.at
    BY <1>19 DEF Route
  <2>2. /\ queue' \cap Crons \subseteq queue /\ epoch' = epoch /\ waiting' = waiting
        /\ prompt' = prompt /\ chan' = chan /\ (excused => excused')
    BY <1>19, ContinuationAssumption DEF Route, stateVars, historyVars, boundVars
  <2> QED
    BY <2>1, <2>2, SentSame, FrameTriggerCalled
<1>20. ASSUME NEW t \in Results, NotifyScheduler(t) PROVE TriggerCalled'
  <2>1. turn' = turn /\ chan' = Append(chan, "agent")
    BY <1>20 DEF NotifyScheduler
  <2>2. /\ queue' = queue /\ epoch' = epoch /\ waiting' = waiting
        /\ prompt' = prompt /\ (excused => excused')
    BY <1>20 DEF NotifyScheduler, stateVars, historyVars
  <2> QED
    BY <2>1, <2>2, AppendSent, FrameTriggerCalled DEF Requests
<1>21. ASSUME NEW c \in Crons, FireCron(c) PROVE TriggerCalled'
  <2>1. AwaitLock(epoch) /\ epoch' = epoch
    BY <1>21 DEF FireCron
  <2> QED
    BY <2>1, Awaited DEF TriggerCalled, Called
<1>22. ASSUME NEW p \in Prompts, Submit(p) PROVE TriggerCalled'
  <2>1. PromptComes'
    BY <1>22 DEF Submit, PromptComes
  <2> QED
    BY <2>1 DEF TriggerCalled
<1>23. ASSUME NEW p \in Prompts, LookAtIdle(p) PROVE TriggerCalled'
  <2>1. PromptComes'
    BY <1>23 DEF LookAtIdle, PromptComes
  <2> QED
    BY <2>1 DEF TriggerCalled
<1>24. ASSUME NEW p \in Prompts, Inject(p) PROVE TriggerCalled'
  <2>1. excused' \/ (turn' = turn /\ turn.at \in {"loop", "looked"})
    BY <1>24 DEF Inject, At
  <2> QED
    BY <2>1 DEF TriggerCalled, TurnOK, Current, Admitting
<1>25. ASSUME NEW p \in Prompts, Refuse(p) PROVE TriggerCalled'
  <2>1. excused'
    BY <1>25 DEF Refuse, Fail
  <2> QED
    BY <2>1 DEF TriggerCalled
<1>26. CASE UNCHANGED vars
  BY <1>26, SentSame, FrameTriggerCalled DEF vars
<1> QED
  BY <1>1, <1>2, <1>3, <1>4, <1>5, <1>6, <1>7, <1>8, <1>9, <1>10, <1>11, <1>12,
     <1>13, <1>14, <1>15, <1>16, <1>17, <1>18, <1>19, <1>20, <1>21, <1>22, <1>23,
     <1>24, <1>25, <1>26 DEF Next, TurnStep, TaskStep, PromptStep

\* A step that changes neither prompts nor continuations keeps the answer of a cancel.
LEMMA FrameAnswered ==
  ASSUME Answered, epoch' = epoch, waiting' = waiting, prompt' = prompt, takes' = takes,
         armed => armed'
  PROVE  Answered'
BY DEF Answered, Called, PromptComes, ByTake

\* What has answered a cancel stays, until a prompt joins a turn or a turn of its own
\* begins.
LEMMA AnsweredKept ==
  ASSUME TypeOK, Answered, [Next]_vars
  PROVE  Answered' \/ excused' \/ JoinsLoop \/ Answers \/ JoinsNew
<1>0. turn \in Turns /\ MarksFollowTurn /\ chan \in Seq(Requests)
      /\ waiting \in [Epochs -> Nat] /\ epoch \in Epochs /\ takes \in Nat
      /\ prompt \in [Prompts -> {"new", "bumped", "injecting", "waiting", "done"}]
      /\ task \in [Results -> {"none", "running", "routed", "done"}]
  BY DEF TypeOK
<1> USE <1>0
<1>1. ASSUME Admit PROVE Answered' \/ excused' \/ JoinsLoop \/ Answers \/ JoinsNew
  <2>1. /\ epoch' = epoch /\ waiting' = waiting /\ prompt' = prompt /\ takes' = takes
        /\ (armed => armed')
    BY <1>1 DEF Admit, stateVars, workVars, boundVars
  <2> QED
    BY <2>1, FrameAnswered
<1>2. ASSUME Mark PROVE Answered' \/ excused' \/ JoinsLoop \/ Answers \/ JoinsNew
  <2>1. /\ epoch' = epoch /\ waiting' = waiting /\ prompt' = prompt /\ takes' = takes
        /\ (armed => armed')
    BY <1>2 DEF Mark, workVars, historyVars, boundVars
  <2> QED
    BY <2>1, FrameAnswered
<1>3. ASSUME Register PROVE Answered' \/ excused' \/ JoinsLoop \/ Answers \/ JoinsNew
  <2>1. /\ epoch' = epoch /\ waiting' = waiting /\ prompt' = prompt /\ takes' = takes
        /\ (armed => armed')
    BY <1>3 DEF Register, workVars, historyVars, boundVars
  <2> QED
    BY <2>1, FrameAnswered
<1>4. ASSUME Open PROVE Answered' \/ excused' \/ JoinsLoop \/ Answers \/ JoinsNew
  <2>1. /\ epoch' = epoch /\ waiting' = waiting /\ prompt' = prompt /\ takes' = takes
        /\ (armed => armed')
    BY <1>4 DEF Open, stateVars, historyVars, boundVars
  <2> QED
    BY <2>1, FrameAnswered
<1>5. ASSUME Drain PROVE Answered' \/ excused' \/ JoinsLoop \/ Answers \/ JoinsNew
  <2>1. /\ epoch' = epoch /\ waiting' = waiting /\ prompt' = prompt /\ takes' = takes
        /\ (armed => armed')
    BY <1>5 DEF Drain, stateVars, boundVars
  <2> QED
    BY <2>1, FrameAnswered
<1>6. ASSUME Suspend PROVE Answered' \/ excused' \/ JoinsLoop \/ Answers \/ JoinsNew
  <2>1. /\ epoch' = epoch /\ waiting' = waiting /\ prompt' = prompt /\ takes' = takes
        /\ (armed => armed')
    BY <1>6 DEF Suspend, stateVars, workVars, historyVars, boundVars
  <2> QED
    BY <2>1, FrameAnswered
<1>7. ASSUME Wake PROVE Answered' \/ excused' \/ JoinsLoop \/ Answers \/ JoinsNew
  <2>1. /\ epoch' = epoch /\ waiting' = waiting /\ prompt' = prompt /\ takes' = takes
        /\ (armed => armed')
    BY <1>7 DEF Wake, stateVars, workVars, historyVars, boundVars
  <2> QED
    BY <2>1, FrameAnswered
<1>8. ASSUME Complete PROVE Answered' \/ excused' \/ JoinsLoop \/ Answers \/ JoinsNew
  <2>1. /\ epoch' = epoch /\ waiting' = waiting /\ prompt' = prompt /\ takes' = takes
        /\ (armed => armed')
    BY <1>8 DEF Complete, stateVars, workVars, historyVars, boundVars
  <2> QED
    BY <2>1, FrameAnswered
<1>9. ASSUME Interrupt
      PROVE Answered' \/ excused' \/ JoinsLoop \/ Answers \/ JoinsNew
  <2>1. /\ epoch' = epoch /\ waiting' = waiting /\ prompt' = prompt /\ takes' = takes
        /\ (armed => armed')
    BY <1>9 DEF Interrupt, stateVars, workVars, historyVars, boundVars
  <2> QED
    BY <2>1, FrameAnswered
<1>10. ASSUME LookBehind
       PROVE Answered' \/ excused' \/ JoinsLoop \/ Answers \/ JoinsNew
  <2>1. /\ epoch' = epoch /\ waiting' = waiting /\ prompt' = prompt /\ takes' = takes
        /\ (armed => armed')
    BY <1>10 DEF LookBehind, stateVars, workVars, historyVars, boundVars
  <2> QED
    BY <2>1, FrameAnswered
<1>11. ASSUME Finish PROVE Answered' \/ excused' \/ JoinsLoop \/ Answers \/ JoinsNew
  <2>1. /\ epoch' = epoch /\ waiting' = waiting /\ prompt' = prompt /\ takes' = takes
        /\ (armed => armed')
    BY <1>11 DEF Finish, workVars, historyVars, boundVars
  <2> QED
    BY <2>1, FrameAnswered
<1>12. ASSUME Settle PROVE Answered' \/ excused' \/ JoinsLoop \/ Answers \/ JoinsNew
  <2>1. /\ epoch' = epoch /\ waiting' = waiting /\ prompt' = prompt /\ takes' = takes
        /\ (armed => armed')
    BY <1>12 DEF Settle, workVars, historyVars, boundVars
  <2> QED
    BY <2>1, FrameAnswered
<1>13. ASSUME Acquire PROVE Answered' \/ excused' \/ JoinsLoop \/ Answers \/ JoinsNew
  <2>1. /\ epoch' = epoch /\ armed' = armed /\ takes' = takes
    BY <1>13 DEF Acquire, stateVars, historyVars
  <2>2. ASSUME turn'.kind = "continuation", turn'.epoch = epoch, ByTake
        PROVE  Answers
    BY <2>1, <2>2, Acquired, <1>13 DEF Answers, ByTake
  <2>3. CASE turn'.kind = "prompt"
    <3>1. JoinsNew
      BY <2>3, <1>13, Acquired DEF JoinsNew
    <3> QED
      BY <3>1
  <2>4. CASE turn'.kind = "continuation"
    <3>1. prompt' = prompt /\ (turn'.epoch # epoch => waiting'[epoch] = waiting[epoch])
      BY <2>4, <1>13 DEF Acquire, LeaveWait, NewTurn
    <3>2. CASE turn'.epoch # epoch
      BY <2>1, <3>1, <3>2 DEF Answered, ByTake, Called, PromptComes
    <3>3. CASE turn'.epoch = epoch
      BY <2>1, <2>2, <2>4, <3>1, <3>3 DEF Answered, PromptComes
    <3> QED
      BY <3>2, <3>3
  <2> QED
    BY <2>3, <2>4, <1>13, Acquired
<1>14. ASSUME FailTurn
       PROVE Answered' \/ excused' \/ JoinsLoop \/ Answers \/ JoinsNew
  <2>1. /\ epoch' = epoch /\ waiting' = waiting /\ prompt' = prompt /\ takes' = takes
        /\ (armed => armed')
    BY <1>14 DEF FailTurn, stateVars, workVars, Fail
  <2> QED
    BY <2>1, FrameAnswered
<1>15. ASSUME FailStart
       PROVE Answered' \/ excused' \/ JoinsLoop \/ Answers \/ JoinsNew
  <2>1. /\ epoch' = epoch /\ waiting' = waiting /\ prompt' = prompt /\ takes' = takes
        /\ (armed => armed')
    BY <1>15 DEF FailStart, stateVars, workVars, Fail
  <2> QED
    BY <2>1, FrameAnswered
<1>16. ASSUME Schedule
       PROVE Answered' \/ excused' \/ JoinsLoop \/ Answers \/ JoinsNew
  <2>1. epoch' = epoch /\ prompt' = prompt
    BY <1>16 DEF Schedule
  <2>2. CASE TakeIfArmed
    <3>1. takes' > 0 /\ waiting'[epoch] > 0
      BY <2>2, Awaited DEF TakeIfArmed
    <3> QED
      BY <3>1, <2>1 DEF Answered, ByTake, Called
  <2>3. CASE armed' = armed /\ takes' = takes /\ AwaitLock(epoch)
    BY <2>1, <2>3, Awaited DEF Answered, ByTake, Called, PromptComes
  <2>4. CASE armed' = armed /\ takes' = takes /\ waiting' = waiting
    BY <2>1, <2>4, FrameAnswered
  <2> QED
    BY <1>16, <2>2, <2>3, <2>4 DEF Schedule, TakeSteering
<1>17. ASSUME Cancel PROVE Answered' \/ excused' \/ JoinsLoop \/ Answers \/ JoinsNew
  <2>1. /\ epoch' = epoch /\ waiting' = waiting /\ prompt' = prompt /\ takes' = takes
        /\ (armed => armed')
    BY <1>17 DEF Cancel, workVars
  <2> QED
    BY <2>1, FrameAnswered
<1>18. ASSUME NEW t \in Results, Spawn(t)
       PROVE Answered' \/ excused' \/ JoinsLoop \/ Answers \/ JoinsNew
  <2>1. /\ epoch' = epoch /\ waiting' = waiting /\ prompt' = prompt /\ takes' = takes
        /\ (armed => armed')
    BY <1>18 DEF Spawn, stateVars, historyVars, boundVars
  <2> QED
    BY <2>1, FrameAnswered
<1>19. ASSUME NEW t \in Results, Route(t)
       PROVE Answered' \/ excused' \/ JoinsLoop \/ Answers \/ JoinsNew
  <2>1. /\ epoch' = epoch /\ waiting' = waiting /\ prompt' = prompt /\ takes' = takes
        /\ (armed => armed')
    BY <1>19 DEF Route, stateVars, historyVars, boundVars
  <2> QED
    BY <2>1, FrameAnswered
<1>20. ASSUME NEW t \in Results, NotifyScheduler(t)
       PROVE Answered' \/ excused' \/ JoinsLoop \/ Answers \/ JoinsNew
  <2>1. /\ epoch' = epoch /\ waiting' = waiting /\ prompt' = prompt /\ takes' = takes
        /\ (armed => armed')
    BY <1>20 DEF NotifyScheduler, stateVars, historyVars, boundVars
  <2> QED
    BY <2>1, FrameAnswered
<1>21. ASSUME NEW c \in Crons, FireCron(c)
       PROVE Answered' \/ excused' \/ JoinsLoop \/ Answers \/ JoinsNew
  <2>1. /\ epoch' = epoch /\ prompt' = prompt /\ armed' = armed /\ takes' = takes
        /\ AwaitLock(epoch)
    BY <1>21 DEF FireCron, historyVars
  <2> QED
    BY <2>1, Awaited DEF Answered, ByTake, Called, PromptComes
<1>22. ASSUME NEW p \in Prompts, Submit(p)
       PROVE Answered' \/ excused' \/ JoinsLoop \/ Answers \/ JoinsNew
  <2>1. PromptComes'
    BY <1>22 DEF Submit, PromptComes
  <2> QED
    BY <2>1 DEF Answered
<1>23. ASSUME NEW p \in Prompts, LookAtIdle(p)
       PROVE Answered' \/ excused' \/ JoinsLoop \/ Answers \/ JoinsNew
  <2>1. PromptComes'
    BY <1>23 DEF LookAtIdle, PromptComes
  <2> QED
    BY <2>1 DEF Answered
<1>24. ASSUME NEW p \in Prompts, Inject(p)
       PROVE Answered' \/ excused' \/ JoinsLoop \/ Answers \/ JoinsNew
  <2>1. excused' \/ JoinsLoop
    BY <1>24 DEF Inject, At, JoinsLoop
  <2> QED
    BY <2>1
<1>25. ASSUME NEW p \in Prompts, Refuse(p)
       PROVE Answered' \/ excused' \/ JoinsLoop \/ Answers \/ JoinsNew
  <2>1. excused'
    BY <1>25 DEF Refuse, Fail
  <2> QED
    BY <2>1
<1>26. CASE UNCHANGED vars
  BY <1>26, FrameAnswered DEF vars
<1> QED
  BY <1>1, <1>2, <1>3, <1>4, <1>5, <1>6, <1>7, <1>8, <1>9, <1>10, <1>11, <1>12,
     <1>13, <1>14, <1>15, <1>16, <1>17, <1>18, <1>19, <1>20, <1>21, <1>22, <1>23,
     <1>24, <1>25, <1>26 DEF Next, TurnStep, TaskStep, PromptStep

\* Only a Receive forgets what excuses a message that is left.
LEMMA ExcusesKept ==
  ASSUME [Next]_vars, ~Drain
  PROVE  (excused => excused') /\ (spent => spent')
<1>1. ASSUME Admit PROVE (excused => excused') /\ (spent => spent')
  BY <1>1 DEF Admit, stateVars, workVars, boundVars
<1>2. ASSUME Mark PROVE (excused => excused') /\ (spent => spent')
  BY <1>2 DEF Mark, workVars, historyVars, boundVars
<1>3. ASSUME Register PROVE (excused => excused') /\ (spent => spent')
  BY <1>3 DEF Register, workVars, historyVars, boundVars
<1>4. ASSUME Open PROVE (excused => excused') /\ (spent => spent')
  BY <1>4 DEF Open, stateVars, historyVars, boundVars
<1>5. ASSUME Drain PROVE (excused => excused') /\ (spent => spent')
  BY <1>5
<1>6. ASSUME Suspend PROVE (excused => excused') /\ (spent => spent')
  BY <1>6 DEF Suspend, stateVars, workVars, historyVars, boundVars
<1>7. ASSUME Wake PROVE (excused => excused') /\ (spent => spent')
  BY <1>7 DEF Wake, stateVars, workVars, historyVars, boundVars
<1>8. ASSUME Complete PROVE (excused => excused') /\ (spent => spent')
  BY <1>8 DEF Complete, stateVars, workVars, historyVars, boundVars
<1>9. ASSUME Interrupt PROVE (excused => excused') /\ (spent => spent')
  BY <1>9 DEF Interrupt, stateVars, workVars, historyVars, boundVars
<1>10. ASSUME LookBehind PROVE (excused => excused') /\ (spent => spent')
  BY <1>10 DEF LookBehind, stateVars, workVars, historyVars, boundVars
<1>11. ASSUME Finish PROVE (excused => excused') /\ (spent => spent')
  BY <1>11 DEF Finish, workVars, historyVars, boundVars
<1>12. ASSUME Settle PROVE (excused => excused') /\ (spent => spent')
  BY <1>12 DEF Settle, workVars, historyVars, boundVars
<1>13. ASSUME Acquire PROVE (excused => excused') /\ (spent => spent')
  BY <1>13 DEF Acquire, stateVars, workVars, historyVars, boundVars
<1>14. ASSUME FailTurn PROVE (excused => excused') /\ (spent => spent')
  BY <1>14 DEF FailTurn, stateVars, workVars, Fail
<1>15. ASSUME FailStart PROVE (excused => excused') /\ (spent => spent')
  BY <1>15 DEF FailStart, workVars, Fail
<1>16. ASSUME Schedule PROVE (excused => excused') /\ (spent => spent')
  BY <1>16 DEF Schedule, workVars, boundVars, TakeIfArmed
<1>17. ASSUME Cancel PROVE (excused => excused') /\ (spent => spent')
  BY <1>17 DEF Cancel, workVars
<1>18. ASSUME NEW t \in Results, Spawn(t)
       PROVE (excused => excused') /\ (spent => spent')
  BY <1>18 DEF Spawn, stateVars, historyVars, boundVars
<1>19. ASSUME NEW t \in Results, Route(t)
       PROVE (excused => excused') /\ (spent => spent')
  BY <1>19 DEF Route, stateVars, historyVars, boundVars
<1>20. ASSUME NEW t \in Results, NotifyScheduler(t)
       PROVE (excused => excused') /\ (spent => spent')
  BY <1>20 DEF NotifyScheduler, stateVars, historyVars, boundVars
<1>21. ASSUME NEW c \in Crons, FireCron(c)
       PROVE (excused => excused') /\ (spent => spent')
  BY <1>21 DEF FireCron, historyVars, boundVars
<1>22. ASSUME NEW p \in Prompts, Submit(p)
       PROVE (excused => excused') /\ (spent => spent')
  BY <1>22 DEF Submit, workVars, historyVars, boundVars
<1>23. ASSUME NEW p \in Prompts, LookAtIdle(p)
       PROVE (excused => excused') /\ (spent => spent')
  BY <1>23 DEF LookAtIdle, stateVars, workVars, historyVars, boundVars
<1>24. ASSUME NEW p \in Prompts, Inject(p)
       PROVE (excused => excused') /\ (spent => spent')
  BY <1>24 DEF Inject, stateVars, boundVars
<1>25. ASSUME NEW p \in Prompts, Refuse(p)
       PROVE (excused => excused') /\ (spent => spent')
  BY <1>25 DEF Refuse, stateVars, workVars, Fail
<1>26. CASE UNCHANGED vars
  BY <1>26 DEF vars, Fail, TakeIfArmed
<1> QED
  BY <1>1, <1>2, <1>3, <1>4, <1>5, <1>6, <1>7, <1>8, <1>9, <1>10, <1>11, <1>12,
     <1>13, <1>14, <1>15, <1>16, <1>17, <1>18, <1>19, <1>20, <1>21, <1>22, <1>23,
     <1>24, <1>25, <1>26 DEF Next, TurnStep, TaskStep, PromptStep

\* A turn is cancelled by nothing but session/cancel.
LEMMA OnlyCancelCancels ==
  ASSUME turn \in Turns, [Next]_vars, ~turn.cancelled, turn'.cancelled
  PROVE  Cancel
<1>1. ASSUME Admit PROVE Cancel
  BY <1>1, GotoFields, NoFields DEF Admit, stateVars, workVars, boundVars, Places,
     At
<1>2. ASSUME Mark PROVE Cancel
  BY <1>2, GotoFields DEF Mark, workVars, historyVars, boundVars, Places, At
<1>3. ASSUME Register PROVE Cancel
  BY <1>3, GotoFields DEF Register, workVars, historyVars, boundVars, Places, At
<1>4. ASSUME Open PROVE Cancel
  BY <1>4, GotoFields DEF Open, stateVars, historyVars, boundVars, Places, At
<1>5. ASSUME Drain PROVE Cancel
  BY <1>5 DEF Drain, stateVars, boundVars
<1>6. ASSUME Suspend PROVE Cancel
  BY <1>6 DEF Suspend, stateVars, workVars, historyVars, boundVars
<1>7. ASSUME Wake PROVE Cancel
  BY <1>7 DEF Wake, stateVars, workVars, historyVars, boundVars
<1>8. ASSUME Complete PROVE Cancel
  BY <1>8, GotoFields DEF Complete, stateVars, workVars, historyVars, boundVars,
     Places, At
<1>9. ASSUME Interrupt PROVE Cancel
  BY <1>9, GotoFields DEF Interrupt, stateVars, workVars, historyVars, boundVars,
     Places, At
<1>10. ASSUME LookBehind PROVE Cancel
  BY <1>10, GotoFields DEF LookBehind, stateVars, workVars, historyVars, boundVars,
     Places, At
<1>11. ASSUME Finish PROVE Cancel
  BY <1>11, GotoFields DEF Finish, workVars, historyVars, boundVars, Places, At
<1>12. ASSUME Settle PROVE Cancel
  BY <1>12, NoFields DEF Settle, workVars, historyVars, boundVars, Places, At
<1>13. ASSUME Acquire PROVE Cancel
  BY <1>13, Acquired, NoFields DEF Acquire, stateVars, workVars, historyVars,
     boundVars, Places
<1>14. ASSUME FailTurn PROVE Cancel
  BY <1>14, GotoFields DEF FailTurn, stateVars, workVars, Fail, Places, At
<1>15. ASSUME FailStart PROVE Cancel
  BY <1>15, GotoFields DEF FailStart, workVars, Fail, Places, At
<1>16. ASSUME Schedule PROVE Cancel
  BY <1>16 DEF Schedule, workVars, boundVars, TakeIfArmed
<1>17. ASSUME Cancel PROVE Cancel
  BY <1>17
<1>18. ASSUME NEW t \in Results, Spawn(t) PROVE Cancel
  BY <1>18 DEF Spawn, stateVars, historyVars, boundVars
<1>19. ASSUME NEW t \in Results, Route(t) PROVE Cancel
  BY <1>19 DEF Route, stateVars, historyVars, boundVars
<1>20. ASSUME NEW t \in Results, NotifyScheduler(t) PROVE Cancel
  BY <1>20 DEF NotifyScheduler, stateVars, historyVars, boundVars
<1>21. ASSUME NEW c \in Crons, FireCron(c) PROVE Cancel
  BY <1>21 DEF FireCron, historyVars, boundVars
<1>22. ASSUME NEW p \in Prompts, Submit(p) PROVE Cancel
  BY <1>22 DEF Submit, workVars, historyVars, boundVars
<1>23. ASSUME NEW p \in Prompts, LookAtIdle(p) PROVE Cancel
  BY <1>23 DEF LookAtIdle, stateVars, workVars, historyVars, boundVars
<1>24. ASSUME NEW p \in Prompts, Inject(p) PROVE Cancel
  BY <1>24 DEF Inject, stateVars, boundVars
<1>25. ASSUME NEW p \in Prompts, Refuse(p) PROVE Cancel
  BY <1>25 DEF Refuse, stateVars, workVars, Fail
<1>26. CASE UNCHANGED vars
  BY <1>26 DEF vars, Fail, TakeIfArmed
<1> QED
  BY <1>1, <1>2, <1>3, <1>4, <1>5, <1>6, <1>7, <1>8, <1>9, <1>10, <1>11, <1>12,
     <1>13, <1>14, <1>15, <1>16, <1>17, <1>18, <1>19, <1>20, <1>21, <1>22, <1>23,
     <1>24, <1>25, <1>26 DEF Next, TurnStep, TaskStep, PromptStep

\* A cancel that does not excuse what is left has met another turn than a continuation,
\* and arms.
LEMMA CancelArmsTurn ==
  ASSUME TypeOK, TurnOK, Cancel, ~excused'
  PROVE  armed' /\ turn.kind # "continuation"
<1>0. MarksFollowTurn /\ turn \in Turns
  BY DEF TypeOK
<1>1. turn.kind # "continuation"
  BY DEF Cancel
<1>2. ~inFlight
  BY <1>0, <1>1 DEF MarksFollowTurn
<1> QED
  BY <1>1, <1>2 DEF Cancel, CancelArms

\* A cancelled turn has left the cancel armed, or what came of it.
LEMMA CancelAnsweredStep ==
  ASSUME TypeOK, TurnOK, CancelAnswered, [Next]_vars
  PROVE  CancelAnswered'
<1>0. turn \in Turns
  BY DEF TypeOK
<1> SUFFICES ASSUME turn'.cancelled, ~excused', ~spent'
             PROVE  Answered'
  BY DEF CancelAnswered
<1>1. CASE Drain
  BY <1>1 DEF Drain
<1>2. CASE turn.cancelled /\ ~Drain
  <2>1. Answered
    BY <1>2, ExcusesKept DEF CancelAnswered
  <2> QED
    BY <2>1, <1>2, AnsweredKept DEF JoinsLoop, JoinsNew, Answers
<1>3. CASE ~turn.cancelled
  <2>1. Cancel
    BY <1>0, <1>3, OnlyCancelCancels
  <2> QED
    BY <2>1, CancelArmsTurn DEF Answered
<1> QED
  BY <1>1, <1>2, <1>3

\* An agent becomes active by its spawn alone.
LEMMA ActiveBefore ==
  ASSUME TypeOK, [Next]_vars, NEW u \in Results, Active(u)'
  PROVE  Active(u) \/ Spawn(u)
<1>0. task \in [Results -> {"none", "running", "routed", "done"}]
  BY DEF TypeOK
<1> USE <1>0 DEF Active
<1>1. ASSUME Admit PROVE Active(u) \/ Spawn(u)
  BY <1>1 DEF Admit, stateVars, workVars, boundVars
<1>2. ASSUME Mark PROVE Active(u) \/ Spawn(u)
  BY <1>2 DEF Mark, workVars, historyVars, boundVars
<1>3. ASSUME Register PROVE Active(u) \/ Spawn(u)
  BY <1>3 DEF Register, workVars, historyVars, boundVars
<1>4. ASSUME Open PROVE Active(u) \/ Spawn(u)
  BY <1>4 DEF Open, stateVars, historyVars, boundVars
<1>5. ASSUME Drain PROVE Active(u) \/ Spawn(u)
  BY <1>5 DEF Drain, stateVars, boundVars
<1>6. ASSUME Suspend PROVE Active(u) \/ Spawn(u)
  BY <1>6 DEF Suspend, stateVars, workVars, historyVars, boundVars
<1>7. ASSUME Wake PROVE Active(u) \/ Spawn(u)
  BY <1>7 DEF Wake, stateVars, workVars, historyVars, boundVars
<1>8. ASSUME Complete PROVE Active(u) \/ Spawn(u)
  BY <1>8 DEF Complete, stateVars, workVars, historyVars, boundVars
<1>9. ASSUME Interrupt PROVE Active(u) \/ Spawn(u)
  BY <1>9 DEF Interrupt, stateVars, workVars, historyVars, boundVars
<1>10. ASSUME LookBehind PROVE Active(u) \/ Spawn(u)
  BY <1>10 DEF LookBehind, stateVars, workVars, historyVars, boundVars
<1>11. ASSUME Finish PROVE Active(u) \/ Spawn(u)
  BY <1>11 DEF Finish, workVars, historyVars, boundVars
<1>12. ASSUME Settle PROVE Active(u) \/ Spawn(u)
  BY <1>12 DEF Settle, workVars, historyVars, boundVars
<1>13. ASSUME Acquire PROVE Active(u) \/ Spawn(u)
  BY <1>13 DEF Acquire, stateVars, workVars, historyVars, boundVars
<1>14. ASSUME FailTurn PROVE Active(u) \/ Spawn(u)
  BY <1>14 DEF FailTurn, stateVars, workVars, Fail
<1>15. ASSUME FailStart PROVE Active(u) \/ Spawn(u)
  BY <1>15 DEF FailStart, workVars, Fail
<1>16. ASSUME Schedule PROVE Active(u) \/ Spawn(u)
  BY <1>16 DEF Schedule, workVars, boundVars, TakeIfArmed
<1>17. ASSUME Cancel PROVE Active(u) \/ Spawn(u)
  BY <1>17 DEF Cancel, workVars
<1>18. ASSUME NEW t \in Results, Spawn(t) PROVE Active(u) \/ Spawn(u)
  <2>1. task' = [task EXCEPT ![t] = "running"]
    BY <1>18 DEF Spawn
  <2>2. CASE t = u
    BY <1>18, <2>2
  <2>3. CASE t # u
    BY <2>1, <2>3
  <2> QED
    BY <2>2, <2>3
<1>19. ASSUME NEW t \in Results, Route(t) PROVE Active(u) \/ Spawn(u)
  BY <1>19 DEF Route, stateVars, historyVars, boundVars
<1>20. ASSUME NEW t \in Results, NotifyScheduler(t) PROVE Active(u) \/ Spawn(u)
  BY <1>20 DEF NotifyScheduler, stateVars, historyVars, boundVars
<1>21. ASSUME NEW c \in Crons, FireCron(c) PROVE Active(u) \/ Spawn(u)
  BY <1>21 DEF FireCron, historyVars, boundVars
<1>22. ASSUME NEW p \in Prompts, Submit(p) PROVE Active(u) \/ Spawn(u)
  BY <1>22 DEF Submit, workVars, historyVars, boundVars
<1>23. ASSUME NEW p \in Prompts, LookAtIdle(p) PROVE Active(u) \/ Spawn(u)
  BY <1>23 DEF LookAtIdle, stateVars, workVars, historyVars, boundVars
<1>24. ASSUME NEW p \in Prompts, Inject(p) PROVE Active(u) \/ Spawn(u)
  BY <1>24 DEF Inject, stateVars, boundVars
<1>25. ASSUME NEW p \in Prompts, Refuse(p) PROVE Active(u) \/ Spawn(u)
  BY <1>25 DEF Refuse, stateVars, workVars, Fail
<1>26. CASE UNCHANGED vars
  BY <1>26 DEF vars, Fail, TakeIfArmed
<1> QED
  BY <1>1, <1>2, <1>3, <1>4, <1>5, <1>6, <1>7, <1>8, <1>9, <1>10, <1>11, <1>12,
     <1>13, <1>14, <1>15, <1>16, <1>17, <1>18, <1>19, <1>20, <1>21, <1>22, <1>23,
     <1>24, <1>25, <1>26 DEF Next, TurnStep, TaskStep, PromptStep

\* A turn that was not cancelled completes only when no agent is active.
LEMMA EndsAloneStep ==
  ASSUME TypeOK, TurnOK, EndsAlone, [Next]_vars
  PROVE  EndsAlone'
<1>0. turn \in Turns /\ MarksFollowTurn /\ chan \in Seq(Requests)
      /\ waiting \in [Epochs -> Nat] /\ epoch \in Epochs /\ takes \in Nat
      /\ prompt \in [Prompts -> {"new", "bumped", "injecting", "waiting", "done"}]
      /\ task \in [Results -> {"none", "running", "routed", "done"}]
  BY DEF TypeOK
<1> USE <1>0
<1> SUFFICES ASSUME turn'.at \in {"looked", "ended", "settling"}, ~turn'.cancelled, ~excused',
                    NEW u \in Results, Active(u)'
             PROVE  FALSE
  BY DEF EndsAlone
<1>a. ~Spawn(u)
  BY DEF Spawn, At
<1>b. Active(u)
  BY <1>a, ActiveBefore
<1>c. ~Drain
  BY DEF Drain, At
<1>d. ~excused
  BY <1>c, ExcusesKept
<1>e. ~(turn.at \in {"looked", "ended", "settling"} /\ ~turn.cancelled)
  BY <1>b, <1>d DEF EndsAlone
<1> USE <1>b, <1>e
<1>1. ASSUME Admit PROVE FALSE
  BY <1>1, GotoFields, NoFields DEF Admit, stateVars, workVars, boundVars, Places,
     At
<1>2. ASSUME Mark PROVE FALSE
  BY <1>2, GotoFields DEF Mark, workVars, historyVars, boundVars, Places, At
<1>3. ASSUME Register PROVE FALSE
  BY <1>3, GotoFields DEF Register, workVars, historyVars, boundVars, Places, At
<1>4. ASSUME Open PROVE FALSE
  BY <1>4, GotoFields DEF Open, stateVars, historyVars, boundVars, Places, At
<1>5. ASSUME Drain PROVE FALSE
  BY <1>5 DEF Drain, stateVars, boundVars
<1>6. ASSUME Suspend PROVE FALSE
  BY <1>6 DEF Suspend, stateVars, workVars, historyVars, boundVars
<1>7. ASSUME Wake PROVE FALSE
  BY <1>7 DEF Wake, stateVars, workVars, historyVars, boundVars
<1>8. ASSUME Complete PROVE FALSE
  BY <1>8, GotoFields DEF Complete, stateVars, workVars, historyVars, boundVars,
     Places, At
<1>9. ASSUME Interrupt PROVE FALSE
  BY <1>9, GotoFields DEF Interrupt, stateVars, workVars, historyVars, boundVars,
     Places, At
<1>10. ASSUME LookBehind PROVE FALSE
  BY <1>10, GotoFields DEF LookBehind, stateVars, workVars, historyVars, boundVars,
     Places, At
<1>11. ASSUME Finish PROVE FALSE
  BY <1>11, GotoFields DEF Finish, workVars, historyVars, boundVars, Places, At
<1>12. ASSUME Settle PROVE FALSE
  BY <1>12, NoFields DEF Settle, workVars, historyVars, boundVars, Places, At
<1>13. ASSUME Acquire PROVE FALSE
  BY <1>13, Acquired, NoFields DEF Acquire, stateVars, workVars, historyVars,
     boundVars, Places
<1>14. ASSUME FailTurn PROVE FALSE
  BY <1>14, GotoFields DEF FailTurn, stateVars, workVars, Fail, Places, At
<1>15. ASSUME FailStart PROVE FALSE
  BY <1>15, GotoFields DEF FailStart, workVars, Fail, Places, At
<1>16. ASSUME Schedule PROVE FALSE
  BY <1>16 DEF Schedule, workVars, boundVars, TakeIfArmed
<1>17. ASSUME Cancel PROVE FALSE
  BY <1>17, CancelFields DEF Cancel, workVars, Places
<1>18. ASSUME NEW t \in Results, Spawn(t) PROVE FALSE
  <2>1. turn' = turn /\ turn.at = "loop"
    BY <1>18 DEF Spawn, At
  <2> QED
    BY <2>1
<1>19. ASSUME NEW t \in Results, Route(t) PROVE FALSE
  BY <1>19 DEF Route, stateVars, historyVars, boundVars
<1>20. ASSUME NEW t \in Results, NotifyScheduler(t) PROVE FALSE
  BY <1>20 DEF NotifyScheduler, stateVars, historyVars, boundVars
<1>21. ASSUME NEW c \in Crons, FireCron(c) PROVE FALSE
  BY <1>21 DEF FireCron, historyVars, boundVars
<1>22. ASSUME NEW p \in Prompts, Submit(p) PROVE FALSE
  BY <1>22 DEF Submit, workVars, historyVars, boundVars
<1>23. ASSUME NEW p \in Prompts, LookAtIdle(p) PROVE FALSE
  BY <1>23 DEF LookAtIdle, stateVars, workVars, historyVars, boundVars
<1>24. ASSUME NEW p \in Prompts, Inject(p) PROVE FALSE
  BY <1>24 DEF Inject, stateVars, boundVars
<1>25. ASSUME NEW p \in Prompts, Refuse(p) PROVE FALSE
  BY <1>25 DEF Refuse, stateVars, workVars, Fail
<1>26. CASE UNCHANGED vars
  BY <1>26 DEF vars, Fail, TakeIfArmed
<1> QED
  BY <1>1, <1>2, <1>3, <1>4, <1>5, <1>6, <1>7, <1>8, <1>9, <1>10, <1>11, <1>12,
     <1>13, <1>14, <1>15, <1>16, <1>17, <1>18, <1>19, <1>20, <1>21, <1>22, <1>23,
     <1>24, <1>25, <1>26 DEF Next, TurnStep, TaskStep, PromptStep

\* A turn that has a Receive before it keeps it, or a cancel is armed, or a prompt
\* comes, or it completes, or the continuation gives the lock back.
LEMMA EarlyKept ==
  ASSUME TypeOK, TurnOK, Early, ~turn.cancelled, Current, ~excused', [Next]_vars
  PROVE  \/ Early' /\ ~turn'.cancelled /\ Current' /\ (Admitting' => Admitting)
         \/ Answered'
         \/ Complete
         \/ Admitting /\ turn' = NoTurn /\ Admit
<1>0. turn \in Turns /\ MarksFollowTurn /\ chan \in Seq(Requests)
      /\ waiting \in [Epochs -> Nat] /\ epoch \in Epochs /\ takes \in Nat
      /\ prompt \in [Prompts -> {"new", "bumped", "injecting", "waiting", "done"}]
      /\ task \in [Results -> {"none", "running", "routed", "done"}]
  BY DEF TypeOK
<1> USE <1>0
<1>a. ASSUME turn' = turn, epoch' = epoch
      PROVE  Early' /\ ~turn'.cancelled /\ Current' /\ (Admitting' => Admitting)
  BY <1>a DEF Early, Current, Admitting
<1>b. ASSUME turn'.cancelled = turn.cancelled,
             turn'.at \in {"marking", "starting", "opening", "loop"}
      PROVE  Early' /\ ~turn'.cancelled /\ Current' /\ (Admitting' => Admitting)
  BY <1>b DEF Early, Current, Admitting
<1>1. ASSUME Admit
      PROVE (Early' /\ ~turn'.cancelled /\ Current' /\ (Admitting' => Admitting))
        \/ Answered' \/ Complete \/ (Admitting /\ turn' = NoTurn /\ Admit)
  <2>1. CASE Goto("starting") \/ Goto("marking")
    <3>1. turn'.cancelled = turn.cancelled /\ turn'.at \in {"starting", "marking"}
      BY <2>1, GotoFields DEF Places
    <3> QED
      BY <3>1, <1>b
  <2>2. CASE turn.kind = "continuation" /\ turn' = NoTurn
    BY <1>1, <2>2 DEF Admit, Admitting, At
  <2> QED
    BY <1>1, <2>1, <2>2 DEF Admit
<1>2. ASSUME Mark
      PROVE (Early' /\ ~turn'.cancelled /\ Current' /\ (Admitting' => Admitting))
        \/ Answered' \/ Complete \/ (Admitting /\ turn' = NoTurn /\ Admit)
  <2>1. turn'.cancelled = turn.cancelled /\ turn'.at \in {"starting", "opening", "loop"}
    BY <1>2, GotoFields DEF Mark, Places
  <2> QED
    BY <2>1, <1>b
<1>3. ASSUME Register
      PROVE (Early' /\ ~turn'.cancelled /\ Current' /\ (Admitting' => Admitting))
        \/ Answered' \/ Complete \/ (Admitting /\ turn' = NoTurn /\ Admit)
  <2>1. turn'.cancelled = turn.cancelled /\ turn'.at \in {"starting", "opening", "loop"}
    BY <1>3, GotoFields DEF Register, Places
  <2> QED
    BY <2>1, <1>b
<1>4. ASSUME Open
      PROVE (Early' /\ ~turn'.cancelled /\ Current' /\ (Admitting' => Admitting))
        \/ Answered' \/ Complete \/ (Admitting /\ turn' = NoTurn /\ Admit)
  <2>1. turn'.cancelled = turn.cancelled /\ turn'.at \in {"starting", "opening", "loop"}
    BY <1>4, GotoFields DEF Open, Places
  <2> QED
    BY <2>1, <1>b
<1>5. ASSUME Drain
      PROVE (Early' /\ ~turn'.cancelled /\ Current' /\ (Admitting' => Admitting))
        \/ Answered' \/ Complete \/ (Admitting /\ turn' = NoTurn /\ Admit)
  <2>1. turn' = turn /\ epoch' = epoch
    BY <1>5 DEF Drain, stateVars, boundVars
  <2> QED
    BY <2>1, <1>a
<1>6. ASSUME Suspend
      PROVE (Early' /\ ~turn'.cancelled /\ Current' /\ (Admitting' => Admitting))
        \/ Answered' \/ Complete \/ (Admitting /\ turn' = NoTurn /\ Admit)
  <2>1. turn' = turn /\ epoch' = epoch
    BY <1>6 DEF Suspend, stateVars, workVars, historyVars, boundVars
  <2> QED
    BY <2>1, <1>a
<1>7. ASSUME Wake
      PROVE (Early' /\ ~turn'.cancelled /\ Current' /\ (Admitting' => Admitting))
        \/ Answered' \/ Complete \/ (Admitting /\ turn' = NoTurn /\ Admit)
  <2>1. turn' = turn /\ epoch' = epoch
    BY <1>7 DEF Wake, stateVars, workVars, historyVars, boundVars
  <2> QED
    BY <2>1, <1>a
<1>8. ASSUME Complete
      PROVE (Early' /\ ~turn'.cancelled /\ Current' /\ (Admitting' => Admitting))
        \/ Answered' \/ Complete \/ (Admitting /\ turn' = NoTurn /\ Admit)
  BY <1>8
<1>9. ASSUME Interrupt
      PROVE (Early' /\ ~turn'.cancelled /\ Current' /\ (Admitting' => Admitting))
        \/ Answered' \/ Complete \/ (Admitting /\ turn' = NoTurn /\ Admit)
  BY <1>9 DEF Interrupt
<1>10. ASSUME LookBehind
       PROVE (Early' /\ ~turn'.cancelled /\ Current' /\ (Admitting' => Admitting))
        \/ Answered' \/ Complete \/ (Admitting /\ turn' = NoTurn /\ Admit)
  BY <1>10 DEF LookBehind, At, Early
<1>11. ASSUME Finish
       PROVE (Early' /\ ~turn'.cancelled /\ Current' /\ (Admitting' => Admitting))
        \/ Answered' \/ Complete \/ (Admitting /\ turn' = NoTurn /\ Admit)
  BY <1>11 DEF Finish, At, Early
<1>12. ASSUME Settle
       PROVE (Early' /\ ~turn'.cancelled /\ Current' /\ (Admitting' => Admitting))
        \/ Answered' \/ Complete \/ (Admitting /\ turn' = NoTurn /\ Admit)
  BY <1>12 DEF Settle, At, Early
<1>13. ASSUME Acquire
       PROVE (Early' /\ ~turn'.cancelled /\ Current' /\ (Admitting' => Admitting))
        \/ Answered' \/ Complete \/ (Admitting /\ turn' = NoTurn /\ Admit)
  <2>1. turn.at = "none"
    BY <1>13, NoFields DEF Acquire
  <2> QED
    BY <2>1 DEF Early
<1>14. ASSUME FailTurn
       PROVE (Early' /\ ~turn'.cancelled /\ Current' /\ (Admitting' => Admitting))
        \/ Answered' \/ Complete \/ (Admitting /\ turn' = NoTurn /\ Admit)
  BY <1>14 DEF FailTurn, Fail
<1>15. ASSUME FailStart
       PROVE (Early' /\ ~turn'.cancelled /\ Current' /\ (Admitting' => Admitting))
        \/ Answered' \/ Complete \/ (Admitting /\ turn' = NoTurn /\ Admit)
  BY <1>15 DEF FailStart, Fail
<1>16. ASSUME Schedule
       PROVE (Early' /\ ~turn'.cancelled /\ Current' /\ (Admitting' => Admitting))
        \/ Answered' \/ Complete \/ (Admitting /\ turn' = NoTurn /\ Admit)
  <2>1. turn' = turn /\ epoch' = epoch
    BY <1>16 DEF Schedule, workVars, boundVars
  <2> QED
    BY <2>1, <1>a
<1>17. ASSUME Cancel
       PROVE (Early' /\ ~turn'.cancelled /\ Current' /\ (Admitting' => Admitting))
        \/ Answered' \/ Complete \/ (Admitting /\ turn' = NoTurn /\ Admit)
  <2>1. Answered'
    BY <1>17, CancelArmsTurn DEF Answered
  <2> QED
    BY <2>1
<1>18. ASSUME NEW t \in Results, Spawn(t)
       PROVE (Early' /\ ~turn'.cancelled /\ Current' /\ (Admitting' => Admitting))
        \/ Answered' \/ Complete \/ (Admitting /\ turn' = NoTurn /\ Admit)
  <2>1. turn' = turn /\ epoch' = epoch
    BY <1>18 DEF Spawn, stateVars, historyVars, boundVars
  <2> QED
    BY <2>1, <1>a
<1>19. ASSUME NEW t \in Results, Route(t)
       PROVE (Early' /\ ~turn'.cancelled /\ Current' /\ (Admitting' => Admitting))
        \/ Answered' \/ Complete \/ (Admitting /\ turn' = NoTurn /\ Admit)
  <2>1. turn' = turn /\ epoch' = epoch
    BY <1>19 DEF Route, stateVars, historyVars, boundVars
  <2> QED
    BY <2>1, <1>a
<1>20. ASSUME NEW t \in Results, NotifyScheduler(t)
       PROVE (Early' /\ ~turn'.cancelled /\ Current' /\ (Admitting' => Admitting))
        \/ Answered' \/ Complete \/ (Admitting /\ turn' = NoTurn /\ Admit)
  <2>1. turn' = turn /\ epoch' = epoch
    BY <1>20 DEF NotifyScheduler, stateVars, historyVars, boundVars
  <2> QED
    BY <2>1, <1>a
<1>21. ASSUME NEW c \in Crons, FireCron(c)
       PROVE (Early' /\ ~turn'.cancelled /\ Current' /\ (Admitting' => Admitting))
        \/ Answered' \/ Complete \/ (Admitting /\ turn' = NoTurn /\ Admit)
  <2>1. turn' = turn /\ epoch' = epoch
    BY <1>21 DEF FireCron, historyVars, boundVars
  <2> QED
    BY <2>1, <1>a
<1>22. ASSUME NEW p \in Prompts, Submit(p)
       PROVE (Early' /\ ~turn'.cancelled /\ Current' /\ (Admitting' => Admitting))
        \/ Answered' \/ Complete \/ (Admitting /\ turn' = NoTurn /\ Admit)
  <2>1. PromptComes'
    BY <1>22 DEF Submit, PromptComes
  <2> QED
    BY <2>1 DEF Answered
<1>23. ASSUME NEW p \in Prompts, LookAtIdle(p)
       PROVE (Early' /\ ~turn'.cancelled /\ Current' /\ (Admitting' => Admitting))
        \/ Answered' \/ Complete \/ (Admitting /\ turn' = NoTurn /\ Admit)
  <2>1. turn' = turn /\ epoch' = epoch
    BY <1>23 DEF LookAtIdle, stateVars, workVars, historyVars, boundVars
  <2> QED
    BY <2>1, <1>a
<1>24. ASSUME NEW p \in Prompts, Inject(p)
       PROVE (Early' /\ ~turn'.cancelled /\ Current' /\ (Admitting' => Admitting))
        \/ Answered' \/ Complete \/ (Admitting /\ turn' = NoTurn /\ Admit)
  <2>1. turn' = turn /\ epoch' = epoch
    BY <1>24 DEF Inject, stateVars, boundVars
  <2> QED
    BY <2>1, <1>a
<1>25. ASSUME NEW p \in Prompts, Refuse(p)
       PROVE (Early' /\ ~turn'.cancelled /\ Current' /\ (Admitting' => Admitting))
        \/ Answered' \/ Complete \/ (Admitting /\ turn' = NoTurn /\ Admit)
  <2>1. turn' = turn /\ epoch' = epoch
    BY <1>25 DEF Refuse, stateVars, workVars
  <2> QED
    BY <2>1, <1>a
<1>26. CASE UNCHANGED vars
  BY <1>26, <1>a DEF vars
<1> QED
  BY <1>1, <1>2, <1>3, <1>4, <1>5, <1>6, <1>7, <1>8, <1>9, <1>10, <1>11, <1>12,
     <1>13, <1>14, <1>15, <1>16, <1>17, <1>18, <1>19, <1>20, <1>21, <1>22, <1>23,
     <1>24, <1>25, <1>26 DEF Next, TurnStep, TaskStep, PromptStep

\* Continuations that were caused stay counted.
LEMMA TakesGrow ==
  ASSUME TypeOK, [Next]_vars
  PROVE  takes <= takes' /\ takes' \in Nat /\ takes \in Nat
<1>0. takes \in Nat
  BY DEF TypeOK
<1> USE <1>0
<1>1. ASSUME Admit PROVE takes <= takes' /\ takes' \in Nat /\ takes \in Nat
  BY <1>1 DEF Admit, stateVars, workVars, boundVars
<1>2. ASSUME Mark PROVE takes <= takes' /\ takes' \in Nat /\ takes \in Nat
  BY <1>2 DEF Mark, workVars, historyVars, boundVars
<1>3. ASSUME Register PROVE takes <= takes' /\ takes' \in Nat /\ takes \in Nat
  BY <1>3 DEF Register, workVars, historyVars, boundVars
<1>4. ASSUME Open PROVE takes <= takes' /\ takes' \in Nat /\ takes \in Nat
  BY <1>4 DEF Open, stateVars, historyVars, boundVars
<1>5. ASSUME Drain PROVE takes <= takes' /\ takes' \in Nat /\ takes \in Nat
  BY <1>5 DEF Drain, stateVars, boundVars
<1>6. ASSUME Suspend PROVE takes <= takes' /\ takes' \in Nat /\ takes \in Nat
  BY <1>6 DEF Suspend, stateVars, workVars, historyVars, boundVars
<1>7. ASSUME Wake PROVE takes <= takes' /\ takes' \in Nat /\ takes \in Nat
  BY <1>7 DEF Wake, stateVars, workVars, historyVars, boundVars
<1>8. ASSUME Complete PROVE takes <= takes' /\ takes' \in Nat /\ takes \in Nat
  BY <1>8 DEF Complete, stateVars, workVars, historyVars, boundVars
<1>9. ASSUME Interrupt PROVE takes <= takes' /\ takes' \in Nat /\ takes \in Nat
  BY <1>9 DEF Interrupt, stateVars, workVars, historyVars, boundVars
<1>10. ASSUME LookBehind PROVE takes <= takes' /\ takes' \in Nat /\ takes \in Nat
  BY <1>10 DEF LookBehind, stateVars, workVars, historyVars, boundVars
<1>11. ASSUME Finish PROVE takes <= takes' /\ takes' \in Nat /\ takes \in Nat
  BY <1>11 DEF Finish, workVars, historyVars, boundVars
<1>12. ASSUME Settle PROVE takes <= takes' /\ takes' \in Nat /\ takes \in Nat
  BY <1>12 DEF Settle, workVars, historyVars, boundVars
<1>13. ASSUME Acquire PROVE takes <= takes' /\ takes' \in Nat /\ takes \in Nat
  BY <1>13 DEF Acquire, stateVars, workVars, historyVars, boundVars
<1>14. ASSUME FailTurn PROVE takes <= takes' /\ takes' \in Nat /\ takes \in Nat
  BY <1>14 DEF FailTurn, stateVars, workVars, Fail
<1>15. ASSUME FailStart PROVE takes <= takes' /\ takes' \in Nat /\ takes \in Nat
  BY <1>15 DEF FailStart, workVars, Fail
<1>16. ASSUME Schedule PROVE takes <= takes' /\ takes' \in Nat /\ takes \in Nat
  BY <1>16 DEF Schedule, TakeIfArmed
<1>17. ASSUME Cancel PROVE takes <= takes' /\ takes' \in Nat /\ takes \in Nat
  BY <1>17 DEF Cancel, workVars
<1>18. ASSUME NEW t \in Results, Spawn(t)
       PROVE takes <= takes' /\ takes' \in Nat /\ takes \in Nat
  BY <1>18 DEF Spawn, stateVars, historyVars, boundVars
<1>19. ASSUME NEW t \in Results, Route(t)
       PROVE takes <= takes' /\ takes' \in Nat /\ takes \in Nat
  BY <1>19 DEF Route, stateVars, historyVars, boundVars
<1>20. ASSUME NEW t \in Results, NotifyScheduler(t)
       PROVE takes <= takes' /\ takes' \in Nat /\ takes \in Nat
  BY <1>20 DEF NotifyScheduler, stateVars, historyVars, boundVars
<1>21. ASSUME NEW c \in Crons, FireCron(c)
       PROVE takes <= takes' /\ takes' \in Nat /\ takes \in Nat
  BY <1>21 DEF FireCron, historyVars, boundVars
<1>22. ASSUME NEW p \in Prompts, Submit(p)
       PROVE takes <= takes' /\ takes' \in Nat /\ takes \in Nat
  BY <1>22 DEF Submit, workVars, historyVars, boundVars
<1>23. ASSUME NEW p \in Prompts, LookAtIdle(p)
       PROVE takes <= takes' /\ takes' \in Nat /\ takes \in Nat
  BY <1>23 DEF LookAtIdle, stateVars, workVars, historyVars, boundVars
<1>24. ASSUME NEW p \in Prompts, Inject(p)
       PROVE takes <= takes' /\ takes' \in Nat /\ takes \in Nat
  BY <1>24 DEF Inject, stateVars, boundVars
<1>25. ASSUME NEW p \in Prompts, Refuse(p)
       PROVE takes <= takes' /\ takes' \in Nat /\ takes \in Nat
  BY <1>25 DEF Refuse, stateVars, workVars, Fail
<1>26. CASE UNCHANGED vars
  BY <1>26 DEF vars, Fail
<1> QED
  BY <1>1, <1>2, <1>3, <1>4, <1>5, <1>6, <1>7, <1>8, <1>9, <1>10, <1>11, <1>12,
     <1>13, <1>14, <1>15, <1>16, <1>17, <1>18, <1>19, <1>20, <1>21, <1>22, <1>23,
     <1>24, <1>25, <1>26 DEF Next, TurnStep, TaskStep, PromptStep

\* While an agent is active, its turn still receives, or the cancel of that turn is
\* armed, or what came of the cancel is under way.
LEMMA ActiveAwaitedStep ==
  ASSUME TypeOK, TurnOK, CancelAnswered, EndsAlone, ActiveAwaited, [Next]_vars
  PROVE  ActiveAwaited'
<1>0. turn \in Turns /\ MarksFollowTurn /\ chan \in Seq(Requests)
      /\ waiting \in [Epochs -> Nat] /\ epoch \in Epochs /\ takes \in Nat
      /\ prompt \in [Prompts -> {"new", "bumped", "injecting", "waiting", "done"}]
      /\ task \in [Results -> {"none", "running", "routed", "done"}]
  BY DEF TypeOK
<1> USE <1>0
<1> SUFFICES ASSUME NEW u \in Results, Active(u)', ~excused', ~spent', ~Answered'
             PROVE  Early' /\ ~turn'.cancelled /\ Current' /\ (Admitting' => takes' > 0)
  BY DEF ActiveAwaited
<1>1. CASE Drain
  BY <1>1 DEF Drain, At, Early, Current, Admitting
<1>2. CASE \E t \in Results : Spawn(t)
  <2>1. /\ turn' = turn /\ turn.at = "loop" /\ spent' = spent /\ excused' = excused
        /\ epoch' = epoch /\ armed' = armed /\ waiting' = waiting /\ takes' = takes
        /\ prompt' = prompt
    BY <1>2 DEF Spawn, At, stateVars, historyVars
  <2>2. ~Answered
    BY <2>1, FrameAnswered
  <2>3. ~turn.cancelled
    BY <2>1, <2>2 DEF CancelAnswered
  <2> QED
    BY <2>1, <2>3 DEF Early, Current, Admitting
<1>3. CASE ~Drain /\ ~\E t \in Results : Spawn(t)
  <2>1. Active(u) /\ ~excused /\ ~spent
    BY <1>3, ActiveBefore, ExcusesKept
  <2>2. CASE Answered
    <3>1. JoinsLoop \/ Answers \/ JoinsNew
      BY <2>2, AnsweredKept
    <3>2. CASE JoinsLoop
      <4>1. turn.at = "loop"
        BY <3>2, <2>1 DEF JoinsLoop, EndsAlone
      <4> QED
        BY <3>2, <4>1 DEF JoinsLoop, Early, Current, Admitting
    <3>3. CASE Answers
      BY <3>3 DEF Answers, Early, Current, Admitting
    <3>4. CASE JoinsNew
      BY <3>4 DEF JoinsNew, Early, Current, Admitting
    <3> QED
      BY <3>1, <3>2, <3>3, <3>4
  <2>3. CASE ~Answered
    <3>1. Early /\ ~turn.cancelled /\ Current /\ (Admitting => takes > 0)
      BY <2>1, <2>3 DEF ActiveAwaited
    <3>2. ~Complete
      <4>1. Complete => Active(u)' = Active(u)
        BY DEF Complete, workVars, Active
      <4> QED
        BY <2>1 DEF Complete
    <3>3. ~(Admitting /\ turn' = NoTurn /\ Admit)
      BY <3>1 DEF Admit, Admitting, Current
    <3>4. Early' /\ ~turn'.cancelled /\ Current' /\ (Admitting' => Admitting)
      BY <3>1, <3>2, <3>3, EarlyKept
    <3>5. takes <= takes'
      BY TakesGrow
    <3> QED
      BY <3>1, <3>4, <3>5, TakesGrow
  <2> QED
    BY <2>2, <2>3
<1> QED
  BY <1>1, <1>2, <1>3

\* A result comes into the queue by its callback alone.
LEMMA ResultsOnlyRouted ==
  ASSUME turn \in Turns, [Next]_vars, ~\E t \in Results : Route(t), HasAgentResult'
  PROVE  HasAgentResult
<1> USE DEF HasAgentResult
<1>1. ASSUME Admit PROVE HasAgentResult
  BY <1>1 DEF Admit, stateVars, workVars, boundVars
<1>2. ASSUME Mark PROVE HasAgentResult
  BY <1>2 DEF Mark, workVars, historyVars, boundVars
<1>3. ASSUME Register PROVE HasAgentResult
  BY <1>3 DEF Register, workVars, historyVars, boundVars
<1>4. ASSUME Open PROVE HasAgentResult
  BY <1>4, ContinuationAssumption DEF Open, Turns
<1>5. ASSUME Drain PROVE HasAgentResult
  BY <1>5 DEF Drain, stateVars, boundVars
<1>6. ASSUME Suspend PROVE HasAgentResult
  BY <1>6 DEF Suspend, stateVars, workVars, historyVars, boundVars
<1>7. ASSUME Wake PROVE HasAgentResult
  BY <1>7 DEF Wake, stateVars, workVars, historyVars, boundVars
<1>8. ASSUME Complete PROVE HasAgentResult
  BY <1>8 DEF Complete, stateVars, workVars, historyVars, boundVars
<1>9. ASSUME Interrupt PROVE HasAgentResult
  BY <1>9 DEF Interrupt, stateVars, workVars, historyVars, boundVars
<1>10. ASSUME LookBehind PROVE HasAgentResult
  BY <1>10 DEF LookBehind, stateVars, workVars, historyVars, boundVars
<1>11. ASSUME Finish PROVE HasAgentResult
  BY <1>11 DEF Finish, workVars, historyVars, boundVars
<1>12. ASSUME Settle PROVE HasAgentResult
  BY <1>12 DEF Settle, workVars, historyVars, boundVars
<1>13. ASSUME Acquire PROVE HasAgentResult
  BY <1>13 DEF Acquire, stateVars, workVars, historyVars, boundVars
<1>14. ASSUME FailTurn PROVE HasAgentResult
  BY <1>14 DEF FailTurn, stateVars, workVars, Fail
<1>15. ASSUME FailStart PROVE HasAgentResult
  BY <1>15 DEF FailStart, workVars, Fail
<1>16. ASSUME Schedule PROVE HasAgentResult
  BY <1>16 DEF Schedule, workVars, boundVars, TakeIfArmed
<1>17. ASSUME Cancel PROVE HasAgentResult
  BY <1>17 DEF Cancel, workVars
<1>18. ASSUME NEW t \in Results, Spawn(t) PROVE HasAgentResult
  BY <1>18 DEF Spawn, stateVars, historyVars, boundVars
<1>19. ASSUME NEW t \in Results, Route(t) PROVE HasAgentResult
  BY <1>19
<1>20. ASSUME NEW t \in Results, NotifyScheduler(t) PROVE HasAgentResult
  BY <1>20 DEF NotifyScheduler, stateVars, historyVars, boundVars
<1>21. ASSUME NEW c \in Crons, FireCron(c) PROVE HasAgentResult
  BY <1>21, ContinuationAssumption DEF FireCron
<1>22. ASSUME NEW p \in Prompts, Submit(p) PROVE HasAgentResult
  BY <1>22 DEF Submit, workVars, historyVars, boundVars
<1>23. ASSUME NEW p \in Prompts, LookAtIdle(p) PROVE HasAgentResult
  BY <1>23 DEF LookAtIdle, stateVars, workVars, historyVars, boundVars
<1>24. ASSUME NEW p \in Prompts, Inject(p) PROVE HasAgentResult
  BY <1>24, ContinuationAssumption DEF Inject
<1>25. ASSUME NEW p \in Prompts, Refuse(p) PROVE HasAgentResult
  BY <1>25 DEF Refuse, stateVars, workVars, Fail
<1>26. CASE UNCHANGED vars
  BY <1>26 DEF vars, Fail, TakeIfArmed
<1> QED
  BY <1>1, <1>2, <1>3, <1>4, <1>5, <1>6, <1>7, <1>8, <1>9, <1>10, <1>11, <1>12,
     <1>13, <1>14, <1>15, <1>16, <1>17, <1>18, <1>19, <1>20, <1>21, <1>22, <1>23,
     <1>24, <1>25, <1>26 DEF Next, TurnStep, TaskStep, PromptStep

\* A step that takes away none of the takers of a result keeps the claim.
LEMMA FrameAsked ==
  ASSUME Asked, prompt' = prompt, epoch' = epoch, waiting' = waiting, armed => armed',
         pending' = pending, \A r \in Requests : Sent(r) => Sent(r)',
         turn.at = "ended" => turn'.at \in {"ended", "settling"},
         turn.at = "settling" => turn'.at = "settling",
         \A t \in Results : task[t] = "routed" =>
           task'[t] = "routed" \/ Sent("agent")'
  PROVE  Asked'
BY DEF Asked, PromptComes, Called, Requests

\* What will take a result that waits stays, or hands over to the next taker, unless
\* the queue is drained.
LEMMA AskedKept ==
  ASSUME TypeOK, TurnOK, CancelledContinuation, Asked \/ Receives, [Next]_vars,
         HasAgentResult', ~excused', ~excused, ~Drain
  PROVE  Asked' \/ Receives'
<1>0. turn \in Turns /\ MarksFollowTurn /\ chan \in Seq(Requests)
      /\ waiting \in [Epochs -> Nat] /\ epoch \in Epochs /\ takes \in Nat
      /\ prompt \in [Prompts -> {"new", "bumped", "injecting", "waiting", "done"}]
      /\ task \in [Results -> {"none", "running", "routed", "done"}]
  BY DEF TypeOK
<1> USE <1>0
<1>00. Asked \/ Receives
  OBVIOUS
<1> USE <1>00
<1>1. ASSUME Admit PROVE Asked' \/ Receives'
  <2>1. /\ epoch' = epoch /\ chan' = chan /\ prompt' = prompt /\ waiting' = waiting
        /\ armed' = armed /\ pending' = pending /\ task' = task /\ queue' = queue
        /\ turn.at = "admitting"
    BY <1>1 DEF Admit, workVars, stateVars, At
  <2>2. CASE Asked
    <3> QED
      BY <2>1, <2>2, SentSame, FrameAsked
  <2>3. CASE Receives
    <3>1. CASE Goto("starting") \/ Goto("marking")
      BY <2>1, <2>3, <3>1, GotoFields DEF Receives, Early, Current, Admitting,
         Places
    <3>2. CASE turn.kind = "continuation" /\ ~Dispatchable(turn.epoch)
      BY <2>1, <2>3, <3>2 DEF Dispatchable, HasMessages, HasAgentResult, Receives,
         Current, Admitting
    <3> QED
      BY <1>1, <3>1, <3>2 DEF Admit
  <2> QED
    BY <2>2, <2>3
<1>2. ASSUME Mark PROVE Asked' \/ Receives'
  <2>1. /\ turn'.at = "starting" /\ turn.at = "marking" /\ turn'.cancelled = turn.cancelled
        /\ turn'.kind = turn.kind
    BY <1>2, GotoFields DEF Mark, At, Places
  <2>2. /\ prompt' = prompt /\ epoch' = epoch /\ waiting' = waiting /\ armed' = armed
        /\ chan' = chan /\ task' = task
    BY <1>2 DEF Mark, workVars, historyVars, boundVars
  <2>3. CASE Asked
    BY <2>1, <2>2, <2>3, SentSame DEF Asked, PromptComes, Called
  <2>4. CASE Receives
    BY <2>1, <2>2, <2>4 DEF Receives, Early, Current, Admitting
  <2> QED
    BY <2>3, <2>4
<1>3. ASSUME Register PROVE Asked' \/ Receives'
  <2>1. /\ turn'.at = "opening" /\ turn.at = "starting" /\ turn'.cancelled = turn.cancelled
        /\ turn'.kind = turn.kind
    BY <1>3, GotoFields DEF Register, At, Places
  <2>2. /\ prompt' = prompt /\ epoch' = epoch /\ waiting' = waiting /\ armed' = armed
        /\ chan' = chan /\ task' = task
    BY <1>3 DEF Register, workVars, historyVars, boundVars
  <2>3. CASE Asked
    BY <2>1, <2>2, <2>3, SentSame, FrameAsked, <1>3 DEF Register
  <2>4. CASE Receives
    BY <2>1, <2>2, <2>4 DEF Receives, Early, Current, Admitting
  <2> QED
    BY <2>3, <2>4
<1>4. ASSUME Open PROVE Asked' \/ Receives'
  <2>1. /\ turn'.at = "loop" /\ turn.at = "opening" /\ turn'.cancelled = turn.cancelled
        /\ turn'.kind = turn.kind
    BY <1>4, GotoFields DEF Open, At, Places
  <2>2. /\ prompt' = prompt /\ epoch' = epoch /\ waiting' = waiting /\ armed' = armed
        /\ chan' = chan /\ task' = task
    BY <1>4 DEF Open, stateVars, historyVars, boundVars
  <2>3. CASE Asked
    BY <2>1, <2>2, <2>3, SentSame, FrameAsked, <1>4 DEF Open, stateVars
  <2>4. CASE Receives
    BY <2>1, <2>2, <2>4 DEF Receives, Early, Current, Admitting
  <2> QED
    BY <2>3, <2>4
<1>5. ASSUME Drain PROVE Asked' \/ Receives'
  BY <1>5
<1>6. ASSUME Suspend PROVE Asked' \/ Receives'
  <2>1. /\ turn' = turn /\ prompt' = prompt /\ epoch' = epoch /\ waiting' = waiting
        /\ armed' = armed /\ pending' = pending /\ chan' = chan
    BY <1>6 DEF Suspend, stateVars, workVars, historyVars, boundVars
  <2>2. \A u \in Results : task[u] = "routed" => task'[u] = "routed"
    BY <1>6 DEF Suspend, stateVars, workVars, historyVars, boundVars
  <2>3. CASE Asked
    BY <2>1, <2>2, <2>3, SentSame, FrameAsked
  <2>4. CASE Receives
    BY <2>1, <2>4 DEF Receives, Early, Current, Admitting
  <2> QED
    BY <2>3, <2>4
<1>7. ASSUME Wake PROVE Asked' \/ Receives'
  <2>1. /\ turn' = turn /\ prompt' = prompt /\ epoch' = epoch /\ waiting' = waiting
        /\ armed' = armed /\ pending' = pending /\ chan' = chan
    BY <1>7 DEF Wake, stateVars, workVars, historyVars, boundVars
  <2>2. \A u \in Results : task[u] = "routed" => task'[u] = "routed"
    BY <1>7 DEF Wake, stateVars, workVars, historyVars, boundVars
  <2>3. CASE Asked
    BY <2>1, <2>2, <2>3, SentSame, FrameAsked
  <2>4. CASE Receives
    BY <2>1, <2>4 DEF Receives, Early, Current, Admitting
  <2> QED
    BY <2>3, <2>4
<1>8. ASSUME Complete PROVE Asked' \/ Receives'
  <2>1. queue' = {}
    BY <1>8 DEF Complete, workVars
  <2> QED
    BY <2>1 DEF HasAgentResult
<1>9. ASSUME Interrupt PROVE Asked' \/ Receives'
  <2>1. turn.cancelled
    BY <1>9 DEF Interrupt
  <2>2. /\ turn'.at = "ended" /\ turn.at = "loop" /\ turn'.cancelled = turn.cancelled
        /\ turn'.kind = turn.kind
    BY <1>9, GotoFields DEF Interrupt, At, Places
  <2>3. /\ prompt' = prompt /\ epoch' = epoch /\ waiting' = waiting /\ armed' = armed
        /\ chan' = chan /\ task' = task
    BY <1>9 DEF Interrupt, stateVars, workVars, historyVars, boundVars
  <2>4. CASE Asked
    BY <2>2, <2>3, <2>4, SentSame, FrameAsked, <1>9 DEF Interrupt, stateVars
  <2>5. CASE Receives
    BY <2>1, <2>5 DEF Receives
  <2> QED
    BY <2>4, <2>5
<1>10. ASSUME LookBehind PROVE Asked' \/ Receives'
  <2>1. queue' = queue
    BY <1>10 DEF LookBehind, workVars
  <2>2. chan' = Append(chan, "mq")
    BY <1>10, <2>1 DEF LookBehind, HasMessages, HasAgentResult
  <2>3. Sent("mq")'
    BY <2>2, AppendSent DEF Requests
  <2> QED
    BY <2>3 DEF Asked
<1>11. ASSUME Finish PROVE Asked' \/ Receives'
  <2>1. /\ turn'.at = "settling" /\ turn.at = "ended" /\ turn'.cancelled = turn.cancelled
        /\ turn'.kind = turn.kind
    BY <1>11, GotoFields DEF Finish, At, Places
  <2>2. /\ prompt' = prompt /\ epoch' = epoch /\ waiting' = waiting /\ armed' = armed
        /\ chan' = chan /\ task' = task
    BY <1>11 DEF Finish, workVars, historyVars, boundVars
  <2>3. CASE Asked
    BY <2>1, <2>2, <2>3, SentSame, FrameAsked, <1>11 DEF Finish
  <2>4. CASE Receives
    BY <2>1, <2>4 DEF Receives, Early
  <2> QED
    BY <2>3, <2>4
<1>12. ASSUME Settle PROVE Asked' \/ Receives'
  <2>1. /\ prompt' = prompt /\ epoch' = epoch /\ waiting' = waiting /\ armed' = armed
        /\ task' = task /\ queue' = queue /\ turn.at = "settling"
    BY <1>12 DEF Settle, workVars, At
  <2>2. Asked
    BY <2>1 DEF Receives, Early
  <2>3. pending => pending'
    BY <1>12, <2>1 DEF Settle, HasMessages, HasAgentResult
  <2>4. chan' = chan \/ chan' = Append(chan, "mq")
    BY <1>12 DEF Settle
  <2>5. \A r : Sent(r) => Sent(r)'
    BY <2>4, SentSame, AppendSent DEF Requests
  <2>6. pending => Sent("mq")'
    <3>1. pending => chan' = Append(chan, "mq")
      BY <2>3, <1>12 DEF Settle
    <3> QED
      BY <3>1, AppendSent DEF Requests
  <2> QED
    BY <2>1, <2>2, <2>5, <2>6 DEF Asked, PromptComes, Called
<1>13. ASSUME Acquire PROVE Asked' \/ Receives'
  <2>1. /\ epoch' = epoch /\ armed' = armed /\ pending' = pending /\ chan' = chan /\ task' = task
    BY <1>13 DEF Acquire, stateVars, workVars
  <2>2. turn.at = "none"
    BY <1>13, NoFields DEF Acquire
  <2>3. Asked
    BY <2>2 DEF Receives, Early
  <2>4. CASE turn'.kind = "prompt" \/ turn'.epoch = epoch
    BY <2>1, <2>4, <1>13, Acquired DEF Receives, Early, Current, Admitting
  <2>5. CASE turn'.kind = "continuation" /\ turn'.epoch # epoch
    <3>1. waiting'[epoch] = waiting[epoch] /\ prompt' = prompt
      BY <2>5, <1>13 DEF Acquire, LeaveWait, NewTurn
    <3> QED
      BY <2>1, <2>2, <2>3, <3>1, SentSame DEF Asked, Called, PromptComes
  <2> QED
    BY <1>13, Acquired, <2>4, <2>5
<1>14. ASSUME FailTurn PROVE Asked' \/ Receives'
  BY <1>14 DEF FailTurn, Fail
<1>15. ASSUME FailStart PROVE Asked' \/ Receives'
  BY <1>15 DEF FailStart, Fail
<1>16. ASSUME Schedule PROVE Asked' \/ Receives'
  <2>1. /\ prompt' = prompt /\ epoch' = epoch /\ turn' = turn /\ task' = task
        /\ chan # <<>> /\ chan' = Tail(chan) /\ excused' = excused
    BY <1>16 DEF Schedule, workVars
  <2>2. CASE AwaitLock(epoch)
    BY <2>1, <2>2, Awaited DEF Asked, Called
  <2>3. CASE Receives
    BY <2>1, <2>3 DEF Receives, Early, Current, Admitting
  <2>4. CASE Asked /\ Head(chan) = "agent" /\ ~armed /\ waiting' = waiting /\ pending' = pending
    <3>1. Sent("mq") => Sent("mq")'
      BY <2>1, <2>4, TailSent
    <3> QED
      BY <2>1, <2>4, <3>1 DEF Asked, PromptComes, Called
  <2>5. CASE Head(chan) = "mq" /\ inFlight /\ pending'
    <3>1. ~turn.cancelled
      BY <2>1, <2>5 DEF MarksFollowTurn, CancelledContinuation
    <3>2. turn.at \in {"starting", "opening", "loop", "looked", "ended", "settling"}
      BY <2>5 DEF MarksFollowTurn, Turns, Places
    <3> QED
      BY <2>1, <2>5, <3>1, <3>2 DEF Asked, Receives, Early, Current, Admitting
  <2> QED
    BY <1>16, <2>2, <2>3, <2>4, <2>5 DEF Schedule, TakeIfArmed, TakeSteering
<1>17. ASSUME Cancel PROVE Asked' \/ Receives'
  <2>1. /\ prompt' = prompt /\ epoch' = epoch /\ waiting' = waiting /\ queue' = queue
        /\ task' = task /\ pending' = pending
    BY <1>17 DEF Cancel, workVars
  <2>2. armed' /\ turn.kind # "continuation"
    BY <1>17, CancelArmsTurn
  <2>3. ~inFlight
    BY <2>2 DEF MarksFollowTurn
  <2>4. chan' = Append(chan, "agent")
    BY <1>17, <2>1, <2>3 DEF Cancel, AsksAtOnce, CancelArms, HasAgentResult
  <2>5. Sent("agent")'
    BY <2>4, AppendSent DEF Requests
  <2> QED
    BY <2>2, <2>5 DEF Asked
<1>18. ASSUME NEW t \in Results, Spawn(t) PROVE Asked' \/ Receives'
  <2>1. /\ turn' = turn /\ prompt' = prompt /\ epoch' = epoch /\ waiting' = waiting
        /\ armed' = armed /\ pending' = pending /\ chan' = chan
    BY <1>18 DEF Spawn, stateVars, historyVars, boundVars
  <2>2. \A u \in Results : task[u] = "routed" => task'[u] = "routed"
    BY <1>18 DEF Spawn, stateVars, historyVars, boundVars
  <2>3. CASE Asked
    BY <2>1, <2>2, <2>3, SentSame, FrameAsked
  <2>4. CASE Receives
    BY <2>1, <2>4 DEF Receives, Early, Current, Admitting
  <2> QED
    BY <2>3, <2>4
<1>19. ASSUME NEW t \in Results, Route(t) PROVE Asked' \/ Receives'
  <2>1. /\ turn' = turn /\ prompt' = prompt /\ epoch' = epoch /\ waiting' = waiting
        /\ armed' = armed /\ pending' = pending /\ chan' = chan
    BY <1>19 DEF Route, stateVars, historyVars, boundVars
  <2>2. \A u \in Results : task[u] = "routed" => task'[u] = "routed"
    BY <1>19 DEF Route, stateVars, historyVars, boundVars
  <2>3. CASE Asked
    BY <2>1, <2>2, <2>3, SentSame, FrameAsked
  <2>4. CASE Receives
    BY <2>1, <2>4 DEF Receives, Early, Current, Admitting
  <2> QED
    BY <2>3, <2>4
<1>20. ASSUME NEW t \in Results, NotifyScheduler(t) PROVE Asked' \/ Receives'
  <2>1. /\ turn' = turn /\ prompt' = prompt /\ epoch' = epoch /\ waiting' = waiting
        /\ armed' = armed /\ pending' = pending
    BY <1>20 DEF NotifyScheduler, stateVars
  <2>2. Sent("agent")' /\ \A r : Sent(r) => Sent(r)'
    BY <1>20, AppendSent DEF NotifyScheduler, Requests
  <2>3. CASE Asked
    BY <2>1, <2>2, <2>3, FrameAsked
  <2>4. CASE Receives
    BY <2>1, <2>4 DEF Receives, Early, Current, Admitting
  <2> QED
    BY <2>3, <2>4
<1>21. ASSUME NEW c \in Crons, FireCron(c) PROVE Asked' \/ Receives'
  <2>1. AwaitLock(epoch) /\ epoch' = epoch
    BY <1>21 DEF FireCron
  <2> QED
    BY <2>1, Awaited DEF Asked, Called
<1>22. ASSUME NEW p \in Prompts, Submit(p) PROVE Asked' \/ Receives'
  <2>1. PromptComes'
    BY <1>22 DEF Submit, PromptComes
  <2> QED
    BY <2>1 DEF Asked
<1>23. ASSUME NEW p \in Prompts, LookAtIdle(p) PROVE Asked' \/ Receives'
  <2>1. PromptComes'
    BY <1>23 DEF LookAtIdle, PromptComes
  <2> QED
    BY <2>1 DEF Asked
<1>24. ASSUME NEW p \in Prompts, Inject(p) PROVE Asked' \/ Receives'
  <2>1. excused' \/ JoinsLoop
    BY <1>24 DEF Inject, At, JoinsLoop
  <2> QED
    BY <2>1 DEF JoinsLoop, Receives, Early, Current, Admitting
<1>25. ASSUME NEW p \in Prompts, Refuse(p) PROVE Asked' \/ Receives'
  BY <1>25 DEF Refuse, Fail
<1>26. CASE UNCHANGED vars
  BY <1>26, SentSame DEF vars, Receives, Early, Current, Admitting, Asked, Called,
     PromptComes
<1> QED
  BY <1>1, <1>2, <1>3, <1>4, <1>5, <1>6, <1>7, <1>8, <1>9, <1>10, <1>11, <1>12,
     <1>13, <1>14, <1>15, <1>16, <1>17, <1>18, <1>19, <1>20, <1>21, <1>22, <1>23,
     <1>24, <1>25, <1>26 DEF Next, TurnStep, TaskStep, PromptStep

\* The result that is published meets a taker: its turn, or the cancel that ended it.
LEMMA RouteAsked ==
  ASSUME TypeOK, ActiveAwaited, ~excused, ~spent, NEW t \in Results, Route(t)
  PROVE  Asked' \/ Receives'
<1>0. turn \in Turns /\ MarksFollowTurn /\ chan \in Seq(Requests)
      /\ waiting \in [Epochs -> Nat] /\ epoch \in Epochs /\ takes \in Nat
      /\ prompt \in [Prompts -> {"new", "bumped", "injecting", "waiting", "done"}]
      /\ task \in [Results -> {"none", "running", "routed", "done"}]
  BY DEF TypeOK
<1> USE <1>0
  <1>1. /\ turn' = turn /\ prompt' = prompt /\ epoch' = epoch /\ waiting' = waiting
        /\ armed' = armed /\ pending' = pending /\ chan' = chan /\ task[t] = "running"
        /\ excused' = excused /\ spent' = spent /\ takes' = takes /\ task'[t] = "routed"
    BY DEF Route, stateVars, historyVars
  <1>2. Answered \/ (Early /\ ~turn.cancelled /\ Current)
    BY <1>1 DEF ActiveAwaited, Active
  <1>3. CASE Answered
    BY <1>1, <1>3 DEF Answered, ByTake, Asked, Called, PromptComes
  <1>4. CASE Early /\ ~turn.cancelled /\ Current
    BY <1>1, <1>4 DEF Receives, Early, Current, Admitting
  <1> QED
    BY <1>2, <1>3, <1>4

\* A result that waits has a taker after every step.
LEMMA ResultCalledStep ==
  ASSUME TypeOK, TurnOK, CancelledContinuation, ActiveAwaited, ResultCalled, [Next]_vars
  PROVE  ResultCalled'
<1> SUFFICES ASSUME HasAgentResult', ~excused', ~spent', ~Drain
             PROVE  Asked' \/ Receives'
  <2>1. Drain => ~HasAgentResult'
    BY DEF Drain, HasAgentResult
  <2> QED
    BY <2>1 DEF ResultCalled, Asked, Receives
<1>1. ~excused /\ ~spent
  BY ExcusesKept
<1>2. CASE \E t \in Results : Route(t)
  BY <1>1, <1>2, RouteAsked
<1>3. CASE ~\E t \in Results : Route(t)
  <2>1. HasAgentResult
    BY <1>3, ResultsOnlyRouted DEF TypeOK
  <2>2. Asked \/ Receives
    BY <1>1, <2>1 DEF ResultCalled, Asked, Receives
  <2> QED
    BY <1>1, <2>2, AskedKept
<1> QED
  BY <1>2, <1>3

\* At rest there is no taker left, so nothing waits.
LEMMA RestAnswers ==
  ASSUME TypeOK, TurnOK, ResultCalled, TriggerCalled
  PROVE  ResultHasTaker /\ TriggerHasTaker
<1>0. epoch \in Epochs
  BY DEF TypeOK
<1> SUFFICES ASSUME AtRest
             PROVE  /\ (\A t \in Results : ~Active(t)) /\ queue \cap Results # {} => excused \/ spent
                    /\ queue \cap Crons # {} => excused
  BY DEF ResultHasTaker, TriggerHasTaker
<1>1. turn.at = "none" /\ turn.kind = "none"
  BY NoFields DEF AtRest
<1>2. ~PromptComes /\ ~Called /\ ~Sent("mq") /\ ~Sent("agent")
  BY <1>0 DEF AtRest, PromptComes, Called, Sent
<1>3. queue \cap Crons # {} => excused
  BY <1>1, <1>2 DEF TriggerCalled
<1>4. (\A t \in Results : ~Active(t)) /\ queue \cap Results # {} => excused \/ spent
  BY <1>1, <1>2 DEF ResultCalled, Asked, Receives, HasAgentResult, Early, Active
<1> QED
  BY <1>3, <1>4

-----------------------------------------------------------------------------
(* The invariant and the theorems                                          *)

\* The inductive invariant: the types, and where each thing that waits will go.
IInv ==
  /\ TypeOK /\ TurnOK /\ EpochCounts
  /\ ArmedOnce /\ NoEmptyRun
  /\ CancelledContinuation /\ TriggerMarked /\ TriggerCalled
  /\ CancelAnswered /\ EndsAlone /\ ActiveAwaited /\ ResultCalled

\* It holds in the beginning,
LEMMA InvInit ==
  ASSUME Init
  PROVE  IInv
<1>1. TypeOK /\ TurnOK /\ EpochCounts
  BY TypeInit
<1>2. ~turn.cancelled /\ turn.kind # "continuation" /\ turn.at \in {"none", "admitting"}
  <2>1. CASE turn = NoTurn
    BY <2>1, NoFields
  <2>2. CASE turn = NewTurn("input", {}, 0)
    BY <2>2 DEF NewTurn
  <2> QED
    BY <2>1, <2>2 DEF Init
<1>3. ArmedOnce /\ NoEmptyRun /\ CancelledContinuation
  BY <1>2 DEF Init, ArmedOnce, NoEmptyRun, CancelledContinuation
<1>4. TriggerMarked /\ TriggerCalled /\ ResultCalled
  BY DEF Init, TriggerMarked, TriggerCalled, ResultCalled, HasAgentResult
<1>5. CancelAnswered /\ EndsAlone /\ ActiveAwaited
  BY <1>2 DEF Init, CancelAnswered, EndsAlone, ActiveAwaited, Active
<1> QED
  BY <1>1, <1>3, <1>4, <1>5 DEF IInv

\* after every step,
LEMMA InvStep ==
  ASSUME IInv, [Next]_vars
  PROVE  IInv'
<1>1. TypeOK' /\ TurnOK' /\ EpochCounts'
  BY TypeStep DEF IInv
<1>2. ArmedOnce' /\ NoEmptyRun' /\ CancelledContinuation'
  BY ArmedOnceStep, NoEmptyRunStep, CancelledContinuationStep DEF IInv
<1>3. TriggerMarked' /\ TriggerCalled'
  BY TriggerMarkedStep, TriggerCalledStep DEF IInv
<1>4. CancelAnswered' /\ EndsAlone' /\ ActiveAwaited' /\ ResultCalled'
  BY CancelAnsweredStep, EndsAloneStep, ActiveAwaitedStep, ResultCalledStep DEF IInv
<1> QED
  BY <1>1, <1>2, <1>3, <1>4 DEF IInv

\* and so always.
LEMMA InvHolds == Spec => []IInv
<1>1. Init => IInv
  BY InvInit
<1>2. IInv /\ [Next]_vars => IInv'
  BY InvStep
<1> QED
  BY <1>1, <1>2, PTL DEF Spec

\* Type correctness of the scheduler, with the marks, the token and the suspension
\* that follow the turn: whichever way a turn ends, by completion, cancel or failure,
\* it leaves none of them behind.  (continuation.rs, prompt.rs)
THEOREM ContinuationTypeOK == Spec => []TypeOK
<1>1. IInv => TypeOK
  BY DEF IInv
<1> QED
  BY <1>1, InvHolds, PTL

\* A cancel causes one continuation at most and the cancel of a continuation none,
\* for every number of cancels.  (continuation.rs, take_continuation_if_armed)
THEOREM NoContinuationChain == Spec => []NoChain
<1>1. IInv => NoChain
  BY DEF IInv, ArmedOnce, NoChain
<1> QED
  BY <1>1, InvHolds, PTL

\* The check of a continuation under the prompt lock stays true until the loop of its
\* turn first receives, whoever sends and cancels between.
\* (continuation.rs, continuation_dispatchable)
THEOREM ContinuationFindsWork == Spec => []NoEmptyRun
<1>1. IInv => NoEmptyRun
  BY DEF IInv
<1> QED
  BY <1>1, InvHolds, PTL

\* A trigger of cron that still waits when the host comes to rest was left by a
\* failure or by the user's own cancel of the continuation that was to take it.
\* (prompt_dispatch.rs, mq_steering_reschedule)
THEOREM TriggersAreTaken == Spec => []TriggerHasTaker
<1>1. IInv => TriggerHasTaker
  BY RestAnswers DEF IInv
<1> QED
  BY <1>1, InvHolds, PTL

\* The result of a background agent is not forgotten, in whichever order its
\* notification, the cancel of its turn, the scheduler and new prompts come.
\* (continuation.rs, the race of cancel and callback)
THEOREM ResultsAreTaken == Spec => []ResultHasTaker
<1>1. IInv => ResultHasTaker
  BY RestAnswers DEF IInv
<1> QED
  BY <1>1, InvHolds, PTL
=============================================================================

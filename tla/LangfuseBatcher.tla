-------------------------- MODULE LangfuseBatcher --------------------------
(***************************************************************************)
(* The bounded batcher of the Langfuse client                              *)
(* (langfuse-client/src/batcher.rs and batcher/): one queue of commands    *)
(* with one permit per place, one worker that collects events and sends    *)
(* them in batches, and the concurrent calls of add, try_add, flush and    *)
(* shutdown, any of which may be cancelled while it waits.                 *)
(*                                                                         *)
(* A call is made once, calls are numbered as they start, and the event of *)
(* an adding call is the call itself.                                      *)
(* The permits are those of a fair semaphore: a permit that is given back  *)
(* goes to the call that has waited longest, which holds it from then on   *)
(* ("reserved") although it has not run yet.                               *)
(***************************************************************************)
EXTENDS Naturals, Sequences, FiniteSets, FiniteSetsExt, SequencesExt,
        SequenceFilter

CONSTANTS
    MaxCalls,   \* bound: the calls that are made, any of them overlapping
    MaxEvents,  \* config.max_events: places of the queue and size of a batch
    Policies    \* the backpressure policies the configuration may name

ASSUME BatcherAssumption ==
    /\ MaxCalls \in Nat
    /\ MaxEvents \in Nat \ {0}
    /\ Policies \subseteq {"DropNew", "DropOldest", "Block"}

Calls  == 1..MaxCalls
NoCall == 0     \* no acknowledgement is due

VARIABLES
    policy,     \* config.backpressure, fixed at the start
    accepting,  \* QueueState.accepting; the closing signal is its negation
    slots,      \* the free permits of the semaphore
    waiters,    \* the calls that wait for a permit, oldest first
    commands,   \* QueueState.commands: the calls whose command is queued
    worker,     \* "select", "drain", "last", "finished" or "dead"
    buffer,     \* BatchWorker.buffer
    batch,      \* the batch whose submission is under way, or <<>>
    ackTo,      \* the flush that is acknowledged after that submission
    failures,   \* the failed batches; Watermarks.produced is their number
    confirmed,  \* Watermarks.confirmed
    owned,      \* the Batcher has not been dropped
    op,         \* what each call does
    stage,      \* how far each call is
    snap,       \* the FlushSnapshot a call was sent and has not seen
    result,     \* what a call returned
    accepted,   \* history: the events admitted, in order
    replaced,   \* history: the events DropOldest took out of the queue
    sent,       \* history: the events whose submission has ended, in order
    owed,       \* history: what a flush found admitted when it was queued
    told        \* history: the failures some caller was told of

queueVars  == <<accepting, slots, waiters, commands>>
workVars   == <<worker, buffer, batch, ackTo>>
ledgerVars == <<failures, confirmed>>
callVars   == <<op, stage, snap, result>>
history    == <<accepted, replaced, sent, owed, told>>
vars == <<policy, queueVars, workVars, ledgerVars, owned, callVars, history>>

Snapshots == [through : Nat, failures : Nat]
NoSnap    == [through |-> 0, failures |-> 0]

Ops     == {"none", "add", "tryAdd", "flush", "shutdown"}
Stages  == {"unused", "waiting", "reserved", "awaiting", "acked", "lost",
            "joining", "done"}
Results == {"none", "ok", "failed", "full", "closed", "joinFailed",
            "cancelled"}

TypeOK ==
    /\ policy \in Policies
    /\ accepting \in BOOLEAN /\ owned \in BOOLEAN
    /\ slots \in 0..MaxEvents
    /\ waiters \in Seq(Calls) /\ commands \in Seq(Calls)
    /\ worker \in {"select", "drain", "last", "finished", "dead"}
    /\ buffer \in Seq(Calls) /\ batch \in Seq(Calls)
    /\ ackTo \in Calls \cup {NoCall}
    /\ failures \in Seq(SUBSET Calls) /\ confirmed \in 0..Len(failures)
    /\ op \in [Calls -> Ops] /\ stage \in [Calls -> Stages]
    /\ snap \in [Calls -> Snapshots] /\ result \in [Calls -> Results]
    /\ accepted \in Seq(Calls) /\ replaced \subseteq Calls
    /\ sent \in Seq(Calls)
    /\ owed \in [Calls -> SUBSET Calls]
    /\ told \subseteq 1..Len(failures)

Init ==
    /\ policy \in Policies
    /\ accepting = TRUE /\ slots = MaxEvents
    /\ waiters = <<>> /\ commands = <<>>
    /\ worker = "select" /\ buffer = <<>> /\ batch = <<>> /\ ackTo = NoCall
    /\ failures = <<>> /\ confirmed = 0
    /\ owned = TRUE
    /\ op = [c \in Calls |-> "none"] /\ stage = [c \in Calls |-> "unused"]
    /\ snap = [c \in Calls |-> NoSnap] /\ result = [c \in Calls |-> "none"]
    /\ accepted = <<>> /\ replaced = {} /\ sent = <<>>
    /\ owed = [c \in Calls |-> {}] /\ told = {}

----------------------------------------------------------------------------
(* The queue and its permits (batcher/admission.rs).                        *)

(* The position of the last queued flush, 0 without one.                    *)
LastFlush == Max({0} \cup {i \in DOMAIN commands : op[commands[i]] = "flush"})

\* Slip: the oldest event is looked for from the front of the queue.
SlipOldest ==
    LET adds == {i \in DOMAIN commands : op[commands[i]] # "flush"}
    IN  IF adds = {} THEN Len(commands) + 1 ELSE Min(adds)

(* Where DropOldest finds the event to replace: the first command behind    *)
(* the last flush. Nothing may be found there.                              *)
Oldest == LastFlush + 1

Queue(c) ==
    /\ commands' = Append(commands, c)
    /\ accepted' = IF op'[c] = "flush" THEN accepted ELSE Append(accepted, c)
    /\ owed' = IF op'[c] = "flush"
               THEN [owed EXCEPT ![c] = ToSet(accepted) \ replaced]
               ELSE owed

(* close: senders that wait are woken to be refused.                        *)
Close == accepting' = FALSE /\ waiters' = <<>>

Finish(c, r) ==
    /\ stage' = [stage EXCEPT ![c] = "done"]
    /\ result' = [result EXCEPT ![c] = r]

Start(c, kind) ==
    /\ owned /\ stage[c] = "unused"
    /\ \A d \in Calls : d < c => stage[d] # "unused"
    /\ op' = [op EXCEPT ![c] = kind]

\* Slip: the new event takes the place of the replaced one.
SlipReplaceInPlace(c) ==
    /\ commands' = [commands EXCEPT ![Oldest] = c]
    /\ replaced' = replaced \cup {commands[Oldest]}
    /\ accepted' = Append(accepted, c)
    /\ UNCHANGED slots

(* The new event goes to the end and takes over the permit.                 *)
Replace(c) ==
    /\ commands' = Append(RemoveAt(commands, Oldest), c)
    /\ replaced' = replaced \cup {commands[Oldest]}
    /\ accepted' = Append(accepted, c)
    /\ UNCHANGED slots

(* try_add, also what add is under the two dropping policies.               *)
TryAdd(c) ==
    /\ Start(c, "tryAdd")
    /\ \/ /\ ~accepting
          /\ Finish(c, "closed")
          /\ UNCHANGED <<slots, commands, accepted, replaced, owed>>
       \/ /\ accepting /\ slots > 0
          /\ slots' = slots - 1
          /\ Queue(c)
          /\ Finish(c, "ok")
          /\ UNCHANGED replaced
       \/ /\ accepting /\ slots = 0
          /\ policy = "DropOldest" /\ Oldest <= Len(commands)
          /\ Replace(c)
          /\ Finish(c, "ok")
          /\ UNCHANGED owed
       \/ /\ accepting /\ slots = 0
          /\ policy # "DropOldest" \/ Oldest > Len(commands)
          /\ Finish(c, "full")
          /\ UNCHANGED <<slots, commands, accepted, replaced, owed>>
    /\ UNCHANGED <<policy, accepting, waiters, workVars, ledgerVars, owned,
                   snap, sent, told>>

(* send of an Add (add under Block) or of a Flush: a permit at once, or a   *)
(* place among the waiting.                                                 *)
Send(c) ==
    /\ \E kind \in {"add", "flush"} :
          /\ kind = "add" => policy = "Block"
          /\ Start(c, kind)
    /\ IF accepting /\ slots > 0
       THEN /\ slots' = slots - 1
            /\ stage' = [stage EXCEPT ![c] = "reserved"]
            /\ UNCHANGED waiters
       ELSE /\ stage' = [stage EXCEPT ![c] = "waiting"]
            /\ waiters' = IF accepting THEN Append(waiters, c) ELSE waiters
            /\ UNCHANGED slots
    /\ UNCHANGED <<policy, accepting, commands, workVars, ledgerVars, owned,
                   snap, result, history>>

\* Slip: the closed check is made before the wait only.
SlipCommit(c) ==
    /\ stage[c] = "reserved"
    /\ UNCHANGED op
    /\ Queue(c)
    /\ IF op[c] = "flush"
       THEN stage' = [stage EXCEPT ![c] = "awaiting"] /\ UNCHANGED result
       ELSE Finish(c, "ok")
    /\ UNCHANGED <<policy, accepting, slots, waiters, workVars, ledgerVars,
                   owned, snap, replaced, sent, told>>

(* commit: the call with a permit queues its command.                       *)
Commit(c) ==
    /\ stage[c] = "reserved" /\ accepting
    /\ UNCHANGED op
    /\ Queue(c)
    /\ IF op[c] = "flush"
       THEN stage' = [stage EXCEPT ![c] = "awaiting"] /\ UNCHANGED result
       ELSE Finish(c, "ok")
    /\ UNCHANGED <<policy, accepting, slots, waiters, workVars, ledgerVars,
                   owned, snap, replaced, sent, told>>

(* The queue has closed while the call waited, or between its permit and    *)
(* its commit: an add is refused, a flush becomes a shutdown.               *)
Refused(c) ==
    /\ stage[c] \in {"waiting", "reserved"} /\ ~accepting
    /\ slots' = IF stage[c] = "reserved" THEN slots + 1 ELSE slots
    /\ IF op[c] = "flush"
       THEN stage' = [stage EXCEPT ![c] = "joining"] /\ UNCHANGED result
       ELSE Finish(c, "closed")
    /\ UNCHANGED <<policy, accepting, waiters, commands, workVars, ledgerVars,
                   owned, op, snap, history>>

----------------------------------------------------------------------------
(* The other calls (batcher.rs, batcher/failure.rs, batcher/shutdown.rs).   *)

Shutdown(c) ==
    /\ Start(c, "shutdown")
    /\ Close
    /\ stage' = [stage EXCEPT ![c] = "joining"]
    /\ UNCHANGED <<policy, slots, commands, workVars, ledgerVars, owned, snap,
                   result, history>>

\* Slip: the confirmation takes in what has failed since the snapshot.
SlipObserve(c) ==
    /\ stage[c] = "acked"
    /\ Finish(c, IF snap[c].failures = 0 THEN "ok" ELSE "failed")
    /\ confirmed' = IF snap[c].failures = 0 THEN confirmed ELSE Len(failures)
    /\ told' = told \cup
          ((snap[c].through - snap[c].failures + 1)..snap[c].through)
    /\ snap' = [snap EXCEPT ![c] = NoSnap]
    /\ UNCHANGED <<policy, queueVars, workVars, failures, owned, op, accepted,
                   replaced, sent, owed>>

(* A flush whose acknowledgement has come confirms the failures it shows.   *)
Observe(c) ==
    /\ stage[c] = "acked"
    /\ Finish(c, IF snap[c].failures = 0 THEN "ok" ELSE "failed")
    /\ confirmed' = IF snap[c].failures = 0 THEN confirmed
                    ELSE Max({confirmed, snap[c].through})
    /\ told' = told \cup
          ((snap[c].through - snap[c].failures + 1)..snap[c].through)
    /\ snap' = [snap EXCEPT ![c] = NoSnap]
    /\ UNCHANGED <<policy, queueVars, workVars, failures, owned, op, accepted,
                   replaced, sent, owed>>

(* Its acknowledgement was dropped with the worker: it becomes a shutdown.  *)
AckLost(c) ==
    /\ stage[c] = "lost"
    /\ Close
    /\ stage' = [stage EXCEPT ![c] = "joining"]
    /\ UNCHANGED <<policy, slots, commands, workVars, ledgerVars, owned, op,
                   snap, result, history>>

(* join: the worker's end is the answer of every shutdown.                  *)
Join(c) ==
    /\ stage[c] = "joining" /\ worker \in {"finished", "dead"}
    /\ Finish(c, IF worker = "dead" THEN "joinFailed"
                 ELSE IF failures = <<>> THEN "ok" ELSE "failed")
    /\ told' = IF worker = "dead" THEN told ELSE DOMAIN failures
    /\ UNCHANGED <<policy, queueVars, workVars, ledgerVars, owned, op, snap,
                   accepted, replaced, sent, owed>>

(* The future of a call is dropped. A queued command stays; a permit that   *)
(* was not used goes to the next waiting call; a failure that was not       *)
(* observed stays unconfirmed.                                              *)
Cancel(c) ==
    /\ stage[c] \in Stages \ {"unused", "done"}
    /\ result' = [result EXCEPT ![c] = "cancelled"]
    /\ snap' = [snap EXCEPT ![c] = NoSnap]
    /\ IF stage[c] = "reserved" /\ waiters # <<>>
       THEN /\ stage' = [stage EXCEPT ![c] = "done",
                                      ![Head(waiters)] = "reserved"]
            /\ waiters' = Tail(waiters)
            /\ UNCHANGED slots
       ELSE /\ stage' = [stage EXCEPT ![c] = "done"]
            /\ waiters' = IF stage[c] = "waiting" THEN Keep(waiters, Calls \ {c})
                                                  ELSE waiters
            /\ slots' = IF stage[c] = "reserved" THEN slots + 1 ELSE slots
    /\ UNCHANGED <<policy, accepting, commands, workVars, ledgerVars, owned,
                   op, history>>

(* Dropping the batcher closes it; nobody joins, nobody calls again.        *)
DropBatcher ==
    /\ owned /\ \A c \in Calls : stage[c] \in {"unused", "done"}
    /\ owned' = FALSE
    /\ Close
    /\ UNCHANGED <<policy, slots, commands, workVars, ledgerVars, callVars,
                   history>>

----------------------------------------------------------------------------
(* The worker (batcher/worker.rs).                                          *)

Running == worker \in {"select", "drain"} /\ batch = <<>>

(* Where the worker goes on after a command: the loop looks at the closing  *)
(* signal before it selects again.                                          *)
Resume == IF worker = "select" /\ ~accepting THEN "drain" ELSE worker

FlushSnapshot(failed) ==
    [through |-> Len(failed), failures |-> Len(failed) - confirmed]

(* The acknowledgement of a flush; a call that is gone does not take it.    *)
Ack(c, failed, before) ==
    IF c # NoCall /\ before[c] = "awaiting"
    THEN /\ snap' = [snap EXCEPT ![c] = FlushSnapshot(failed)]
         /\ stage' = [before EXCEPT ![c] = "acked"]
    ELSE stage' = before /\ UNCHANGED snap

(* The stages once the head command has left the queue and its permit has   *)
(* gone to the oldest waiting call.                                         *)
Handed == IF waiters = <<>> THEN stage
          ELSE [stage EXCEPT ![Head(waiters)] = "reserved"]

\* Slip: the permit of a received command is not handed on.
SlipTakeHead ==
    /\ commands # <<>>
    /\ commands' = Tail(commands)
    /\ UNCHANGED <<waiters, slots>>

TakeHead ==
    /\ commands # <<>>
    /\ commands' = Tail(commands)
    /\ IF waiters = <<>> THEN slots' = slots + 1 /\ UNCHANGED waiters
       ELSE waiters' = Tail(waiters) /\ UNCHANGED slots

(* The worker receives an event: it is buffered, and a full buffer is sent. *)
ProcessAdd ==
    /\ Running /\ TakeHead
    /\ op[Head(commands)] # "flush"
    /\ stage' = Handed
    /\ LET full == Append(buffer, Head(commands))
       IN  IF Len(full) >= MaxEvents
           THEN batch' = full /\ buffer' = <<>> /\ UNCHANGED worker
           ELSE buffer' = full /\ worker' = Resume /\ UNCHANGED batch
    /\ UNCHANGED <<policy, accepting, ackTo, ledgerVars, owned, op, snap,
                   result, history>>

(* The worker receives a flush: the buffer is sent before the answer.       *)
ProcessFlush ==
    /\ Running /\ TakeHead
    /\ op[Head(commands)] = "flush"
    /\ IF buffer = <<>>
       THEN /\ Ack(Head(commands), failures, Handed)
            /\ worker' = Resume
            /\ UNCHANGED <<buffer, batch, ackTo>>
       ELSE /\ batch' = buffer /\ buffer' = <<>>
            /\ ackTo' = Head(commands)
            /\ stage' = Handed
            /\ UNCHANGED <<worker, snap>>
    /\ UNCHANGED <<policy, accepting, ledgerVars, owned, op, result, history>>

(* The interval of the worker has passed.                                   *)
Tick ==
    /\ worker = "select" /\ batch = <<>> /\ buffer # <<>>
    /\ batch' = buffer /\ buffer' = <<>>
    /\ UNCHANGED <<policy, queueVars, worker, ackTo, ledgerVars, owned,
                   callVars, history>>

SeeClosing ==
    /\ worker = "select" /\ batch = <<>> /\ ~accepting
    /\ worker' = "drain"
    /\ UNCHANGED <<policy, queueVars, buffer, batch, ackTo, ledgerVars, owned,
                   callVars, history>>

\* Slip: the worker waits for the permits of calls that have not committed.
SlipDrainedPermits ==
    /\ worker = "drain" /\ batch = <<>> /\ commands = <<>>
    /\ slots = MaxEvents
    /\ IF buffer = <<>> THEN worker' = "finished" /\ UNCHANGED <<batch, buffer>>
       ELSE worker' = "last" /\ batch' = buffer /\ buffer' = <<>>
    /\ UNCHANGED <<policy, queueVars, ackTo, ledgerVars, owned, callVars,
                   history>>

(* The drained worker sends what is left and ends.                          *)
Drained ==
    /\ worker = "drain" /\ batch = <<>> /\ commands = <<>>
    /\ IF buffer = <<>> THEN worker' = "finished" /\ UNCHANGED <<batch, buffer>>
       ELSE worker' = "last" /\ batch' = buffer /\ buffer' = <<>>
    /\ UNCHANGED <<policy, queueVars, ackTo, ledgerVars, owned, callVars,
                   history>>

(* The submission of a batch ends, retries included, and the flush that     *)
(* waited for it is answered.                                               *)
Submitted ==
    /\ batch # <<>> /\ worker # "dead"
    /\ \E failed \in {failures, Append(failures, ToSet(batch))} :
          /\ failures' = failed
          /\ Ack(ackTo, failed, stage)
    /\ sent' = sent \o batch
    /\ batch' = <<>> /\ ackTo' = NoCall
    /\ worker' = IF worker = "last" THEN "finished" ELSE Resume
    /\ UNCHANGED <<policy, queueVars, buffer, confirmed, owned, op, result,
                   accepted, replaced, owed, told>>

(* The worker panics or is aborted: its receiver closes the queue and       *)
(* drops the queued commands with their permits and acknowledgements.       *)
WorkerDies ==
    /\ worker \notin {"finished", "dead"}
    /\ worker' = "dead"
    /\ Close
    /\ commands' = <<>> /\ slots' = slots + Len(commands)
    /\ buffer' = <<>> /\ batch' = <<>> /\ ackTo' = NoCall
    /\ stage' = [c \in Calls |->
                    IF stage[c] = "awaiting" THEN "lost" ELSE stage[c]]
    /\ UNCHANGED <<policy, ledgerVars, owned, op, snap, result, history>>

----------------------------------------------------------------------------
Terminated ==
    /\ worker \in {"finished", "dead"}
    /\ \A c \in Calls : stage[c] = "done" \/ (stage[c] = "unused" /\ ~owned)
    /\ UNCHANGED vars

Answers(c) == Observe(c) \/ AckLost(c) \/ Join(c)
Works == ProcessAdd \/ ProcessFlush \/ SeeClosing \/ Drained

Next ==
    \/ \E c \in Calls : TryAdd(c)
    \/ \E c \in Calls : Send(c)
    \/ \E c \in Calls : Commit(c)
    \/ \E c \in Calls : Refused(c)
    \/ \E c \in Calls : Shutdown(c)
    \/ \E c \in Calls : Observe(c)
    \/ \E c \in Calls : AckLost(c)
    \/ \E c \in Calls : Join(c)
    \/ \E c \in Calls : Cancel(c)
    \/ DropBatcher
    \/ ProcessAdd \/ ProcessFlush \/ Tick \/ SeeClosing \/ Drained
    \/ Submitted \/ WorkerDies
    \/ Terminated

Spec == Init /\ [][Next]_vars

(* The worker runs and every submission ends; a caller that has an answer   *)
(* takes it. A call between its permit and its commit may never be polled   *)
(* again, so nothing is assumed of Commit and Refused.                      *)
Fairness ==
    /\ WF_vars(Works) /\ WF_vars(Submitted)
    /\ \A c \in Calls : WF_vars(Answers(c))
FairSpec == Spec /\ Fairness

----------------------------------------------------------------------------
(* Properties.                                                              *)

Adds == {c \in Calls : op[c] # "flush"}
Reserved == {c \in Calls : stage[c] = "reserved"}
Answered(c) == result[c] \in {"ok", "failed"}

(* Every permit is free, or with one queued command, or with one call that  *)
(* has been handed it; and none is free while a call waits. Receiving,      *)
(* replacing, refusing, cancelling and the worker's death all move permits. *)
PermitsKept ==
    /\ slots + Len(commands) + Cardinality(Reserved) = MaxEvents
    /\ waiters # <<>> => slots = 0

(* As long as the worker lives, an admitted event that was not replaced is  *)
(* in exactly one place, and events are sent in the order of their          *)
(* admission: submitted, in flight, buffered, queued, one behind another.   *)
EventsKeptInOrder ==
    worker # "dead" =>
        sent \o batch \o buffer \o Keep(commands, Adds)
            = Keep(accepted, Calls \ replaced)

(* A flush that returns an answer (Ok or a submission error) speaks for     *)
(* every event that was admitted before it: each was submitted, and a       *)
(* batch of theirs that failed has been reported to some caller.            *)
FlushCovers ==
    \A c \in Calls : op[c] = "flush" /\ Answered(c) =>
        /\ owed[c] \subseteq ToSet(sent)
        /\ \A k \in DOMAIN failures :
              failures[k] \cap owed[c] # {} => k \in told

(* Only a failure that some caller was told of is confirmed: neither a      *)
(* cancelled wait nor an old snapshot consumes one.                         *)
NothingConfirmedUnseen == 1..confirmed \subseteq told

(* A shutdown that returns without a join error has submitted every event   *)
(* ever admitted and not replaced, and returns Ok only if no batch failed.  *)
ShutdownDrains ==
    \A c \in Calls : op[c] = "shutdown" /\ Answered(c) =>
        /\ ToSet(accepted) \ replaced = ToSet(sent)
        /\ result[c] = "ok" => failures = <<>>

(* A flush that was queued and a shutdown return, also when a call that     *)
(* holds a permit never runs again and when the worker dies.                *)
AnswerComes ==
    \A c \in Calls :
        stage[c] \in {"awaiting", "acked", "lost", "joining"}
            ~> stage[c] = "done"
=============================================================================

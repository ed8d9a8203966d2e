-------------------------- MODULE UserInputMailbox --------------------------
(***************************************************************************)
(* The session's owner of user input (peri-agent, session/                 *)
(* user_input_mailbox.rs) together with the user-input entries of the      *)
(* session MessageQueue (peri-acp-types, session/queue.rs).                *)
(*                                                                         *)
(* Every operation of the mailbox runs under one mutex and is one action   *)
(* here; the queue has a lock of its own, taken inside the mailbox's by    *)
(* the hand-off and the reclaim, and alone by Receive (UserInputSession).  *)
(* An operation that interrupts a run captures the run's cancellation      *)
(* token under the lock and cancels it after the unlock: the capture adds  *)
(* the ticket to `cancelling', the later cancel moves it to `cancelled'.   *)
(*                                                                         *)
(* Input contents, fingerprints and snapshots are abstracted: an input and *)
(* a command are model values, and two requests conflict iff they differ.  *)
(* Requests the code refuses (stale generation, closed, invalid identity,  *)
(* empty content, capacity, identity conflict) change nothing and are not  *)
(* actions.                                                                *)
(*                                                                         *)
(* A definition whose name begins with Slip is a mutation: what a          *)
(* plausible slip would make of the definition that follows it. No action  *)
(* uses one; the runs are repeated with it in place of the original to     *)
(* show that a property notices.                                           *)
(***************************************************************************)
EXTENDS Naturals, Sequences, FiniteSets, Functions, SequenceFilter

CONSTANTS
  Inputs,     \* input ids a client may submit
  Commands,   \* command ids a client may use
  Capacity,   \* PENDING_CAPACITY: bound on undelivered inputs
  NoRun,      \* active = None
  NoReceipt   \* a command id that has not been used

ASSUME CapacityAssumption == Capacity \in Nat \ {0}
VARIABLES
  records,    \* accepted inputs in order of acceptance
  status,     \* state of each record; "Absent" when there is none
  handedOff,  \* records whose message was pushed to the queue
  ready,      \* selected inputs that wait for a run, in selection order
  receipts,   \* the request each used command id stands for
  active,     \* the reserved or running attempt
  paused,     \* a Stop or a failure holds the pending inputs back
  suspended,  \* the running loop is at its idle boundary
  valid,      \* FALSE once the owner is frozen
  queue,      \* the user-input entries of the MessageQueue
  lastTicket, \* number of tickets issued (uuid v7 in the code)
  cancelling, \* tickets whose token was captured and is still to be cancelled
  cancelled   \* tickets whose token is cancelled

recordVars == <<records, status, handedOff, ready>>
admissionVars == <<paused, suspended, valid>>
tokenVars == <<cancelling, cancelled>>
mailboxVars == <<recordVars, receipts, active, admissionVars, queue,
                 lastTicket, tokenVars>>

States == {"Absent", "Queued", "Dispatching", "Claimed", "Delivered", "Withdrawn"}
Outcomes == {"Completed", "Interrupted", "Failed"}
Reasons == {"None", "Steer", "Stop"}
Requests == [op : {"enqueue", "dispatch", "takeback"}, ids : SUBSET Inputs]
Runs == [ticket : Nat, managed : BOOLEAN, attached : BOOLEAN,
         reason : Reasons, outcome : Outcomes \cup {"None"}]

ASSUME NoneAssumption == NoRun \notin Runs /\ NoReceipt \notin Requests

MailboxTypeOK ==
  /\ records \in Seq(Inputs)
  /\ status \in [Inputs -> States]
  /\ handedOff \in SUBSET Inputs
  /\ ready \in Seq(Inputs)
  /\ receipts \in [Commands -> Requests \cup {NoReceipt}]
  /\ active \in Runs \cup {NoRun}
  /\ paused \in BOOLEAN
  /\ suspended \in BOOLEAN
  /\ valid \in BOOLEAN
  /\ queue \in Seq(Inputs)
  /\ lastTicket \in Nat
  /\ cancelling \in SUBSET Nat
  /\ cancelled \in SUBSET Nat

MailboxInit ==
  /\ records = << >>
  /\ status = [i \in Inputs |-> "Absent"]
  /\ handedOff = {}
  /\ ready = << >>
  /\ receipts = [c \in Commands |-> NoReceipt]
  /\ active = NoRun
  /\ paused = FALSE
  /\ suspended = FALSE
  /\ valid = TRUE
  /\ queue = << >>
  /\ lastTicket = 0
  /\ cancelling = {}
  /\ cancelled = {}

-----------------------------------------------------------------------------
(* Helpers over a state of the records, as the code's *_locked functions.  *)

WithStatus(st) == {i \in Inputs : status[i] = st}

Pending == WithStatus("Queued") \cup WithStatus("Dispatching") \cup WithStatus("Claimed")

Moved(st, ids, to) == [i \in Inputs |-> IF i \in ids THEN to ELSE st[i]]

\* promote_next releases an input only when none is selected or in flight.
CanPromote(st) ==
  /\ ready = << >>
  /\ \A i \in Inputs : st[i] \notin {"Dispatching", "Claimed"}
  /\ \E i \in Inputs : st[i] = "Queued"

SlipNewest(recs, st) ==
  recs[CHOOSE n \in DOMAIN recs :
         /\ st[recs[n]] = "Queued"
         /\ \A m \in (n + 1) .. Len(recs) : st[recs[m]] # "Queued"]
\* The first record still queued.
Oldest(recs, st) ==
  recs[CHOOSE n \in DOMAIN recs :
         /\ st[recs[n]] = "Queued"
         /\ \A m \in 1 .. (n - 1) : st[recs[m]] # "Queued"]

PromoteNext(recs, st) ==
  IF CanPromote(st)
  THEN LET i == Oldest(recs, st) IN
       /\ status' = Moved(st, {i}, "Dispatching")
       /\ handedOff' = handedOff \ {i}
       /\ ready' = Append(ready, i)
  ELSE /\ status' = st
       /\ UNCHANGED <<handedOff, ready>>

\* handoff_locked: push to the queue what is selected and was not yet pushed.
HandOff(rdy, st, ho) ==
  LET out == Keep(rdy, {i \in Inputs : st[i] = "Dispatching" /\ i \notin ho}) IN
  /\ queue' = queue \o out
  /\ handedOff' = ho \cup Range(out)
  /\ ready' = << >>

\* PromoteNext followed by HandOff under the same lock.
PromoteAndHandOff(recs, st) ==
  IF CanPromote(st)
  THEN LET i == Oldest(recs, st) IN
       /\ status' = Moved(st, {i}, "Dispatching")
       /\ HandOff(Append(ready, i), Moved(st, {i}, "Dispatching"), handedOff \ {i})
  ELSE /\ status' = st
       /\ HandOff(ready, st, handedOff)

SlipWakeableWhilePaused ==
  /\ valid
  /\ active # NoRun
  /\ active.reason = "None"
  /\ active.attached
  /\ active.ticket \notin cancelled
\* wake_suspended_locked's test of the running attempt.
Wakeable ==
  /\ valid /\ ~paused
  /\ active # NoRun
  /\ active.reason = "None"
  /\ active.attached
  /\ active.ticket \notin cancelled

WakeSuspended(recs, st, atIdle) ==
  IF Wakeable /\ atIdle /\ CanPromote(st)
  THEN /\ PromoteAndHandOff(recs, st)
       /\ suspended' = FALSE
  ELSE /\ status' = st
       /\ suspended' = atIdle
       /\ UNCHANGED <<handedOff, ready, queue>>

SlipReclaimAll ==
  LET back == WithStatus("Dispatching") IN
  /\ queue' = Keep(queue, Inputs \ back)
  /\ status' = Moved(status, back, "Queued")
  /\ handedOff' = handedOff \ back
  /\ ready' = << >>
\* reclaim_locked: the queue gives back what Receive has not drained; those
\* inputs and the ones never pushed are queued again.
Reclaim ==
  LET pushed == {i \in WithStatus("Dispatching") : i \in handedOff}
      back == {i \in WithStatus("Dispatching") :
                 i \notin handedOff \/ i \in Range(queue)}
  IN  /\ queue' = Keep(queue, Inputs \ pushed)
      /\ status' = Moved(status, back, "Queued")
      /\ handedOff' = handedOff \ back
      /\ ready' = << >>

SlipIsActive(t) == active # NoRun
\* The ticket of the registered attempt.
IsActive(t) == active # NoRun /\ active.ticket = t

SlipUnmarked(run, why) == run
\* The run as an interruption leaves it.
Marked(run, why) == IF run = NoRun THEN NoRun ELSE [run EXCEPT !.reason = why]

\* An interruption takes a clone of the token of a run that has one.
CaptureToken ==
  cancelling' = IF active # NoRun /\ active.attached
                THEN cancelling \cup {active.ticket} ELSE cancelling

SlipFreshAlways(c) == valid
\* A request with a command id not seen before is executed and remembered.
Fresh(c) == valid /\ receipts[c] = NoReceipt
Remember(c, op, ids) == receipts' = [receipts EXCEPT ![c] = [op |-> op, ids |-> ids]]

-----------------------------------------------------------------------------
(* Client commands                                                         *)

Enqueue(c, i) ==
  /\ Fresh(c)
  /\ status[i] = "Absent"
  /\ Cardinality(Pending) < Capacity
  /\ records' = Append(records, i)
  /\ LET st == [status EXCEPT ![i] = "Queued"] IN
     \/ /\ active = NoRun \/ paused
        /\ paused' = FALSE
        /\ PromoteNext(records', st)
        /\ UNCHANGED <<suspended, queue>>
     \/ /\ active # NoRun /\ ~paused
        /\ WakeSuspended(records', st, suspended)
        /\ UNCHANGED paused
  /\ Remember(c, "enqueue", {i})
  /\ UNCHANGED <<active, valid, lastTicket, tokenVars>>

\* The same input under another command id is acknowledged and changes nothing.
EnqueueKnown(c, i) ==
  /\ Fresh(c)
  /\ status[i] # "Absent"
  /\ Remember(c, "enqueue", {i})
  /\ UNCHANGED <<recordVars, active, admissionVars, queue, lastTicket, tokenVars>>

\* "Send now": the selected inputs go ahead of the others, in record order.
Dispatch(c, ids) ==
  LET chosen == ids \cap WithStatus("Queued") IN
  /\ Fresh(c)
  /\ status' = Moved(status, chosen, "Dispatching")
  /\ handedOff' = handedOff \ chosen
  /\ ready' = ready \o Keep(records, chosen)
  /\ IF chosen = {}
     THEN UNCHANGED <<paused, active, cancelling>>
     ELSE /\ paused' = FALSE
          /\ active' = Marked(active, "Steer")
          /\ CaptureToken
  /\ Remember(c, "dispatch", ids)
  /\ UNCHANGED <<records, suspended, valid, queue, lastTicket, cancelled>>

TakeBack(c, i) ==
  /\ Fresh(c)
  /\ status' = IF status[i] = "Queued" THEN [status EXCEPT ![i] = "Withdrawn"]
               ELSE status
  /\ Remember(c, "takeback", {i})
  /\ UNCHANGED <<records, handedOff, ready, active, admissionVars, queue,
                 lastTicket, tokenVars>>

-----------------------------------------------------------------------------
(* The host's ticket of one execution                                      *)

NewRun(managed, attached) ==
  [ticket |-> lastTicket + 1, managed |-> managed, attached |-> attached,
   reason |-> "None", outcome |-> "None"]

SlipReserveFrozen == ~paused /\ active = NoRun /\ ready # << >>
CanReserve == valid /\ ~paused /\ active = NoRun /\ ready # << >>

ReserveRun ==
  /\ CanReserve
  /\ active' = NewRun(TRUE, FALSE)
  /\ lastTicket' = lastTicket + 1
  /\ UNCHANGED <<recordVars, receipts, admissionVars, queue, tokenVars>>

CanAttach(t) ==
  /\ valid /\ ~paused
  /\ IsActive(t)
  /\ ~active.attached

\* A dispatch during the reservation interrupted nothing: the reason is reset.
AttachAttempt(t) ==
  /\ CanAttach(t)
  /\ active' = [active EXCEPT !.attached = TRUE, !.reason = "None"]
  /\ HandOff(ready, status, handedOff)
  /\ UNCHANGED <<records, status, receipts, admissionVars, lastTicket, tokenVars>>

\* A prompt or a continuation that does not come from the mailbox.
AttachExternalAttempt(resumePending) ==
  /\ valid
  /\ active = NoRun
  /\ active' = NewRun(FALSE, TRUE)
  /\ lastTicket' = lastTicket + 1
  /\ IF resumePending
     THEN /\ paused' = FALSE
          /\ PromoteAndHandOff(records, status)
     ELSE UNCHANGED <<paused, status, handedOff, ready, queue>>
  /\ UNCHANGED <<records, receipts, suspended, valid, tokenVars>>

RecordAttemptOutcome(t, outcome) ==
  /\ active' = IF IsActive(t)
               THEN [active EXCEPT !.outcome = outcome] ELSE active
  /\ UNCHANGED <<recordVars, receipts, admissionVars, queue, lastTicket, tokenVars>>

FinishAttempt(t, fallback) ==
  IF ~IsActive(t)
  THEN UNCHANGED mailboxVars
  ELSE LET outcome == IF active.outcome = "None" THEN fallback ELSE active.outcome
           unexplained == \/ outcome = "Failed"
                          \/ outcome = "Interrupted" /\ active.reason = "None"
       IN  /\ active' = NoRun
           /\ suspended' = FALSE
           /\ CASE ~valid -> UNCHANGED <<recordVars, paused, queue>>
                [] valid /\ (unexplained \/ paused) ->
                     /\ paused' = TRUE
                     /\ Reclaim
                     /\ UNCHANGED records
                [] valid /\ ~unexplained /\ ~paused ->
                     /\ IF active.reason = "None" /\ outcome = "Completed"
                        THEN PromoteNext(records, status)
                        ELSE UNCHANGED <<status, handedOff, ready>>
                     /\ UNCHANGED <<records, paused, queue>>
           /\ UNCHANGED <<receipts, valid, lastTicket, tokenVars>>

-----------------------------------------------------------------------------
(* Stop and invalidation                                                   *)

\* stop: a run not yet attached is revoked, an attached one is interrupted.
Stop ==
  /\ paused' = TRUE
  /\ suspended' = FALSE
  /\ active' = IF active = NoRun \/ ~active.attached THEN NoRun
               ELSE Marked(active, "Stop")
  /\ CaptureToken
  /\ Reclaim
  /\ UNCHANGED <<records, receipts, valid, lastTicket, cancelled>>

\* stop_attempt: a Stop that names a run acts on that run only.
StopAttempt(t) ==
  /\ valid
  /\ IsActive(t)
  /\ active.managed
  /\ active.attached
  /\ Stop

\* The first lock of invalidate; Stop follows under a second one.
Invalidate ==
  /\ valid' = FALSE
  /\ UNCHANGED <<recordVars, receipts, active, paused, suspended, queue,
                 lastTicket, tokenVars>>

-----------------------------------------------------------------------------
(* Receipts from the running loop                                          *)

EnterIdle ==
  /\ WakeSuspended(records, status, TRUE)
  /\ UNCHANGED <<records, receipts, active, paused, valid, lastTicket, tokenVars>>

LeaveIdle ==
  /\ suspended' = FALSE
  /\ UNCHANGED <<recordVars, receipts, active, paused, valid, queue,
                 lastTicket, tokenVars>>

MarkClaimed(ids) ==
  /\ status' = Moved(status, ids \cap WithStatus("Dispatching"), "Claimed")
  /\ UNCHANGED <<records, handedOff, ready, receipts, active, admissionVars,
                 queue, lastTicket, tokenVars>>

MarkDelivered(ids) ==
  /\ status' = Moved(status, ids \cap WithStatus("Claimed"), "Delivered")
  /\ UNCHANGED <<records, handedOff, ready, receipts, active, admissionVars,
                 queue, lastTicket, tokenVars>>

\* drain_all: Receive takes every entry of the queue, under the queue's lock.
DrainAll ==
  /\ queue' = << >>
  /\ UNCHANGED <<recordVars, receipts, active, admissionVars, lastTicket, tokenVars>>

\* token.cancel() of an interruption, after its unlock.
CancelToken(t) ==
  /\ t \in cancelling
  /\ cancelling' = cancelling \ {t}
  /\ cancelled' = cancelled \cup {t}
  /\ UNCHANGED <<recordVars, receipts, active, admissionVars, queue, lastTicket>>
=============================================================================

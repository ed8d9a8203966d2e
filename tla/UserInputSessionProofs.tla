----------------------- MODULE UserInputSessionProofs -----------------------
(***************************************************************************)
(* Theorems about every session, whatever its inputs, commands and bounds: *)
(* types; who holds the prompt lock; which runs a stop may interrupt;      *)
(* where every accepted input is, and that each is delivered once, along   *)
(* the lifecycle of UserInputDelivery; what a frozen owner and a paused    *)
(* session may not do.                                                     *)
(*                                                                         *)
(* First, that every operation of the mailbox preserves its types.  The    *)
(* one that needs more than types is the promotion: the input it picks     *)
(* exists because every input with a record is listed in `records'.        *)
(***************************************************************************)
EXTENDS UserInputSession, SequenceFilterProofs

\* Every input with a record is in recs.
Listed(recs, st) == \A i \in Inputs : st[i] # "Absent" => i \in Range(recs)

MailboxOK == MailboxTypeOK /\ Listed(records, status)

-----------------------------------------------------------------------------
(* Helpers                                                                 *)

\* What promote_next picks is the first record still queued.
LEMMA OldestIsFirst ==
  ASSUME NEW recs \in Seq(Inputs), NEW st \in [Inputs -> States],
         Listed(recs, st), CanPromote(st)
  PROVE  \E k \in DOMAIN recs :
           /\ Oldest(recs, st) = recs[k]
           /\ st[recs[k]] = "Queued"
           /\ \A m \in 1 .. (k - 1) : st[recs[m]] # "Queued"
<1> DEFINE Q == {n \in DOMAIN recs : st[recs[n]] = "Queued"}
<1>1. PICK i \in Inputs : st[i] = "Queued"
  BY DEF CanPromote
<1>2. Q # {} /\ Q \in SUBSET Nat
  BY <1>1 DEF Listed, Range
<1>3. PICK n \in Q : \A m \in Q : n <= m
  <2> HIDE DEF Q
  <2> QED
    BY <1>2, SmallestNat
<1>4. n \in DOMAIN recs /\ n \in Nat /\ st[recs[n]] = "Queued"
  BY <1>3
<1>5. ASSUME NEW m \in 1 .. (n - 1), st[recs[m]] = "Queued"
      PROVE  FALSE
  <2>1. m \in DOMAIN recs /\ m \in Nat /\ m < n
    BY <1>4
  <2> QED
    BY <1>3, <1>4, <1>5, <2>1
<1>6. \E k \in DOMAIN recs :
        /\ st[recs[k]] = "Queued"
        /\ \A m \in 1 .. (k - 1) : st[recs[m]] # "Queued"
  BY <1>4, <1>5
<1> QED
  BY <1>6 DEF Oldest

\* promote_next picks an input, and one that is queued.
LEMMA OldestIsQueued ==
  ASSUME NEW recs \in Seq(Inputs), NEW st \in [Inputs -> States],
         Listed(recs, st), CanPromote(st)
  PROVE  Oldest(recs, st) \in Inputs /\ st[Oldest(recs, st)] = "Queued"
<1>1. PICK k \in DOMAIN recs : Oldest(recs, st) = recs[k] /\ st[recs[k]] = "Queued"
  BY OldestIsFirst
<1> QED
  BY <1>1

\* Moving inputs to a state keeps the type of the records.
LEMMA MovedType ==
  ASSUME NEW st \in [Inputs -> States], NEW ids, NEW to \in States
  PROVE  Moved(st, ids, to) \in [Inputs -> States]
BY DEF Moved

\* Moving inputs that have a record between states other than Absent.
LEMMA MovedListed ==
  ASSUME NEW recs, NEW st \in [Inputs -> States], NEW ids, NEW to,
         Listed(recs, st), \A i \in ids : i \in Inputs => st[i] # "Absent"
  PROVE  Listed(recs, Moved(st, ids, to))
BY DEF Moved, Listed

\* promote_next keeps the types and the list of the records.
LEMMA PromoteNextType ==
  ASSUME MailboxTypeOK, NEW recs \in Seq(Inputs), NEW st \in [Inputs -> States],
         Listed(recs, st), PromoteNext(recs, st)
  PROVE  /\ status' \in [Inputs -> States] /\ Listed(recs, status')
         /\ handedOff' \in SUBSET Inputs /\ ready' \in Seq(Inputs)
<1>1. CASE CanPromote(st)
  <2> DEFINE i == Oldest(recs, st)
  <2>1. i \in Inputs /\ st[i] = "Queued"
    BY <1>1, OldestIsQueued
  <2> HIDE DEF i
  <2>2. /\ status' = Moved(st, {i}, "Dispatching")
        /\ handedOff' = handedOff \ {i}
        /\ ready' = Append(ready, i)
    BY <1>1 DEF PromoteNext, i
  <2>3. status' \in [Inputs -> States]
    BY <2>2, MovedType DEF States
  <2>4. Listed(recs, status')
    BY <2>1, <2>2, MovedListed
  <2>5. ready \in Seq(Inputs) /\ handedOff \in SUBSET Inputs
    BY DEF MailboxTypeOK
  <2>6. Append(ready, i) \in Seq(Inputs) /\ handedOff \ {i} \in SUBSET Inputs
    BY <2>1, <2>5
  <2> QED
    BY <2>2, <2>3, <2>4, <2>6
<1>2. CASE ~ CanPromote(st)
  BY <1>2 DEF PromoteNext, MailboxTypeOK
<1> QED
  BY <1>1, <1>2

\* handoff_locked keeps the types.
LEMMA HandOffType ==
  ASSUME MailboxTypeOK, NEW rdy \in Seq(Inputs), NEW st, NEW ho \in SUBSET Inputs,
         HandOff(rdy, st, ho)
  PROVE  /\ queue' \in Seq(Inputs) /\ handedOff' \in SUBSET Inputs
         /\ ready' \in Seq(Inputs)
<1> DEFINE S == {i \in Inputs : st[i] = "Dispatching" /\ i \notin ho}
           out == Keep(rdy, S)
<1>1. out \in Seq(Inputs)
  BY KeepElement
<1>2. Range(out) \in SUBSET Inputs
  BY KeepRange
<1> HIDE DEF S, out
<1>3. queue' = queue \o out /\ handedOff' = ho \cup Range(out) /\ ready' = << >>
  BY DEF HandOff, out, S
<1>4. queue \in Seq(Inputs)
  BY DEF MailboxTypeOK
<1> QED
  BY <1>1, <1>2, <1>3, <1>4

\* A promotion followed by a hand-off keeps the types and the list.
LEMMA PromoteAndHandOffType ==
  ASSUME MailboxTypeOK, NEW recs \in Seq(Inputs), NEW st \in [Inputs -> States],
         Listed(recs, st), PromoteAndHandOff(recs, st)
  PROVE  /\ status' \in [Inputs -> States] /\ Listed(recs, status')
         /\ queue' \in Seq(Inputs) /\ handedOff' \in SUBSET Inputs
         /\ ready' \in Seq(Inputs)
<1>0. ready \in Seq(Inputs) /\ handedOff \in SUBSET Inputs
  BY DEF MailboxTypeOK
<1>1. CASE CanPromote(st)
  <2> DEFINE i == Oldest(recs, st)
  <2>1. i \in Inputs /\ st[i] = "Queued"
    BY <1>1, OldestIsQueued
  <2> HIDE DEF i
  <2>2. /\ status' = Moved(st, {i}, "Dispatching")
        /\ HandOff(Append(ready, i), Moved(st, {i}, "Dispatching"), handedOff \ {i})
    BY <1>1 DEF PromoteAndHandOff, i
  <2>3. status' \in [Inputs -> States]
    BY <2>2, MovedType DEF States
  <2>4. Listed(recs, status')
    BY <2>1, <2>2, MovedListed
  <2>5. Append(ready, i) \in Seq(Inputs) /\ handedOff \ {i} \in SUBSET Inputs
    BY <1>0, <2>1
  <2> QED
    BY <2>2, <2>3, <2>4, <2>5, HandOffType
<1>2. CASE ~ CanPromote(st)
  BY <1>0, <1>2, HandOffType DEF PromoteAndHandOff
<1> QED
  BY <1>1, <1>2

\* wake_suspended_locked keeps the types and the list.
LEMMA WakeSuspendedType ==
  ASSUME MailboxTypeOK, NEW recs \in Seq(Inputs), NEW st \in [Inputs -> States],
         NEW atIdle \in BOOLEAN, Listed(recs, st), WakeSuspended(recs, st, atIdle)
  PROVE  /\ status' \in [Inputs -> States] /\ Listed(recs, status')
         /\ queue' \in Seq(Inputs) /\ handedOff' \in SUBSET Inputs
         /\ ready' \in Seq(Inputs) /\ suspended' \in BOOLEAN
<1>1. CASE Wakeable /\ atIdle /\ CanPromote(st)
  BY <1>1, PromoteAndHandOffType DEF WakeSuspended
<1>2. CASE ~ (Wakeable /\ atIdle /\ CanPromote(st))
  BY <1>2 DEF WakeSuspended, MailboxTypeOK
<1> QED
  BY <1>1, <1>2

\* reclaim_locked keeps the types and the list.
LEMMA ReclaimType ==
  ASSUME MailboxOK, Reclaim
  PROVE  /\ status' \in [Inputs -> States] /\ Listed(records, status')
         /\ queue' \in Seq(Inputs) /\ handedOff' \in SUBSET Inputs
         /\ ready' \in Seq(Inputs)
<1> DEFINE back == {i \in WithStatus("Dispatching") : i \notin handedOff \/ i \in Range(queue)}
           pushed == {i \in WithStatus("Dispatching") : i \in handedOff}
<1>1. /\ queue' = Keep(queue, Inputs \ pushed)
      /\ status' = Moved(status, back, "Queued")
      /\ handedOff' = handedOff \ back
      /\ ready' = << >>
  BY DEF Reclaim
<1>2. \A i \in back : i \in Inputs /\ status[i] # "Absent"
  BY DEF WithStatus
<1> HIDE DEF back, pushed
<1>3. status' \in [Inputs -> States]
  BY <1>1, MovedType DEF States, MailboxOK, MailboxTypeOK
<1>4. Listed(records, status')
  BY <1>1, <1>2, MovedListed DEF MailboxOK, MailboxTypeOK
<1>5. queue' \in Seq(Inputs)
  BY <1>1, KeepElement DEF MailboxOK, MailboxTypeOK
<1> QED
  BY <1>1, <1>3, <1>4, <1>5 DEF MailboxOK, MailboxTypeOK

\* An interruption leaves a well-formed run.
LEMMA MarkedType ==
  ASSUME NEW run \in Runs \cup {NoRun}, NEW why \in Reasons
  PROVE  Marked(run, why) \in Runs \cup {NoRun}
<1>1. CASE run = NoRun
  BY <1>1 DEF Marked
<1>2. CASE run # NoRun
  <2>1. run \in Runs
    BY <1>2
  <2>2. [run EXCEPT !.reason = why] \in Runs
    BY <2>1 DEF Runs
  <2> QED
    BY <1>2, <2>2 DEF Marked
<1> QED
  BY <1>1, <1>2

\* A new ticket is a well-formed run.
LEMMA NewRunType ==
  ASSUME lastTicket \in Nat, NEW managed \in BOOLEAN, NEW attached \in BOOLEAN
  PROVE  NewRun(managed, attached) \in Runs
BY DEF NewRun, Runs, Reasons

\* Capturing the token of the run keeps the set of tickets to cancel.
LEMMA CaptureTokenType ==
  ASSUME MailboxTypeOK, CaptureToken
  PROVE  cancelling' \in SUBSET Nat
<1>1. CASE active # NoRun /\ active.attached
  <2>1. active.ticket \in Nat
    BY <1>1 DEF MailboxTypeOK, Runs
  <2> QED
    BY <1>1, <2>1 DEF CaptureToken, MailboxTypeOK
<1>2. CASE ~ (active # NoRun /\ active.attached)
  BY <1>2 DEF CaptureToken, MailboxTypeOK
<1> QED
  BY <1>1, <1>2

\* A receipt is well formed.
LEMMA RememberType ==
  ASSUME MailboxTypeOK, NEW c \in Commands, NEW op \in {"enqueue", "dispatch", "takeback"},
         NEW ids \in SUBSET Inputs, Remember(c, op, ids)
  PROVE  receipts' \in [Commands -> Requests \cup {NoReceipt}]
<1>1. [op |-> op, ids |-> ids] \in Requests
  BY DEF Requests
<1> QED
  BY <1>1 DEF Remember, MailboxTypeOK

-----------------------------------------------------------------------------
(* Operations                                                              *)

\* The mailbox starts well typed.
LEMMA InitOK ==
  ASSUME MailboxInit
  PROVE  MailboxOK
<1>1. status \in [Inputs -> States] /\ Listed(records, status)
  BY DEF MailboxInit, States, Listed
<1>2. receipts \in [Commands -> Requests \cup {NoReceipt}]
  BY DEF MailboxInit
<1>3. records \in Seq(Inputs) /\ ready \in Seq(Inputs) /\ queue \in Seq(Inputs)
  BY EmptySeq DEF MailboxInit
<1> QED
  BY <1>1, <1>2, <1>3 DEF MailboxInit, MailboxOK, MailboxTypeOK

\* enqueue of a new input.
LEMMA EnqueueOK ==
  ASSUME MailboxOK, NEW c \in Commands, NEW i \in Inputs, Enqueue(c, i)
  PROVE  MailboxOK'
<1> DEFINE st == [status EXCEPT ![i] = "Queued"]
<1>1. records \in Seq(Inputs) /\ status \in [Inputs -> States] /\ Listed(records, status)
  BY DEF MailboxOK, MailboxTypeOK
<1>2. records' = Append(records, i)
  BY DEF Enqueue
<1>3. records' \in Seq(Inputs) /\ Range(records') = Range(records) \cup {i}
  <2>1. Append(records, i) \in Seq(Inputs)
    BY <1>1
  <2>2. /\ DOMAIN Append(records, i) = DOMAIN records \cup {Len(records) + 1}
        /\ \A n \in DOMAIN records : Append(records, i)[n] = records[n]
        /\ Append(records, i)[Len(records) + 1] = i
    BY <1>1
  <2> QED
    BY <1>2, <2>1, <2>2 DEF Range
<1>4. st \in [Inputs -> States] /\ Listed(records', st)
  BY <1>1, <1>3 DEF States, Listed
<1>5. receipts' \in [Commands -> Requests \cup {NoReceipt}]
  BY RememberType DEF Enqueue, MailboxOK
<1>6. /\ active' = active /\ valid' = valid /\ lastTicket' = lastTicket
      /\ cancelling' = cancelling /\ cancelled' = cancelled
  BY DEF Enqueue, tokenVars
<1>7. MailboxTypeOK
  BY DEF MailboxOK
<1>8. \/ /\ paused' = FALSE
         /\ PromoteNext(records', st)
         /\ UNCHANGED <<suspended, queue>>
      \/ /\ WakeSuspended(records', st, suspended)
         /\ UNCHANGED paused
  BY DEF Enqueue
<1> HIDE DEF st
<1>9. /\ status' \in [Inputs -> States] /\ Listed(records', status')
      /\ handedOff' \in SUBSET Inputs /\ ready' \in Seq(Inputs)
      /\ queue' \in Seq(Inputs)
      /\ paused' \in BOOLEAN /\ suspended' \in BOOLEAN
  <2>1. CASE /\ paused' = FALSE
             /\ PromoteNext(records', st)
             /\ UNCHANGED <<suspended, queue>>
    BY <2>1, <1>3, <1>4, <1>7, PromoteNextType DEF MailboxTypeOK
  <2>2. CASE WakeSuspended(records', st, suspended) /\ UNCHANGED paused
    <3>1. suspended \in BOOLEAN /\ paused \in BOOLEAN
      BY <1>7 DEF MailboxTypeOK
    <3> QED
      BY <2>2, <3>1, <1>3, <1>4, <1>7, WakeSuspendedType
  <2> QED
    BY <1>8, <2>1, <2>2
<1> QED
  BY <1>3, <1>5, <1>6, <1>7, <1>9 DEF MailboxOK, MailboxTypeOK

\* enqueue of an input the mailbox knows.
LEMMA EnqueueKnownOK ==
  ASSUME MailboxOK, NEW c \in Commands, NEW i \in Inputs, EnqueueKnown(c, i)
  PROVE  MailboxOK'
<1>1. receipts' \in [Commands -> Requests \cup {NoReceipt}]
  BY RememberType DEF EnqueueKnown, MailboxOK
<1> QED
  BY <1>1 DEF EnqueueKnown, MailboxOK, MailboxTypeOK, Listed, recordVars,
              admissionVars, tokenVars

\* dispatch ("send now").
LEMMA DispatchOK ==
  ASSUME MailboxOK, NEW c \in Commands, NEW ids \in SUBSET Inputs, Dispatch(c, ids)
  PROVE  MailboxOK'
<1> DEFINE chosen == ids \cap WithStatus("Queued")
<1>1. MailboxTypeOK /\ Listed(records, status)
  BY DEF MailboxOK
<1>2. /\ status' = Moved(status, chosen, "Dispatching")
      /\ handedOff' = handedOff \ chosen
      /\ ready' = ready \o Keep(records, chosen)
      /\ Remember(c, "dispatch", ids)
      /\ UNCHANGED <<records, suspended, valid, queue, lastTicket, cancelled>>
  BY DEF Dispatch
<1>3. \/ UNCHANGED <<paused, active, cancelling>>
      \/ paused' = FALSE /\ active' = Marked(active, "Steer") /\ CaptureToken
  BY DEF Dispatch
<1>4. \A i \in chosen : i \in Inputs /\ status[i] # "Absent"
  BY DEF WithStatus
<1> HIDE DEF chosen
<1>5. status' \in [Inputs -> States] /\ Listed(records, status')
  <2>1. status' \in [Inputs -> States]
    BY <1>1, <1>2, MovedType DEF States, MailboxTypeOK
  <2>2. Listed(records, status')
    BY <1>1, <1>2, <1>4, MovedListed DEF MailboxTypeOK
  <2> QED
    BY <2>1, <2>2
<1>6. ready' \in Seq(Inputs)
  <2>1. records \in Seq(Inputs) /\ ready \in Seq(Inputs)
    BY <1>1 DEF MailboxTypeOK
  <2>2. Keep(records, chosen) \in Seq(Inputs)
    BY <2>1, KeepElement
  <2> QED
    BY <1>2, <2>1, <2>2
<1>7. receipts' \in [Commands -> Requests \cup {NoReceipt}]
  BY <1>1, <1>2, RememberType
<1>8. paused' \in BOOLEAN /\ active' \in Runs \cup {NoRun} /\ cancelling' \in SUBSET Nat
  <2>1. CASE UNCHANGED <<paused, active, cancelling>>
    BY <1>1, <2>1 DEF MailboxTypeOK
  <2>2. CASE paused' = FALSE /\ active' = Marked(active, "Steer") /\ CaptureToken
    <3>1. active \in Runs \cup {NoRun} /\ "Steer" \in Reasons
      BY <1>1 DEF MailboxTypeOK, Reasons
    <3>2. active' \in Runs \cup {NoRun}
      BY <2>2, <3>1, MarkedType
    <3>3. cancelling' \in SUBSET Nat
      BY <1>1, <2>2, CaptureTokenType
    <3> QED
      BY <2>2, <3>2, <3>3
  <2> QED
    BY <1>3, <2>1, <2>2
<1> QED
  BY <1>1, <1>2, <1>5, <1>6, <1>7, <1>8 DEF MailboxOK, MailboxTypeOK, Listed

\* take back of an input.
LEMMA TakeBackOK ==
  ASSUME MailboxOK, NEW c \in Commands, NEW i \in Inputs, TakeBack(c, i)
  PROVE  MailboxOK'
<1>1. receipts' \in [Commands -> Requests \cup {NoReceipt}]
  BY RememberType DEF TakeBack, MailboxOK
<1>2. status' \in [Inputs -> States] /\ Listed(records, status')
  <2>1. status \in [Inputs -> States] /\ Listed(records, status)
    BY DEF MailboxOK, MailboxTypeOK
  <2>2. status' = IF status[i] = "Queued" THEN [status EXCEPT ![i] = "Withdrawn"] ELSE status
    BY DEF TakeBack
  <2> QED
    BY <2>1, <2>2 DEF States, Listed
<1> QED
  BY <1>1, <1>2 DEF TakeBack, MailboxOK, MailboxTypeOK, Listed, admissionVars, tokenVars

\* reserve_run.
LEMMA ReserveRunOK ==
  ASSUME MailboxOK, ReserveRun
  PROVE  MailboxOK'
<1>1. active' \in Runs /\ lastTicket' \in Nat
  <2>1. lastTicket \in Nat
    BY DEF MailboxOK, MailboxTypeOK
  <2>2. active' = NewRun(TRUE, FALSE) /\ lastTicket' = lastTicket + 1
    BY DEF ReserveRun
  <2>3. NewRun(TRUE, FALSE) \in Runs
    BY <2>1, NewRunType
  <2>4. lastTicket + 1 \in Nat
    BY <2>1
  <2> QED
    BY <2>2, <2>3, <2>4
<1> QED
  BY <1>1 DEF ReserveRun, MailboxOK, MailboxTypeOK, Listed, recordVars,
              admissionVars, tokenVars

\* attach of a reserved run.
LEMMA AttachAttemptOK ==
  ASSUME MailboxOK, NEW t, AttachAttempt(t)
  PROVE  MailboxOK'
<1>1. MailboxTypeOK
  BY DEF MailboxOK
<1>2. active' \in Runs
  <2>1. active \in Runs
    BY <1>1 DEF AttachAttempt, CanAttach, IsActive, MailboxTypeOK
  <2> QED
    BY <2>1 DEF AttachAttempt, Runs, Reasons
<1>3. queue' \in Seq(Inputs) /\ handedOff' \in SUBSET Inputs /\ ready' \in Seq(Inputs)
  <2>1. ready \in Seq(Inputs) /\ handedOff \in SUBSET Inputs
    BY <1>1 DEF MailboxTypeOK
  <2> QED
    BY <1>1, <2>1, HandOffType DEF AttachAttempt
<1> QED
  BY <1>1, <1>2, <1>3 DEF AttachAttempt, MailboxOK, MailboxTypeOK, Listed,
                          admissionVars, tokenVars

\* attach of a run that does not come from the mailbox.
LEMMA AttachExternalAttemptOK ==
  ASSUME MailboxOK, NEW resume \in BOOLEAN, AttachExternalAttempt(resume)
  PROVE  MailboxOK'
<1>1. MailboxTypeOK /\ Listed(records, status)
  BY DEF MailboxOK
<1>2. active' \in Runs /\ lastTicket' \in Nat
  <2>1. lastTicket \in Nat
    BY <1>1 DEF MailboxTypeOK
  <2>2. active' = NewRun(FALSE, TRUE) /\ lastTicket' = lastTicket + 1
    BY DEF AttachExternalAttempt
  <2>3. NewRun(FALSE, TRUE) \in Runs
    BY <2>1, NewRunType
  <2>4. lastTicket + 1 \in Nat
    BY <2>1
  <2> QED
    BY <2>2, <2>3, <2>4
<1>3. /\ status' \in [Inputs -> States] /\ Listed(records, status')
      /\ queue' \in Seq(Inputs) /\ handedOff' \in SUBSET Inputs
      /\ ready' \in Seq(Inputs) /\ paused' \in BOOLEAN
  <2>1. CASE resume
    <3>1. records \in Seq(Inputs) /\ status \in [Inputs -> States]
      BY <1>1 DEF MailboxTypeOK
    <3>2. paused' = FALSE /\ PromoteAndHandOff(records, status)
      BY <2>1 DEF AttachExternalAttempt
    <3> QED
      BY <1>1, <3>1, <3>2, PromoteAndHandOffType
  <2>2. CASE ~ resume
    BY <1>1, <2>2 DEF AttachExternalAttempt, MailboxTypeOK
  <2> QED
    BY <2>1, <2>2
<1> QED
  BY <1>1, <1>2, <1>3 DEF AttachExternalAttempt, MailboxOK, MailboxTypeOK, Listed,
                          tokenVars

\* record_attempt_outcome.
LEMMA RecordAttemptOutcomeOK ==
  ASSUME MailboxOK, NEW t, NEW outcome \in Outcomes \cup {"None"},
         RecordAttemptOutcome(t, outcome)
  PROVE  MailboxOK'
<1>1. active' \in Runs \cup {NoRun}
  <2>1. active \in Runs \cup {NoRun}
    BY DEF MailboxOK, MailboxTypeOK
  <2>2. CASE IsActive(t)
    <3>1. active \in Runs /\ active' = [active EXCEPT !.outcome = outcome]
      BY <2>1, <2>2 DEF IsActive, RecordAttemptOutcome
    <3> QED
      BY <3>1 DEF Runs
  <2>3. CASE ~ IsActive(t)
    BY <2>1, <2>3 DEF RecordAttemptOutcome
  <2> QED
    BY <2>2, <2>3
<1> QED
  BY <1>1 DEF RecordAttemptOutcome, MailboxOK, MailboxTypeOK, Listed, recordVars,
              admissionVars, tokenVars

\* finish_attempt.
LEMMA FinishAttemptOK ==
  ASSUME MailboxOK, NEW t, NEW fallback, FinishAttempt(t, fallback)
  PROVE  MailboxOK'
<1>1. MailboxTypeOK /\ Listed(records, status)
  BY DEF MailboxOK
<1>2. CASE ~ IsActive(t)
  BY <1>1, <1>2 DEF FinishAttempt, mailboxVars, MailboxOK, MailboxTypeOK, Listed,
                    recordVars, admissionVars, tokenVars
<1>3. CASE IsActive(t)
  <2>1. /\ active' = NoRun /\ suspended' = FALSE
        /\ UNCHANGED <<records, receipts, valid, lastTicket, tokenVars>>
    BY <1>3 DEF FinishAttempt, recordVars
  <2>2. \/ UNCHANGED <<recordVars, paused, queue>>
        \/ paused' = TRUE /\ Reclaim
        \/ PromoteNext(records, status) /\ UNCHANGED <<paused, queue>>
        \/ UNCHANGED <<status, handedOff, ready, paused, queue>>
    BY <1>3 DEF FinishAttempt
  <2>3. /\ status' \in [Inputs -> States] /\ Listed(records, status')
        /\ queue' \in Seq(Inputs) /\ handedOff' \in SUBSET Inputs
        /\ ready' \in Seq(Inputs) /\ paused' \in BOOLEAN
    <3>1. CASE UNCHANGED <<status, handedOff, ready, paused, queue>>
      BY <1>1, <3>1 DEF MailboxTypeOK
    <3>2. CASE paused' = TRUE /\ Reclaim
      BY <3>2, ReclaimType
    <3>3. CASE PromoteNext(records, status) /\ UNCHANGED <<paused, queue>>
      <4>1. /\ records \in Seq(Inputs) /\ status \in [Inputs -> States]
            /\ paused \in BOOLEAN /\ queue \in Seq(Inputs)
        BY <1>1 DEF MailboxTypeOK
      <4> QED
        BY <1>1, <3>3, <4>1, PromoteNextType
    <3> QED
      BY <2>2, <3>1, <3>2, <3>3 DEF recordVars
  <2> QED
    BY <1>1, <2>1, <2>3 DEF MailboxOK, MailboxTypeOK, Listed, tokenVars
<1> QED
  BY <1>2, <1>3

\* stop.
LEMMA StopOK ==
  ASSUME MailboxOK, Stop
  PROVE  MailboxOK'
<1>1. MailboxTypeOK
  BY DEF MailboxOK
<1>2. /\ status' \in [Inputs -> States] /\ Listed(records, status')
      /\ queue' \in Seq(Inputs) /\ handedOff' \in SUBSET Inputs
      /\ ready' \in Seq(Inputs)
  BY ReclaimType DEF Stop
<1>3. active' \in Runs \cup {NoRun}
  <2>1. active \in Runs \cup {NoRun} /\ "Stop" \in Reasons
    BY <1>1 DEF MailboxTypeOK, Reasons
  <2>2. active' = NoRun \/ active' = Marked(active, "Stop")
    BY DEF Stop
  <2> QED
    BY <2>1, <2>2, MarkedType
<1>4. cancelling' \in SUBSET Nat
  BY <1>1, CaptureTokenType DEF Stop
<1> QED
  BY <1>1, <1>2, <1>3, <1>4 DEF Stop, MailboxOK, MailboxTypeOK, Listed

\* The first lock of invalidate.
LEMMA InvalidateOK ==
  ASSUME MailboxOK, Invalidate
  PROVE  MailboxOK'
BY DEF Invalidate, MailboxOK, MailboxTypeOK, Listed, recordVars, tokenVars

\* enter_idle.
LEMMA EnterIdleOK ==
  ASSUME MailboxOK, EnterIdle
  PROVE  MailboxOK'
<1>1. MailboxTypeOK /\ Listed(records, status)
  BY DEF MailboxOK
<1>2. /\ status' \in [Inputs -> States] /\ Listed(records, status')
      /\ queue' \in Seq(Inputs) /\ handedOff' \in SUBSET Inputs
      /\ ready' \in Seq(Inputs) /\ suspended' \in BOOLEAN
  <2>1. records \in Seq(Inputs) /\ status \in [Inputs -> States]
    BY <1>1 DEF MailboxTypeOK
  <2> QED
    BY <1>1, <2>1, WakeSuspendedType DEF EnterIdle
<1> QED
  BY <1>1, <1>2 DEF EnterIdle, MailboxOK, MailboxTypeOK, Listed, tokenVars

\* leave_idle.
LEMMA LeaveIdleOK ==
  ASSUME MailboxOK, LeaveIdle
  PROVE  MailboxOK'
BY DEF LeaveIdle, MailboxOK, MailboxTypeOK, Listed, recordVars, tokenVars

\* mark_claimed.
LEMMA MarkClaimedOK ==
  ASSUME MailboxOK, NEW ids, MarkClaimed(ids)
  PROVE  MailboxOK'
<1> DEFINE moved == ids \cap WithStatus("Dispatching")
<1>1. MailboxTypeOK /\ Listed(records, status) /\ status' = Moved(status, moved, "Claimed")
  BY DEF MailboxOK, MarkClaimed
<1>2. \A i \in moved : i \in Inputs /\ status[i] # "Absent"
  BY DEF WithStatus
<1> HIDE DEF moved
<1>3. status' \in [Inputs -> States]
  BY <1>1, MovedType DEF States, MailboxTypeOK
<1>4. Listed(records, status')
  BY <1>1, <1>2, MovedListed DEF MailboxTypeOK
<1> QED
  BY <1>1, <1>3, <1>4 DEF MarkClaimed, MailboxOK, MailboxTypeOK, Listed,
                          admissionVars, tokenVars

\* mark_delivered.
LEMMA MarkDeliveredOK ==
  ASSUME MailboxOK, NEW ids, MarkDelivered(ids)
  PROVE  MailboxOK'
<1> DEFINE moved == ids \cap WithStatus("Claimed")
<1>1. MailboxTypeOK /\ Listed(records, status) /\ status' = Moved(status, moved, "Delivered")
  BY DEF MailboxOK, MarkDelivered
<1>2. \A i \in moved : i \in Inputs /\ status[i] # "Absent"
  BY DEF WithStatus
<1> HIDE DEF moved
<1>3. status' \in [Inputs -> States]
  BY <1>1, MovedType DEF States, MailboxTypeOK
<1>4. Listed(records, status')
  BY <1>1, <1>2, MovedListed DEF MailboxTypeOK
<1> QED
  BY <1>1, <1>3, <1>4 DEF MarkDelivered, MailboxOK, MailboxTypeOK, Listed,
                          admissionVars, tokenVars

\* drain_all of the queue.
LEMMA DrainAllOK ==
  ASSUME MailboxOK, DrainAll
  PROVE  MailboxOK'
<1>1. queue' \in Seq(Inputs)
  BY EmptySeq DEF DrainAll
<1> QED
  BY <1>1 DEF DrainAll, MailboxOK, MailboxTypeOK, Listed, recordVars,
              admissionVars, tokenVars

\* The cancellation of a captured token.
LEMMA CancelTokenOK ==
  ASSUME MailboxOK, NEW t, CancelToken(t)
  PROVE  MailboxOK'
BY DEF CancelToken, MailboxOK, MailboxTypeOK, Listed, recordVars, admissionVars

\* A step that leaves the mailbox alone.
LEMMA UnchangedOK ==
  ASSUME MailboxOK, UNCHANGED mailboxVars
  PROVE  MailboxOK'
BY DEF mailboxVars, MailboxOK, MailboxTypeOK, Listed, recordVars,
       admissionVars, tokenVars

-----------------------------------------------------------------------------
(* Types                                                                   *)

\* TypeOK without the mailbox.
LocalOK ==
  /\ pc \in Phases
  /\ holder \in Nat
  /\ batch \in Seq(Inputs)
  /\ transcript \in Seq(Inputs)
  /\ iterations \in Nat
  /\ otherWork \in BOOLEAN
  /\ result \in Outcomes \cup {"None"}
  /\ waiting \in SUBSET Nat
  /\ kicks \in Nat
  /\ closing \in BOOLEAN
  /\ stopsSent \in SUBSET Nat
  /\ disruptions \in Nat

\* The inductive invariant: the types, and every input with a record is listed.
SessionOK == MailboxOK /\ LocalOK

\* The inductive invariant is the type invariant and the list of the records.
LEMMA SessionTypes == SessionOK <=> TypeOK /\ Listed(records, status)
BY DEF SessionOK, MailboxOK, LocalOK, TypeOK

\* The session starts well typed.
LEMMA SessionInitOK == Init => SessionOK
<1> SUFFICES ASSUME Init PROVE SessionOK
  OBVIOUS
<1>1. MailboxOK
  BY InitOK DEF Init
<1>2. batch \in Seq(Inputs) /\ transcript \in Seq(Inputs)
  BY EmptySeq DEF Init
<1> QED
  BY <1>1, <1>2 DEF Init, SessionOK, LocalOK, Phases

\* Clients keep the types.
LEMMA ClientStepOK ==
  ASSUME SessionOK, Client
  PROVE  SessionOK'
<1> USE DEF SessionOK
<1>1. ASSUME NEW c \in Commands, NEW i \in Inputs, ClientEnqueue(c, i)
      PROVE  SessionOK'
  <2>1. MailboxOK'
    BY <1>1, EnqueueOK, EnqueueKnownOK DEF ClientEnqueue
  <2>2. LocalOK'
    BY <1>1 DEF ClientEnqueue, Kick, LocalOK, loopVars, clientVars
  <2> QED
    BY <2>1, <2>2
<1>2. ASSUME NEW c \in Commands, NEW i \in Inputs, ClientTakeBack(c, i)
      PROVE  SessionOK'
  <2>1. MailboxOK'
    BY <1>2, TakeBackOK DEF ClientTakeBack
  <2>2. LocalOK'
    BY <1>2 DEF ClientTakeBack, LocalOK, loopVars, hostVars, clientVars
  <2> QED
    BY <2>1, <2>2
<1>3. ASSUME NEW c \in Commands, NEW ids \in SUBSET Inputs, ClientDispatch(c, ids)
      PROVE  SessionOK'
  <2>1. MailboxOK'
    BY <1>3, DispatchOK DEF ClientDispatch
  <2>2. LocalOK'
    BY <1>3 DEF ClientDispatch, Kick, LocalOK, loopVars, clientVars
  <2> QED
    BY <2>1, <2>2
<1>4. ASSUME NEW c \in Commands, ClientRetry(c)
      PROVE  SessionOK'
  <2>1. MailboxOK'
    BY <1>4, UnchangedOK DEF ClientRetry
  <2>2. LocalOK'
    BY <1>4 DEF ClientRetry, Kick, LocalOK, loopVars, clientVars
  <2> QED
    BY <2>1, <2>2
<1>5. ASSUME SendStop
      PROVE  SessionOK'
  <2>1. MailboxOK'
    BY <1>5, UnchangedOK DEF SendStop
  <2>2. active.ticket \in Nat
    BY <1>5 DEF SendStop, MailboxOK, MailboxTypeOK, Runs
  <2>3. stopsSent' \in SUBSET Nat
    BY <1>5, <2>2 DEF SendStop, LocalOK
  <2>4. LocalOK'
    BY <1>5, <2>3 DEF SendStop, Disrupt, LocalOK, loopVars, hostVars
  <2> QED
    BY <2>1, <2>4
<1>6. ASSUME NEW t \in stopsSent, ReceiveStop(t)
      PROVE  SessionOK'
  <2>1. MailboxOK'
    BY <1>6, StopOK DEF ReceiveStop, StopAttempt
  <2>2. LocalOK'
    BY <1>6 DEF ReceiveStop, LocalOK, loopVars, hostVars, clientVars
  <2> QED
    BY <2>1, <2>2
<1>7. ASSUME LegacyStop
      PROVE  SessionOK'
  <2>1. MailboxOK'
    BY <1>7, StopOK DEF LegacyStop
  <2>2. LocalOK'
    BY <1>7 DEF LegacyStop, Disrupt, LocalOK, loopVars, hostVars
  <2> QED
    BY <2>1, <2>2
<1>8. ASSUME Close
      PROVE  SessionOK'
  <2>1. MailboxOK'
    BY <1>8, InvalidateOK DEF Close
  <2>2. LocalOK'
    BY <1>8 DEF Close, Disrupt, LocalOK, loopVars
  <2> QED
    BY <2>1, <2>2
<1> QED
  BY <1>1, <1>2, <1>3, <1>4, <1>5, <1>6, <1>7, <1>8 DEF Client

\* The host keeps the types.
LEMMA HostStepOK ==
  ASSUME SessionOK,
         \/ Schedule \/ StartWaiting \/ Cancel \/ CloseStop
         \/ \E resume \in BOOLEAN : StartExternal(resume)
         \/ \E t \in waiting : AbortWaiting(t)
  PROVE  SessionOK'
<1> USE DEF SessionOK
<1>0. lastTicket \in Nat /\ "Failed" \in Outcomes
  BY DEF MailboxOK, MailboxTypeOK, Outcomes
<1>1. ASSUME Schedule
      PROVE  SessionOK'
  <2>1. MailboxOK'
    BY <1>1, ReserveRunOK, UnchangedOK DEF Schedule
  <2>2. waiting' \in SUBSET Nat
    <3>1. waiting \in SUBSET Nat
      BY DEF LocalOK
    <3>2. \/ waiting' = waiting \cup {lastTicket'} /\ lastTicket' = lastTicket + 1
          \/ waiting' = waiting
      BY <1>1 DEF Schedule, ReserveRun
    <3>3. lastTicket + 1 \in Nat
      BY <1>0
    <3> QED
      BY <3>1, <3>2, <3>3
  <2>3. kicks' \in Nat
    BY <1>1 DEF Schedule, LocalOK
  <2> QED
    BY <1>1, <2>1, <2>2, <2>3 DEF Schedule, LocalOK, loopVars, clientVars
<1>2. ASSUME NEW t \in waiting, StartManaged(t)
      PROVE  SessionOK'
  <2>1. MailboxOK'
    BY <1>2, AttachAttemptOK, UnchangedOK DEF StartManaged
  <2>2. t \in Nat
    BY DEF LocalOK
  <2>3. pc' \in Phases /\ holder' \in Nat /\ kicks' \in Nat
    BY <1>2, <2>2 DEF StartManaged, Kick, LocalOK, Phases
  <2> QED
    BY <1>2, <2>1, <2>3 DEF StartManaged, LocalOK, clientVars
<1>3. ASSUME NEW t \in cancelling, DeliverCancel(t)
      PROVE  SessionOK'
  <2>1. MailboxOK'
    BY <1>3, CancelTokenOK DEF DeliverCancel
  <2>2. LocalOK'
    BY <1>3 DEF DeliverCancel, LocalOK, loopVars, hostVars, clientVars
  <2> QED
    BY <2>1, <2>2
<1>4. ASSUME CloseStop
      PROVE  SessionOK'
  <2>1. MailboxOK'
    BY <1>4, StopOK DEF CloseStop
  <2>2. LocalOK'
    BY <1>4 DEF CloseStop, LocalOK, loopVars, clientVars
  <2> QED
    BY <2>1, <2>2
<1>5. ASSUME NEW resume \in BOOLEAN, StartExternal(resume)
      PROVE  SessionOK'
  <2>1. MailboxOK'
    BY <1>5, AttachExternalAttemptOK DEF StartExternal
  <2>2. holder' \in Nat
    BY <1>0, <1>5 DEF StartExternal, AttachExternalAttempt
  <2>3. pc' \in Phases
    BY <1>5 DEF StartExternal, Phases
  <2> QED
    BY <1>5, <2>1, <2>2, <2>3 DEF StartExternal, Disrupt, LocalOK, hostVars
<1>6. ASSUME NEW t \in waiting, AbortWaiting(t)
      PROVE  SessionOK'
  <2>1. MailboxOK'
    BY <1>0, <1>6, FinishAttemptOK DEF AbortWaiting
  <2>2. LocalOK'
    BY <1>6 DEF AbortWaiting, Kick, Disrupt, LocalOK, loopVars
  <2> QED
    BY <2>1, <2>2
<1> QED
  BY <1>1, <1>2, <1>3, <1>4, <1>5, <1>6 DEF StartWaiting, Cancel

\* The run keeps the types.
LEMMA RunStepOK ==
  ASSUME SessionOK, Run \/ AbortRun \/ IterationError \/ SettleInconsistent \/ WakeForTask
  PROVE  SessionOK'
<1> USE DEF SessionOK
<1>1. ASSUME KeepGoing
      PROVE  SessionOK'
  <2>1. MailboxOK'
    BY <1>1, UnchangedOK DEF KeepGoing
  <2>2. LocalOK'
    BY <1>1 DEF KeepGoing, LocalOK, Phases, Outcomes, LoopStep, hostVars, clientVars
  <2> QED
    BY <2>1, <2>2
<1>2. ASSUME Interrupted
      PROVE  SessionOK'
  <2>1. MailboxOK'
    BY <1>2, UnchangedOK DEF Interrupted
  <2>2. LocalOK'
    BY <1>2 DEF Interrupted, LocalOK, Phases, Outcomes, LoopStep, hostVars, clientVars
  <2> QED
    BY <2>1, <2>2
<1>3. ASSUME Drain
      PROVE  SessionOK'
  <2>1. MailboxOK'
    BY <1>3, DrainAllOK DEF Drain
  <2>2. LocalOK'
    BY <1>3 DEF Drain, LocalOK, Phases, Outcomes, LoopStep, hostVars, clientVars, MailboxOK, MailboxTypeOK
  <2> QED
    BY <2>1, <2>2
<1>4. ASSUME Claim
      PROVE  SessionOK'
  <2>1. MailboxOK'
    BY <1>4, MarkClaimedOK DEF Claim
  <2>2. LocalOK'
    BY <1>4 DEF Claim, LocalOK, Phases, Outcomes, LoopStep, hostVars, clientVars
  <2> QED
    BY <2>1, <2>2
<1>5. ASSUME AppendToTranscript
      PROVE  SessionOK'
  <2>1. MailboxOK'
    BY <1>5, UnchangedOK DEF AppendToTranscript
  <2>2. LocalOK'
    BY <1>5 DEF AppendToTranscript, LocalOK, Phases, Outcomes, LoopStep, hostVars, clientVars
  <2> QED
    BY <2>1, <2>2
<1>6. ASSUME Deliver
      PROVE  SessionOK'
  <2>1. MailboxOK'
    BY <1>6, MarkDeliveredOK DEF Deliver
  <2>2. LocalOK'
    BY <1>6 DEF Deliver, LocalOK, Phases, Outcomes, LoopStep, hostVars, clientVars
  <2> QED
    BY <2>1, <2>2
<1>7. ASSUME StartIteration
      PROVE  SessionOK'
  <2>1. MailboxOK'
    BY <1>7, UnchangedOK DEF StartIteration
  <2>2. iterations' \in Nat
    BY <1>7 DEF StartIteration, LoopStep, LocalOK
  <2>3. LocalOK'
    BY <1>7, <2>2 DEF StartIteration, LocalOK, Phases, Outcomes, LoopStep, hostVars, clientVars
  <2> QED
    BY <2>1, <2>3
<1>8. ASSUME EndIteration
      PROVE  SessionOK'
  <2>1. MailboxOK'
    BY <1>8, UnchangedOK DEF EndIteration
  <2>2. LocalOK'
    BY <1>8 DEF EndIteration, LocalOK, Phases, Outcomes, LoopStep, hostVars, clientVars
  <2> QED
    BY <2>1, <2>2
<1>9. ASSUME Complete
      PROVE  SessionOK'
  <2>1. MailboxOK'
    BY <1>9, UnchangedOK DEF Complete
  <2>2. LocalOK'
    BY <1>9 DEF Complete, LocalOK, Phases, Outcomes, LoopStep, hostVars, clientVars
  <2> QED
    BY <2>1, <2>2
<1>10. ASSUME GoIdle
      PROVE  SessionOK'
  <2>1. MailboxOK'
    BY <1>10, EnterIdleOK DEF GoIdle
  <2>2. LocalOK'
    BY <1>10 DEF GoIdle, LocalOK, Phases, Outcomes, LoopStep, hostVars, clientVars
  <2> QED
    BY <2>1, <2>2
<1>11. ASSUME Suspend
      PROVE  SessionOK'
  <2>1. MailboxOK'
    BY <1>11, LeaveIdleOK, UnchangedOK DEF Suspend
  <2>2. LocalOK'
    BY <1>11 DEF Suspend, LocalOK, Phases, Outcomes, LoopStep, hostVars, clientVars
  <2> QED
    BY <2>1, <2>2
<1>12. ASSUME Wake /\ otherWork' \in BOOLEAN
      PROVE  SessionOK'
  <2>1. MailboxOK'
    BY <1>12, LeaveIdleOK DEF Wake
  <2>2. LocalOK'
    BY <1>12 DEF Wake, LocalOK, Phases, Outcomes, LoopStep, hostVars, clientVars
  <2> QED
    BY <2>1, <2>2
<1>13. ASSUME Settle
      PROVE  SessionOK'
  <2>0. result' \in Outcomes \cup {"None"}
    BY <1>13 DEF Settle, LocalOK, Outcomes
  <2>1. MailboxOK'
    BY <1>13, <2>0, RecordAttemptOutcomeOK DEF Settle
  <2>2. LocalOK'
    BY <1>13, <2>0 DEF Settle, LocalOK, Phases, Outcomes, LoopStep, hostVars, clientVars
  <2> QED
    BY <2>1, <2>2
<1>14. ASSUME Freeze
      PROVE  SessionOK'
  <2>1. MailboxOK'
    BY <1>14, InvalidateOK DEF Freeze
  <2>2. LocalOK'
    BY <1>14 DEF Freeze, LocalOK, Phases, Outcomes, LoopStep, hostVars, clientVars
  <2> QED
    BY <2>1, <2>2
<1>15. ASSUME FreezeStop
      PROVE  SessionOK'
  <2>1. MailboxOK'
    BY <1>15, StopOK DEF FreezeStop
  <2>2. LocalOK'
    BY <1>15 DEF FreezeStop, LocalOK, Phases, Outcomes, LoopStep, hostVars, clientVars
  <2> QED
    BY <2>1, <2>2
<1>16. ASSUME Finish
      PROVE  SessionOK'
  <2>1. MailboxOK'
    BY <1>16, FinishAttemptOK DEF Finish
  <2>2. LocalOK'
    BY <1>16 DEF Finish, LocalOK, Phases, Outcomes, hostVars, clientVars
  <2> QED
    BY <2>1, <2>2
<1>17. ASSUME FinishAborted
      PROVE  SessionOK'
  <2>1. MailboxOK'
    BY <1>17, FinishAttemptOK DEF FinishAborted
  <2>2. LocalOK'
    BY <1>17 DEF FinishAborted, LocalOK, Phases, Outcomes, hostVars, clientVars
  <2> QED
    BY <2>1, <2>2
<1>18. ASSUME Release
      PROVE  SessionOK'
  <2>1. MailboxOK'
    BY <1>18, UnchangedOK DEF Release
  <2>2. kicks' \in Nat
    BY <1>18 DEF Release, LocalOK, Kick
  <2>3. LocalOK'
    BY <1>18, <2>2 DEF Release, LocalOK, Phases, Outcomes, clientVars
  <2> QED
    BY <2>1, <2>3
<1>19. ASSUME IterationError
      PROVE  SessionOK'
  <2>1. MailboxOK'
    BY <1>19, UnchangedOK DEF IterationError
  <2>2. LocalOK'
    BY <1>19 DEF IterationError, LocalOK, Phases, Outcomes, Disrupt, hostVars
  <2> QED
    BY <2>1, <2>2
<1>20. ASSUME AbortRun
      PROVE  SessionOK'
  <2>0. cancelled' \in SUBSET Nat
    BY <1>20 DEF AbortRun, MailboxOK, MailboxTypeOK, LocalOK
  <2>1. MailboxOK'
    BY <1>20, <2>0 DEF AbortRun, MailboxOK, MailboxTypeOK, Listed, recordVars,
                       admissionVars
  <2>2. LocalOK'
    BY <1>20 DEF AbortRun, LocalOK, Phases, Outcomes, Disrupt, hostVars
  <2> QED
    BY <2>1, <2>2
<1>21. ASSUME SettleInconsistent
      PROVE  SessionOK'
  <2>0. "Failed" \in Outcomes \cup {"None"}
    BY DEF Outcomes
  <2>1. MailboxOK'
    BY <1>21, <2>0, RecordAttemptOutcomeOK DEF SettleInconsistent
  <2>2. LocalOK'
    BY <1>21 DEF SettleInconsistent, LocalOK, Phases, Outcomes, Disrupt, hostVars
  <2> QED
    BY <2>1, <2>2
<1>22. ASSUME WakeForInput \/ WakeForTask
      PROVE  SessionOK'
  BY <1>22, <1>12 DEF WakeForInput, WakeForTask, LocalOK
<1> QED
  BY <1>1, <1>2, <1>3, <1>4, <1>5, <1>6, <1>7, <1>8, <1>9, <1>10, <1>11, <1>12, <1>13, <1>14, <1>15, <1>16, <1>17, <1>18, <1>19, <1>20, <1>21, <1>22 DEF Run

\* Every step keeps the types.
LEMMA NextKeepsSessionOK ==
  ASSUME SessionOK, [Next]_vars
  PROVE  SessionOK'
<1>1. CASE UNCHANGED vars
  <2>1. MailboxOK'
    BY <1>1, UnchangedOK DEF vars, SessionOK
  <2>2. LocalOK'
    BY <1>1 DEF vars, SessionOK, LocalOK, loopVars, hostVars, clientVars
  <2> QED
    BY <2>1, <2>2 DEF SessionOK
<1>2. CASE Next
  BY <1>2, ClientStepOK, HostStepOK, RunStepOK DEF Next, Environment
<1> QED
  BY <1>1, <1>2

\* Every reachable state is well typed, for any inputs, commands and bounds.
THEOREM TypeInvariant == Spec => []TypeOK
<1>1. Init => SessionOK
  BY SessionInitOK
<1>2. SessionOK /\ [Next]_vars => SessionOK'
  BY NextKeepsSessionOK
<1>3. SessionOK => TypeOK
  BY SessionTypes
<1> QED
  BY <1>1, <1>2, <1>3, PTL DEF Spec

-----------------------------------------------------------------------------
(* Runs and their tickets                                                  *)

\* Tickets are issued in order, and each is at one place: it waits for the
\* prompt lock or runs under it.
TicketsOK ==
  /\ \A t \in waiting : 0 < t /\ t <= lastTicket
  /\ holder <= lastTicket
  /\ holder \notin waiting
  /\ pc = "free" <=> holder = 0
  /\ active # NoRun => active.ticket <= lastTicket
  /\ \A t \in cancelling \cup cancelled : t <= lastTicket

\* A run that is not attached has no token anyone could have captured.
UnattachedIsUntouched ==
  active # NoRun /\ ~active.attached => active.ticket \notin cancelling \cup cancelled

\* A stop follows each invalidation.
StopAfterInvalidation == closing \/ pc = "freezing" => ~valid

RunsOK ==
  /\ TicketsOK
  /\ UnattachedIsUntouched
  /\ StopAfterInvalidation
  /\ RunIsRegistered
  /\ UninterruptedIsUncancelled
  /\ NoStaleStop

\* The registered run is the same one, in the same condition.
SameRun ==
  /\ active # NoRun <=> active' # NoRun
  /\ active # NoRun => /\ active'.ticket = active.ticket
                       /\ active'.attached = active.attached
                       /\ active'.reason = active.reason

\* Steps that concern no run, or keep the run under the prompt lock.
Frame ==
  /\ SameRun
  /\ UNCHANGED <<lastTicket, cancelling, cancelled, valid, waiting, holder, closing, stopsSent>>

Within == {"keepgoing", "top", "drained", "claimed", "appended", "received",
           "acting", "idle", "suspended", "exited", "broken", "settled"}

\* A step that concerns no run.
LEMMA FrameKeepsRunsOK ==
  ASSUME RunsOK, Frame, pc' = pc \/ (pc \in Within /\ pc' \in Within)
  PROVE  RunsOK'
<1>1. TicketsOK'
  BY DEF RunsOK, TicketsOK, Frame, SameRun, Within
<1>2. UnattachedIsUntouched'
  BY DEF RunsOK, UnattachedIsUntouched, Frame, SameRun
<1>3. StopAfterInvalidation'
  BY DEF RunsOK, StopAfterInvalidation, Frame, Within
<1>4. RunIsRegistered'
  BY DEF RunsOK, RunIsRegistered, Frame, SameRun, Within
<1>5. UninterruptedIsUncancelled'
  BY DEF RunsOK, UninterruptedIsUncancelled, Frame, SameRun, Within
<1>6. NoStaleStop'
  BY DEF RunsOK, NoStaleStop, Frame, SameRun
<1> QED
  BY <1>1, <1>2, <1>3, <1>4, <1>5, <1>6 DEF RunsOK

\* Recording an outcome leaves the run the same one.
LEMMA RecordKeepsRun ==
  ASSUME MailboxOK, NEW t, NEW outcome \in Outcomes \cup {"None"},
         RecordAttemptOutcome(t, outcome)
  PROVE  SameRun
<1>1. CASE IsActive(t)
  <2>1. active \in Runs /\ active # NoRun /\ active' = [active EXCEPT !.outcome = outcome]
    BY <1>1 DEF IsActive, RecordAttemptOutcome, MailboxOK, MailboxTypeOK
  <2>2. /\ active'.ticket = active.ticket /\ active'.attached = active.attached
        /\ active'.reason = active.reason
    BY <2>1 DEF Runs
  <2>3. active' # NoRun
    <3>1. active' \in Runs
      BY <2>1 DEF Runs
    <3> QED
      BY <3>1, NoneAssumption
  <2> QED
    BY <2>1, <2>2, <2>3 DEF SameRun
<1>2. CASE ~ IsActive(t)
  BY <1>2 DEF RecordAttemptOutcome, SameRun
<1> QED
  BY <1>1, <1>2

\* What an interruption changes of the registered run.
LEMMA MarkedEffect ==
  ASSUME NEW run \in Runs, NEW why \in Reasons
  PROVE  /\ Marked(run, why) # NoRun
         /\ Marked(run, why).ticket = run.ticket
         /\ Marked(run, why).attached = run.attached
         /\ Marked(run, why).reason = why
<1>1. run # NoRun
  BY NoneAssumption
<1>2. Marked(run, why) = [run EXCEPT !.reason = why]
  BY <1>1 DEF Marked
<1>3. [run EXCEPT !.reason = why] \in Runs
  BY DEF Runs
<1>4. Marked(run, why) # NoRun
  BY <1>2, <1>3, NoneAssumption
<1>5. /\ [run EXCEPT !.reason = why].ticket = run.ticket
      /\ [run EXCEPT !.reason = why].attached = run.attached
      /\ [run EXCEPT !.reason = why].reason = why
  BY DEF Runs
<1> QED
  BY <1>2, <1>4, <1>5

\* What a stop does to the registration and to its token.
LEMMA StopEffect ==
  ASSUME MailboxOK, Stop
  PROVE  /\ UNCHANGED <<valid, lastTicket, cancelled>>
         /\ \/ /\ active = NoRun \/ ~active.attached
               /\ active' = NoRun
               /\ cancelling' = cancelling
            \/ /\ active # NoRun /\ active.attached
               /\ active' # NoRun
               /\ active'.ticket = active.ticket
               /\ active'.attached
               /\ active'.reason = "Stop"
               /\ cancelling' = cancelling \cup {active.ticket}
<1>1. UNCHANGED <<valid, lastTicket, cancelled>>
  BY DEF Stop
<1>2. CASE active = NoRun \/ ~active.attached
  <2>1. active' = NoRun
    BY <1>2 DEF Stop
  <2>2. cancelling' = cancelling
    BY <1>2 DEF Stop, CaptureToken
  <2> QED
    BY <1>1, <1>2, <2>1, <2>2
<1>3. CASE active # NoRun /\ active.attached
  <2>1. active' = Marked(active, "Stop")
    BY <1>3 DEF Stop
  <2>2. cancelling' = cancelling \cup {active.ticket}
    BY <1>3 DEF Stop, CaptureToken
  <2>3. active \in Runs /\ "Stop" \in Reasons
    BY <1>3 DEF MailboxOK, MailboxTypeOK, Reasons
  <2>4. /\ active' # NoRun /\ active'.ticket = active.ticket
        /\ active'.attached = active.attached /\ active'.reason = "Stop"
    BY <2>1, <2>3, MarkedEffect
  <2> QED
    BY <1>1, <1>3, <2>2, <2>4
<1> QED
  BY <1>2, <1>3

\* What a finished attempt changes of the registered run.
LEMMA FinishEffect ==
  ASSUME NEW t, NEW fallback, FinishAttempt(t, fallback)
  PROVE  /\ UNCHANGED <<valid, lastTicket, cancelling, cancelled>>
         /\ active' = IF IsActive(t) THEN NoRun ELSE active
BY DEF FinishAttempt, mailboxVars, tokenVars, admissionVars

\* A Stop keeps the runs and their tickets in order.
LEMMA StopKeepsRunsOK ==
  ASSUME MailboxOK, RunsOK, Stop, UNCHANGED <<waiting, holder>>,
         closing' => ~valid,
         pc' = pc \/ (pc = "freezing" /\ pc' = "settled"),
         NoStaleStop',
         stopsSent \subseteq stopsSent'
  PROVE  RunsOK'
<1>1. /\ UNCHANGED <<valid, lastTicket, cancelled>>
      /\ \/ /\ active = NoRun \/ ~active.attached
            /\ active' = NoRun
            /\ cancelling' = cancelling
         \/ /\ active # NoRun /\ active.attached
            /\ active' # NoRun
            /\ active'.ticket = active.ticket
            /\ active'.attached
            /\ active'.reason = "Stop"
            /\ cancelling' = cancelling \cup {active.ticket}
  BY StopEffect
<1>2. TicketsOK'
  BY <1>1 DEF RunsOK, TicketsOK
<1>3. UnattachedIsUntouched'
  BY <1>1 DEF UnattachedIsUntouched
<1>4. StopAfterInvalidation'
  BY <1>1 DEF RunsOK, StopAfterInvalidation
<1>5. RunIsRegistered'
  BY <1>1 DEF RunsOK, RunIsRegistered
<1>6. UninterruptedIsUncancelled'
  BY <1>1 DEF UninterruptedIsUncancelled
<1> QED
  BY <1>2, <1>3, <1>4, <1>5, <1>6 DEF RunsOK

\* An attempt finishes: the one under the prompt lock, or one that waits for it.
LEMMA FinishKeepsRunsOK ==
  ASSUME RunsOK, NEW t, NEW fallback, FinishAttempt(t, fallback),
         UNCHANGED <<holder, closing, stopsSent>>,
         waiting' \subseteq waiting,
         \/ t \in waiting /\ pc' = pc
         \/ t = holder /\ pc \in {"settled", "failing"} /\ pc' = "finished"
  PROVE  RunsOK'
<1>1. /\ UNCHANGED <<valid, lastTicket, cancelling, cancelled>>
      /\ active' = IF IsActive(t) THEN NoRun ELSE active
  BY FinishEffect
<1>2. TicketsOK'
  BY <1>1 DEF RunsOK, TicketsOK
<1>3. UnattachedIsUntouched'
  BY <1>1 DEF RunsOK, UnattachedIsUntouched
<1>4. StopAfterInvalidation'
  BY <1>1 DEF RunsOK, StopAfterInvalidation
<1>5. RunIsRegistered'
  BY <1>1 DEF RunsOK, RunIsRegistered, TicketsOK, IsActive
<1>6. UninterruptedIsUncancelled'
  BY <1>1 DEF RunsOK, RunIsRegistered, UninterruptedIsUncancelled, IsActive
<1>7. NoStaleStop'
  BY <1>1 DEF RunsOK, NoStaleStop
<1> QED
  BY <1>2, <1>3, <1>4, <1>5, <1>6, <1>7 DEF RunsOK

\* An attempt starts under the prompt lock with the ticket t.
LEMMA StartKeepsRunsOK ==
  ASSUME RunsOK, NEW t, holder = 0, holder' = t, 0 < t, t <= lastTicket',
         pc' \in {"keepgoing", "top"},
         active' # NoRun, active'.ticket = t, active'.attached, active'.reason = "None",
         t \notin cancelling \cup cancelled, t \notin waiting',
         \A u \in waiting' : u \in waiting,
         lastTicket' >= lastTicket, lastTicket \in Nat, lastTicket' \in Nat, t \in Nat,
         waiting \in SUBSET Nat, cancelling \in SUBSET Nat, cancelled \in SUBSET Nat,
         UNCHANGED <<cancelling, cancelled, valid, closing, stopsSent>>
  PROVE  RunsOK'
<1>1. TicketsOK'
  <2>1. \A u \in waiting' : 0 < u /\ u <= lastTicket'
    <3>1. SUFFICES ASSUME NEW u \in waiting' PROVE 0 < u /\ u <= lastTicket'
      OBVIOUS
    <3>2. u \in Nat /\ 0 < u /\ u <= lastTicket
      BY DEF RunsOK, TicketsOK
    <3> QED
      BY <3>2
  <2>2. \A u \in cancelling' \cup cancelled' : u <= lastTicket'
    <3>1. SUFFICES ASSUME NEW u \in cancelling \cup cancelled PROVE u <= lastTicket'
      OBVIOUS
    <3>2. u \in Nat /\ u <= lastTicket
      BY DEF RunsOK, TicketsOK
    <3> QED
      BY <3>2
  <2>3. pc' # "free" /\ holder' # 0
    OBVIOUS
  <2> QED
    BY <2>1, <2>2, <2>3 DEF TicketsOK
<1>2. UnattachedIsUntouched'
  BY DEF UnattachedIsUntouched
<1>3. StopAfterInvalidation'
  BY DEF RunsOK, StopAfterInvalidation
<1>4. RunIsRegistered'
  BY DEF RunIsRegistered
<1>5. UninterruptedIsUncancelled'
  BY DEF UninterruptedIsUncancelled
<1>6. NoStaleStop'
  BY DEF NoStaleStop
<1> QED
  BY <1>1, <1>2, <1>3, <1>4, <1>5, <1>6 DEF RunsOK

\* Clients keep the runs and their tickets in order.
LEMMA ClientKeepsRunsOK ==
  ASSUME SessionOK, RunsOK, Client
  PROVE  RunsOK'
<1>0. MailboxOK /\ LocalOK
  BY DEF SessionOK
<1>1. ASSUME NEW c \in Commands, NEW i \in Inputs, ClientEnqueue(c, i)
      PROVE  RunsOK'
  <2>1. Frame /\ pc' = pc
    BY <1>1 DEF ClientEnqueue, Kick, Enqueue, EnqueueKnown, Frame, SameRun,
                loopVars, clientVars, tokenVars, admissionVars
  <2> QED
    BY <2>1, FrameKeepsRunsOK
<1>2. ASSUME NEW c \in Commands, NEW i \in Inputs, ClientTakeBack(c, i)
      PROVE  RunsOK'
  <2>1. Frame /\ pc' = pc
    BY <1>2 DEF ClientTakeBack, TakeBack, Frame, SameRun, loopVars, hostVars,
                clientVars, tokenVars, admissionVars
  <2> QED
    BY <2>1, FrameKeepsRunsOK
<1>3. ASSUME NEW c \in Commands, NEW ids \in SUBSET Inputs, ClientDispatch(c, ids)
      PROVE  RunsOK'
  <2>1. UNCHANGED <<valid, lastTicket, cancelled, pc, holder, waiting, closing, stopsSent>>
    BY <1>3 DEF ClientDispatch, Kick, Dispatch, loopVars, clientVars
  <2>2. \/ UNCHANGED <<active, cancelling>>
        \/ active' = Marked(active, "Steer") /\ CaptureToken
    BY <1>3 DEF ClientDispatch, Dispatch
  <2>3. CASE UNCHANGED <<active, cancelling>>
    <3>1. Frame
      BY <2>1, <2>3 DEF Frame, SameRun
    <3> QED
      BY <2>1, <3>1, FrameKeepsRunsOK
  <2>4. CASE active = NoRun /\ active' = Marked(active, "Steer") /\ CaptureToken
    <3>1. Frame
      BY <2>1, <2>4 DEF Frame, SameRun, Marked, CaptureToken
    <3> QED
      BY <2>1, <3>1, FrameKeepsRunsOK
  <2>5. CASE active # NoRun /\ active' = Marked(active, "Steer") /\ CaptureToken
    <3>1. active \in Runs /\ "Steer" \in Reasons
      BY <1>0, <2>5 DEF MailboxOK, MailboxTypeOK, Reasons
    <3>2. /\ active' # NoRun /\ active'.ticket = active.ticket
          /\ active'.attached = active.attached /\ active'.reason = "Steer"
      BY <2>5, <3>1, MarkedEffect
    <3>3. cancelling' = IF active.attached THEN cancelling \cup {active.ticket}
                        ELSE cancelling
      BY <2>5 DEF CaptureToken
    <3>4. TicketsOK'
      BY <2>1, <2>5, <3>2, <3>3 DEF RunsOK, TicketsOK
    <3>5. UnattachedIsUntouched'
      BY <2>1, <2>5, <3>2, <3>3 DEF RunsOK, UnattachedIsUntouched
    <3>6. StopAfterInvalidation'
      BY <2>1 DEF RunsOK, StopAfterInvalidation
    <3>7. RunIsRegistered'
      BY <2>1, <2>5, <3>2 DEF RunsOK, RunIsRegistered
    <3>8. UninterruptedIsUncancelled'
      BY <3>2 DEF UninterruptedIsUncancelled
    <3>9. NoStaleStop'
      BY <3>2 DEF NoStaleStop
    <3> QED
      BY <3>4, <3>5, <3>6, <3>7, <3>8, <3>9 DEF RunsOK
  <2> QED
    BY <2>2, <2>3, <2>4, <2>5
<1>4. ASSUME NEW c \in Commands, ClientRetry(c)
      PROVE  RunsOK'
  <2>1. Frame /\ pc' = pc
    BY <1>4 DEF ClientRetry, mailboxVars, Frame, SameRun, loopVars, clientVars,
                tokenVars, admissionVars
  <2> QED
    BY <2>1, FrameKeepsRunsOK
<1>5. ASSUME SendStop
      PROVE  RunsOK'
  <2>1. /\ UNCHANGED <<active, valid, lastTicket, cancelling, cancelled, pc, holder,
                       waiting, closing>>
        /\ stopsSent \subseteq stopsSent'
    BY <1>5 DEF SendStop, mailboxVars, loopVars, hostVars, tokenVars, admissionVars
  <2> QED
    BY <2>1 DEF RunsOK, TicketsOK, UnattachedIsUntouched, StopAfterInvalidation,
                RunIsRegistered, UninterruptedIsUncancelled, NoStaleStop
<1>6. ASSUME NEW t \in stopsSent, ReceiveStop(t)
      PROVE  RunsOK'
  <2>1. /\ Stop /\ active # NoRun /\ active.attached /\ active.ticket = t
        /\ UNCHANGED <<pc, holder, waiting, closing, stopsSent>>
    BY <1>6 DEF ReceiveStop, StopAttempt, IsActive, loopVars, hostVars, clientVars
  <2>2. valid' = valid /\ active' # NoRun /\ active'.ticket = t
    BY <1>0, <2>1, StopEffect
  <2>3. NoStaleStop'
    BY <2>1, <2>2 DEF NoStaleStop
  <2>4. closing' => ~valid
    BY <2>1 DEF RunsOK, StopAfterInvalidation
  <2> QED
    BY <1>0, <2>1, <2>3, <2>4, StopKeepsRunsOK
<1>7. ASSUME LegacyStop
      PROVE  RunsOK'
  <2>1. /\ Stop
        /\ UNCHANGED <<pc, holder, waiting, closing>>
        /\ stopsSent' = stopsSent \cup {0}
    BY <1>7 DEF LegacyStop, loopVars, hostVars
  <2>2. NoStaleStop'
    BY <2>1 DEF NoStaleStop
  <2>3. closing' => ~valid
    BY <2>1 DEF RunsOK, StopAfterInvalidation
  <2> QED
    BY <1>0, <2>1, <2>2, <2>3, StopKeepsRunsOK
<1>8. ASSUME Close
      PROVE  RunsOK'
  <2>1. /\ UNCHANGED <<active, lastTicket, cancelling, cancelled, pc, holder, waiting,
                       stopsSent>>
        /\ ~valid'
    BY <1>8 DEF Close, Invalidate, loopVars, tokenVars
  <2> QED
    BY <2>1 DEF RunsOK, TicketsOK, UnattachedIsUntouched, StopAfterInvalidation,
                RunIsRegistered, UninterruptedIsUncancelled, NoStaleStop
<1> QED
  BY <1>1, <1>2, <1>3, <1>4, <1>5, <1>6, <1>7, <1>8 DEF Client

\* The host keeps the runs and their tickets in order.
LEMMA HostKeepsRunsOK ==
  ASSUME SessionOK, RunsOK,
         \/ Schedule \/ StartWaiting \/ Cancel \/ CloseStop
         \/ \E resume \in BOOLEAN : StartExternal(resume)
         \/ \E t \in waiting : AbortWaiting(t)
  PROVE  RunsOK'
<1>0. /\ MailboxOK /\ LocalOK
      /\ lastTicket \in Nat /\ waiting \in SUBSET Nat
      /\ cancelling \in SUBSET Nat /\ cancelled \in SUBSET Nat
  BY DEF SessionOK, MailboxOK, MailboxTypeOK, LocalOK
<1>1. ASSUME Schedule
      PROVE  RunsOK'
  <2>1. UNCHANGED <<valid, cancelling, cancelled, pc, holder, closing, stopsSent>>
    BY <1>1 DEF Schedule, ReserveRun, mailboxVars, loopVars, clientVars, tokenVars,
                admissionVars
  <2>2. CASE CanReserve
    <3>1. /\ active = NoRun
          /\ active' = NewRun(TRUE, FALSE)
          /\ lastTicket' = lastTicket + 1
          /\ waiting' = waiting \cup {lastTicket + 1}
      BY <1>1, <2>2 DEF Schedule, ReserveRun, CanReserve
    <3>2. /\ active'.ticket = lastTicket + 1 /\ active'.attached = FALSE
          /\ active'.reason = "None"
      BY <3>1 DEF NewRun
    <3>3. lastTicket + 1 \notin cancelling \cup cancelled
      BY <1>0 DEF RunsOK, TicketsOK
    <3>4. pc \in {"free", "finished"}
      BY <3>1 DEF RunsOK, RunIsRegistered
    <3>5. TicketsOK'
      <4>1. holder \in Nat /\ holder # lastTicket + 1
        BY <1>0 DEF LocalOK, RunsOK, TicketsOK
      <4>2. \A u \in waiting' : 0 < u /\ u <= lastTicket'
        <5>1. \A u \in waiting : u \in Nat /\ 0 < u /\ u <= lastTicket
          BY <1>0 DEF RunsOK, TicketsOK
        <5>2. 0 < lastTicket + 1
          BY <1>0
        <5> QED
          BY <1>0, <3>1, <5>1, <5>2
      <4>3. \A u \in cancelling' \cup cancelled' : u <= lastTicket'
        <5>1. \A u \in cancelling \cup cancelled : u \in Nat /\ u <= lastTicket
          BY <1>0 DEF RunsOK, TicketsOK
        <5> QED
          BY <1>0, <2>1, <3>1, <5>1
      <4>4. holder' <= lastTicket' /\ holder' \notin waiting'
        BY <1>0, <2>1, <3>1, <4>1 DEF RunsOK, TicketsOK
      <4>5. active'.ticket <= lastTicket'
        <5>1. active'.ticket = lastTicket'
          BY <3>1, <3>2
        <5>2. lastTicket' \in Nat
          BY <1>0, <3>1
        <5> QED
          BY <5>1, <5>2
      <4>6. pc' = "free" <=> holder' = 0
        BY <2>1 DEF RunsOK, TicketsOK
      <4> QED
        BY <4>2, <4>3, <4>4, <4>5, <4>6 DEF TicketsOK
    <3>6. UnattachedIsUntouched'
      BY <2>1, <3>2, <3>3 DEF UnattachedIsUntouched
    <3>7. StopAfterInvalidation'
      BY <2>1 DEF RunsOK, StopAfterInvalidation
    <3>8. RunIsRegistered'
      BY <2>1, <3>4 DEF RunIsRegistered
    <3>9. UninterruptedIsUncancelled'
      BY <2>1, <3>2, <3>3 DEF UninterruptedIsUncancelled
    <3>10. NoStaleStop'
      BY <3>2 DEF NoStaleStop
    <3> QED
      BY <3>5, <3>6, <3>7, <3>8, <3>9, <3>10 DEF RunsOK
  <2>3. CASE ~ CanReserve
    <3>1. Frame
      BY <1>1, <2>1, <2>3 DEF Schedule, mailboxVars, Frame, SameRun
    <3> QED
      BY <2>1, <3>1, FrameKeepsRunsOK
  <2> QED
    BY <2>2, <2>3
<1>2. ASSUME NEW t \in waiting, StartManaged(t)
      PROVE  RunsOK'
  <2>1. /\ holder = 0 /\ waiting' = waiting \ {t}
        /\ UNCHANGED <<closing, stopsSent>>
        /\ t \in Nat /\ 0 < t /\ t <= lastTicket
    BY <1>0, <1>2 DEF StartManaged, clientVars, RunsOK, TicketsOK
  <2>2. CASE CanAttach(t)
    <3>1. /\ active # NoRun /\ active.ticket = t /\ ~active.attached
          /\ active' = [active EXCEPT !.attached = TRUE, !.reason = "None"]
          /\ holder' = t /\ pc' = "top"
          /\ UNCHANGED <<valid, lastTicket, cancelling, cancelled>>
      BY <1>2, <2>2 DEF StartManaged, CanAttach, AttachAttempt, IsActive, tokenVars,
                        admissionVars
    <3>2. active \in Runs
      BY <1>0, <3>1 DEF MailboxOK, MailboxTypeOK
    <3>3. active'.ticket = t /\ active'.attached /\ active'.reason = "None"
      BY <3>1, <3>2 DEF Runs
    <3>4. active' # NoRun
      <4>1. active' \in Runs
        BY <3>1, <3>2 DEF Runs, Reasons
      <4> QED
        BY <4>1, NoneAssumption
    <3>5. t \notin cancelling \cup cancelled
      BY <3>1 DEF RunsOK, UnattachedIsUntouched
    <3> QED
      BY <1>0, <2>1, <3>1, <3>3, <3>4, <3>5, StartKeepsRunsOK
  <2>3. CASE ~ CanAttach(t)
    <3>1. UNCHANGED <<active, valid, lastTicket, cancelling, cancelled, holder, pc>>
      BY <1>2, <2>3 DEF StartManaged, mailboxVars, tokenVars, admissionVars
    <3> QED
      BY <2>1, <3>1 DEF RunsOK, TicketsOK, UnattachedIsUntouched, StopAfterInvalidation,
                RunIsRegistered, UninterruptedIsUncancelled, NoStaleStop
  <2> QED
    BY <2>2, <2>3
<1>3. ASSUME NEW t \in cancelling, DeliverCancel(t)
      PROVE  RunsOK'
  <2>1. /\ UNCHANGED <<active, valid, lastTicket, pc, holder, waiting, closing, stopsSent>>
        /\ cancelling' = cancelling \ {t} /\ cancelled' = cancelled \cup {t}
    BY <1>3 DEF DeliverCancel, CancelToken, loopVars, hostVars, clientVars, admissionVars
  <2> QED
    BY <2>1 DEF RunsOK, TicketsOK, UnattachedIsUntouched, StopAfterInvalidation,
                RunIsRegistered, UninterruptedIsUncancelled, NoStaleStop
<1>4. ASSUME CloseStop
      PROVE  RunsOK'
  <2>1. /\ Stop /\ closing' = FALSE
        /\ UNCHANGED <<pc, holder, waiting, stopsSent>>
        /\ ~valid
    BY <1>4 DEF CloseStop, loopVars, clientVars, RunsOK, StopAfterInvalidation
  <2>2. NoStaleStop'
    BY <1>0, <2>1, StopEffect DEF NoStaleStop
  <2> QED
    BY <1>0, <2>1, <2>2, StopKeepsRunsOK
<1>5. ASSUME NEW resume \in BOOLEAN, StartExternal(resume)
      PROVE  RunsOK'
  <2> DEFINE t == lastTicket + 1
  <2>1. /\ holder = 0 /\ holder' = t /\ lastTicket' = t /\ pc' \in {"keepgoing", "top"}
        /\ active' = NewRun(FALSE, TRUE)
        /\ UNCHANGED <<cancelling, cancelled, valid, waiting, closing, stopsSent>>
    BY <1>5 DEF StartExternal, AttachExternalAttempt, tokenVars, hostVars
  <2>2. active'.ticket = t /\ active'.attached /\ active'.reason = "None"
    BY <2>1 DEF NewRun
  <2>3. active' # NoRun
    BY <1>0, <2>1, NewRunType, NoneAssumption
  <2>4. t \in Nat /\ 0 < t /\ t >= lastTicket
    BY <1>0
  <2>5. t \notin cancelling \cup cancelled /\ t \notin waiting
    BY <1>0 DEF RunsOK, TicketsOK
  <2> HIDE DEF t
  <2>6. t <= lastTicket' /\ lastTicket' >= lastTicket /\ lastTicket' \in Nat
    BY <2>1, <2>4
  <2>7. t \notin waiting' /\ \A u \in waiting' : u \in waiting
    BY <2>1, <2>5
  <2> QED
    BY <1>0, <2>1, <2>2, <2>3, <2>4, <2>5, <2>6, <2>7, StartKeepsRunsOK
<1>6. ASSUME NEW t \in waiting, AbortWaiting(t)
      PROVE  RunsOK'
  <2>1. /\ FinishAttempt(t, "Failed") /\ waiting' \subseteq waiting
        /\ UNCHANGED <<pc, holder, closing, stopsSent>>
    BY <1>6 DEF AbortWaiting, loopVars
  <2> QED
    BY <2>1, FinishKeepsRunsOK
<1> QED
  BY <1>1, <1>2, <1>3, <1>4, <1>5, <1>6 DEF StartWaiting, Cancel

\* The run keeps the runs and their tickets in order.
LEMMA RunKeepsRunsOK ==
  ASSUME SessionOK, RunsOK,
         Run \/ AbortRun \/ IterationError \/ SettleInconsistent \/ WakeForTask
  PROVE  RunsOK'
<1>0. MailboxOK /\ LocalOK
  BY DEF SessionOK
<1>1. ASSUME KeepGoing
      PROVE  RunsOK'
  <2>1. Frame /\ pc \in Within /\ pc' \in Within
    BY <1>1 DEF KeepGoing, LoopStep, mailboxVars, Frame, SameRun, Within, hostVars,
                clientVars, tokenVars, admissionVars
  <2> QED
    BY <2>1, FrameKeepsRunsOK
<1>2. ASSUME Interrupted
      PROVE  RunsOK'
  <2>1. Frame /\ pc \in Within /\ pc' \in Within
    BY <1>2 DEF Interrupted, LoopStep, mailboxVars, Frame, SameRun, Within, hostVars,
                clientVars, tokenVars, admissionVars
  <2> QED
    BY <2>1, FrameKeepsRunsOK
<1>3. ASSUME Drain
      PROVE  RunsOK'
  <2>1. Frame /\ pc \in Within /\ pc' \in Within
    BY <1>3 DEF Drain, LoopStep, DrainAll, Frame, SameRun, Within, hostVars,
                clientVars, tokenVars, admissionVars
  <2> QED
    BY <2>1, FrameKeepsRunsOK
<1>4. ASSUME Claim
      PROVE  RunsOK'
  <2>1. Frame /\ pc \in Within /\ pc' \in Within
    BY <1>4 DEF Claim, LoopStep, MarkClaimed, Frame, SameRun, Within, hostVars,
                clientVars, tokenVars, admissionVars
  <2> QED
    BY <2>1, FrameKeepsRunsOK
<1>5. ASSUME AppendToTranscript
      PROVE  RunsOK'
  <2>1. Frame /\ pc \in Within /\ pc' \in Within
    BY <1>5 DEF AppendToTranscript, LoopStep, mailboxVars, Frame, SameRun, Within, hostVars,
                clientVars, tokenVars, admissionVars
  <2> QED
    BY <2>1, FrameKeepsRunsOK
<1>6. ASSUME Deliver
      PROVE  RunsOK'
  <2>1. Frame /\ pc \in Within /\ pc' \in Within
    BY <1>6 DEF Deliver, LoopStep, MarkDelivered, Frame, SameRun, Within, hostVars,
                clientVars, tokenVars, admissionVars
  <2> QED
    BY <2>1, FrameKeepsRunsOK
<1>7. ASSUME StartIteration
      PROVE  RunsOK'
  <2>1. Frame /\ pc \in Within /\ pc' \in Within
    BY <1>7 DEF StartIteration, LoopStep, mailboxVars, Frame, SameRun, Within, hostVars,
                clientVars, tokenVars, admissionVars
  <2> QED
    BY <2>1, FrameKeepsRunsOK
<1>8. ASSUME EndIteration
      PROVE  RunsOK'
  <2>1. Frame /\ pc \in Within /\ pc' \in Within
    BY <1>8 DEF EndIteration, LoopStep, mailboxVars, Frame, SameRun, Within, hostVars,
                clientVars, tokenVars, admissionVars
  <2> QED
    BY <2>1, FrameKeepsRunsOK
<1>9. ASSUME Complete
      PROVE  RunsOK'
  <2>1. Frame /\ pc \in Within /\ pc' \in Within
    BY <1>9 DEF Complete, LoopStep, mailboxVars, Frame, SameRun, Within, hostVars,
                clientVars, tokenVars, admissionVars
  <2> QED
    BY <2>1, FrameKeepsRunsOK
<1>10. ASSUME GoIdle
      PROVE  RunsOK'
  <2>1. Frame /\ pc \in Within /\ pc' \in Within
    BY <1>10 DEF GoIdle, LoopStep, EnterIdle, Frame, SameRun, Within, hostVars,
                clientVars, tokenVars, admissionVars
  <2> QED
    BY <2>1, FrameKeepsRunsOK
<1>11. ASSUME Suspend
      PROVE  RunsOK'
  <2>1. Frame /\ pc \in Within /\ pc' \in Within
    BY <1>11 DEF Suspend, LoopStep, mailboxVars, LeaveIdle, Frame, SameRun, Within, hostVars,
                clientVars, tokenVars, admissionVars
  <2> QED
    BY <2>1, FrameKeepsRunsOK
<1>12. ASSUME Wake
      PROVE  RunsOK'
  <2>1. Frame /\ pc \in Within /\ pc' \in Within
    BY <1>12 DEF Wake, LoopStep, LeaveIdle, Frame, SameRun, Within, hostVars,
                clientVars, tokenVars, admissionVars
  <2> QED
    BY <2>1, FrameKeepsRunsOK
<1>13. ASSUME Settle
      PROVE  RunsOK'
  <2>1. /\ RecordAttemptOutcome(holder, result') /\ LoopStep("exited", "settled")
        /\ result' \in Outcomes \cup {"None"}
    BY <1>0, <1>13 DEF Settle, LocalOK, Outcomes
  <2>2. SameRun
    BY <1>0, <2>1, RecordKeepsRun
  <2>3. Frame /\ pc \in Within /\ pc' \in Within
    BY <2>1, <2>2 DEF LoopStep, RecordAttemptOutcome, Frame, Within, hostVars,
                      clientVars, tokenVars, admissionVars
  <2> QED
    BY <2>3, FrameKeepsRunsOK
<1>14. ASSUME SettleInconsistent
      PROVE  RunsOK'
  <2>1. RecordAttemptOutcome(holder, "Failed") /\ "Failed" \in Outcomes \cup {"None"}
    BY <1>14 DEF SettleInconsistent, Outcomes
  <2>2. SameRun
    BY <1>0, <2>1, RecordKeepsRun
  <2>3. Frame /\ pc \in Within /\ pc' \in Within
    BY <1>14, <2>1, <2>2 DEF SettleInconsistent, RecordAttemptOutcome, Frame, Within,
                             hostVars, tokenVars, admissionVars
  <2> QED
    BY <2>3, FrameKeepsRunsOK
<1>15. ASSUME IterationError
      PROVE  RunsOK'
  <2>1. Frame /\ pc \in Within /\ pc' \in Within
    BY <1>15 DEF IterationError, mailboxVars, Frame, SameRun, Within, hostVars,
                 tokenVars, admissionVars
  <2> QED
    BY <2>1, FrameKeepsRunsOK
<1>16. ASSUME Freeze
      PROVE  RunsOK'
  <2>1. /\ UNCHANGED <<active, lastTicket, cancelling, cancelled, holder, waiting,
                       closing, stopsSent>>
        /\ ~valid' /\ pc = "broken" /\ pc' = "freezing"
    BY <1>16 DEF Freeze, LoopStep, Invalidate, hostVars, clientVars, tokenVars
  <2> QED
    BY <2>1 DEF RunsOK, TicketsOK, UnattachedIsUntouched, StopAfterInvalidation,
                RunIsRegistered, UninterruptedIsUncancelled, NoStaleStop
<1>17. ASSUME FreezeStop
      PROVE  RunsOK'
  <2>1. /\ Stop /\ pc = "freezing" /\ pc' = "settled" /\ ~valid
        /\ UNCHANGED <<holder, waiting, closing, stopsSent>>
    BY <1>17 DEF FreezeStop, LoopStep, hostVars, clientVars, RunsOK, StopAfterInvalidation
  <2>2. NoStaleStop'
    BY <1>0, <2>1, StopEffect DEF NoStaleStop
  <2> QED
    BY <1>0, <2>1, <2>2, StopKeepsRunsOK
<1>18. ASSUME Finish
      PROVE  RunsOK'
  <2>1. /\ FinishAttempt(holder, result) /\ pc = "settled" /\ pc' = "finished"
        /\ UNCHANGED <<holder, waiting, closing, stopsSent>>
    BY <1>18 DEF Finish, hostVars, clientVars
  <2> QED
    BY <2>1, FinishKeepsRunsOK
<1>19. ASSUME FinishAborted
      PROVE  RunsOK'
  <2>1. /\ FinishAttempt(holder, "Failed") /\ pc = "failing" /\ pc' = "finished"
        /\ UNCHANGED <<holder, waiting, closing, stopsSent>>
    BY <1>19 DEF FinishAborted, hostVars, clientVars
  <2> QED
    BY <2>1, FinishKeepsRunsOK
<1>20. ASSUME Release
      PROVE  RunsOK'
  <2>1. /\ UNCHANGED <<active, valid, lastTicket, cancelling, cancelled, waiting,
                       closing, stopsSent>>
        /\ pc = "finished" /\ pc' = "free" /\ holder' = 0
    BY <1>20 DEF Release, mailboxVars, tokenVars, admissionVars, clientVars
  <2>2. lastTicket \in Nat
    BY <1>0 DEF MailboxOK, MailboxTypeOK
  <2>3. TicketsOK'
    BY <2>1, <2>2 DEF RunsOK, TicketsOK
  <2> QED
    BY <2>1, <2>3 DEF RunsOK, UnattachedIsUntouched, StopAfterInvalidation,
                RunIsRegistered, UninterruptedIsUncancelled, NoStaleStop
<1>21. ASSUME AbortRun
      PROVE  RunsOK'
  <2>1. /\ UNCHANGED <<active, valid, lastTicket, cancelling, holder, waiting,
                       closing, stopsSent>>
        /\ pc \in AwaitPhases /\ pc' = "failing"
        /\ cancelled' \subseteq cancelled \cup {holder}
    BY <1>21 DEF AbortRun, admissionVars, hostVars
  <2>2. active # NoRun /\ active.attached
    BY <2>1 DEF RunsOK, RunIsRegistered, AwaitPhases
  <2>3. TicketsOK'
    BY <2>1 DEF RunsOK, TicketsOK, AwaitPhases
  <2>4. UnattachedIsUntouched'
    BY <2>1, <2>2 DEF UnattachedIsUntouched
  <2>5. RunIsRegistered'
    BY <2>1 DEF RunsOK, RunIsRegistered, AwaitPhases
  <2>6. UninterruptedIsUncancelled'
    BY <2>1 DEF UninterruptedIsUncancelled
  <2> QED
    BY <2>1, <2>3, <2>4, <2>5, <2>6 DEF RunsOK, StopAfterInvalidation, NoStaleStop
<1> QED
  BY <1>1, <1>2, <1>3, <1>4, <1>5, <1>6, <1>7, <1>8, <1>9, <1>10, <1>11, <1>12, <1>13, <1>14, <1>15, <1>16, <1>17, <1>18, <1>19, <1>20, <1>21
  DEF Run, WakeForInput, WakeForTask

\* In the beginning there is no run.
LEMMA InitRunsOK == Init => RunsOK
BY DEF Init, MailboxInit, RunsOK, TicketsOK, UnattachedIsUntouched,
       StopAfterInvalidation, RunIsRegistered, UninterruptedIsUncancelled, NoStaleStop

\* Every step keeps the runs and their tickets in order.
LEMMA NextKeepsRunsOK ==
  ASSUME SessionOK, RunsOK, [Next]_vars
  PROVE  RunsOK'
<1>1. CASE UNCHANGED vars
  <2>1. Frame /\ pc' = pc
    BY <1>1 DEF vars, mailboxVars, loopVars, hostVars, clientVars, tokenVars,
                admissionVars, Frame, SameRun
  <2> QED
    BY <2>1, FrameKeepsRunsOK
<1>2. CASE Next
  BY <1>2, ClientKeepsRunsOK, HostKeepsRunsOK, RunKeepsRunsOK DEF Next, Environment
<1> QED
  BY <1>1, <1>2

\* The runs and their tickets are always in order.
LEMMA RunsInvariant == Spec => []RunsOK
<1>1. Init => SessionOK /\ RunsOK
  BY SessionInitOK, InitRunsOK
<1>2. SessionOK /\ RunsOK /\ [Next]_vars => (SessionOK /\ RunsOK)'
  BY NextKeepsSessionOK, NextKeepsRunsOK
<1> QED
  BY <1>1, <1>2, PTL DEF Spec

\* Nobody takes the registration away from the run under the prompt lock
\* (finish_attempt compares tickets, stop revokes only what is not attached).
THEOREM RunStaysRegistered == Spec => []RunIsRegistered
BY RunsInvariant, PTL DEF RunsOK

\* A cancellation aimed at one run never reaches another: an attempt that
\* nobody interrupted has an untouched token.
THEOREM CancellationIsExact == Spec => []UninterruptedIsUncancelled
BY RunsInvariant, PTL DEF RunsOK

\* A Stop that arrives late, or twice, stops the run it names or none.
THEOREM StopIsExact == Spec => []NoStaleStop
BY RunsInvariant, PTL DEF RunsOK

-----------------------------------------------------------------------------
(* Custody: where every accepted input is                                  *)

\* The inputs a state of the records marks as selected.
Sel(st) == {i \in Inputs : st[i] = "Dispatching"}

\* Each input with a record is listed once.
Recorded(recs, st) ==
  IsInjective(recs) /\ Range(recs) = {i \in Inputs : st[i] # "Absent"}

\* Records, selection and queue agree, when the inputs in D were drained and
\* not yet claimed.
Kept(recs, st, ho, rdy, q, D) ==
  /\ Recorded(recs, st)
  /\ IsInjective(rdy) /\ Range(rdy) = Sel(st) \ ho
  /\ IsInjective(q) /\ Range(q) \cap D = {} /\ Range(q) \cup D = Sel(st) \cap ho

\* What Receive has drained and not yet claimed.
Drained == IF pc = "drained" THEN Range(batch) ELSE {}

\* What Receive has written and not yet reported.
Unreported == IF pc = "appended" THEN Range(batch) ELSE {}

MailboxKept == Kept(records, status, handedOff, ready, queue, Drained)

\* The batch exists between the drain and the report; once claimed it is what
\* the records call claimed.
BatchOK ==
  /\ IsInjective(batch)
  /\ pc \notin {"drained", "claimed", "appended"} => batch = << >>
  /\ WithStatus("Claimed") = IF pc \in {"claimed", "appended"} THEN Range(batch) ELSE {}

\* The transcript holds what was delivered and what is about to be reported so,
\* each input once.
TranscriptOK ==
  /\ IsInjective(transcript)
  /\ Range(transcript) = WithStatus("Delivered") \cup Unreported

\* The inputs some client has sent now.
Chosen == UNION {receipts[c].ids : c \in {d \in Commands :
             receipts[d] # NoReceipt /\ receipts[d].op = "dispatch"}}

\* OrdinaryFifo for the inputs outside `chosen', with what is selected counted too.
InOrder(recs, st, chosen) ==
  \A m, n \in DOMAIN recs :
    /\ m < n
    /\ recs[m] \notin chosen /\ recs[n] \notin chosen
    /\ st[recs[n]] \in {"Dispatching", "Claimed", "Delivered"}
    => st[recs[m]] \in {"Claimed", "Delivered", "Withdrawn"}

Arranged == InOrder(records, status, Chosen)

CustodyOK ==
  /\ MailboxKept
  /\ BatchOK
  /\ TranscriptOK
  /\ NothingAdmittedWhilePaused
  /\ Arranged

-----------------------------------------------------------------------------
(* Sequences of inputs                                                     *)

\* Appending an element the sequence does not have.
LEMMA AppendKept ==
  ASSUME NEW s \in Seq(Inputs), NEW x \in Inputs
  PROVE  /\ Append(s, x) \in Seq(Inputs)
         /\ Range(Append(s, x)) = Range(s) \cup {x}
         /\ IsInjective(s) /\ x \notin Range(s) => IsInjective(Append(s, x))
<1>1. /\ Append(s, x) \in Seq(Inputs)
      /\ Len(s) \in Nat
      /\ DOMAIN s = 1 .. Len(s)
      /\ DOMAIN Append(s, x) = 1 .. (Len(s) + 1)
      /\ \A n \in 1 .. Len(s) : Append(s, x)[n] = s[n]
      /\ Append(s, x)[Len(s) + 1] = x
  OBVIOUS
<1> DEFINE a == Append(s, x)
<1> HIDE DEF a
<1>2. \A n \in DOMAIN a : (n \in DOMAIN s /\ a[n] = s[n]) \/ (n = Len(s) + 1 /\ a[n] = x)
  BY <1>1 DEF a
<1>3. \A n \in DOMAIN s : n \in DOMAIN a /\ a[n] = s[n]
  BY <1>1 DEF a
<1>4. Len(s) + 1 \in DOMAIN a /\ a[Len(s) + 1] = x
  BY <1>1 DEF a
<1>5. Range(a) = Range(s) \cup {x}
  BY <1>2, <1>3, <1>4 DEF Range
<1>6. ASSUME IsInjective(s), x \notin Range(s)
      PROVE  IsInjective(a)
  BY <1>2, <1>6 DEF IsInjective, Range
<1> QED
  BY <1>1, <1>5, <1>6 DEF a

\* A sequence without elements is empty.
LEMMA EmptyRange ==
  ASSUME NEW s \in Seq(Inputs)
  PROVE  Range(s) = {} <=> s = << >>
<1>1. DOMAIN s = 1 .. Len(s) /\ Len(s) \in Nat
  OBVIOUS
<1>2. ASSUME s # << >>
      PROVE  Range(s) # {}
  <2>1. 1 \in DOMAIN s
    BY <1>1, <1>2
  <2> QED
    BY <2>1 DEF Range
<1>3. ASSUME s = << >>
      PROVE  Range(s) = {}
  BY <1>3 DEF Range
<1> QED
  BY <1>2, <1>3

\* The empty sequence has no element and no repetition.
LEMMA EmptyFacts == Range(<< >>) = {} /\ IsInjective(<< >>)
BY DEF Range, IsInjective

\* Joining repetition-free sequences without a common element.
LEMMA JoinKept ==
  ASSUME NEW s \in Seq(Inputs), NEW t \in Seq(Inputs)
  PROVE  /\ s \o t \in Seq(Inputs)
         /\ Range(s \o t) = Range(s) \cup Range(t)
         /\ IsInjective(s) /\ IsInjective(t) /\ Range(s) \cap Range(t) = {}
              => IsInjective(s \o t)
<1> DEFINE u == s \o t
<1>1. /\ u \in Seq(Inputs) /\ Len(s) \in Nat /\ Len(t) \in Nat
      /\ DOMAIN s = 1 .. Len(s) /\ DOMAIN t = 1 .. Len(t)
      /\ DOMAIN u = 1 .. (Len(s) + Len(t))
  BY ConcatProperties
<1>2. \A i \in 1 .. (Len(s) + Len(t)) :
        u[i] = IF i <= Len(s) THEN s[i] ELSE t[i - Len(s)]
  BY ConcatProperties
<1> HIDE DEF u
<1>3. ASSUME NEW i \in DOMAIN u
      PROVE  \/ i \in DOMAIN s /\ u[i] = s[i]
             \/ i - Len(s) \in DOMAIN t /\ u[i] = t[i - Len(s)] /\ i \in Nat
  BY <1>1, <1>2
<1>4. \A i \in DOMAIN s : i \in DOMAIN u /\ u[i] = s[i]
  BY <1>1, <1>2
<1>5. \A i \in DOMAIN t : i + Len(s) \in DOMAIN u /\ u[i + Len(s)] = t[i]
  BY <1>1, <1>2
<1>6. Range(u) = Range(s) \cup Range(t)
  BY <1>3, <1>4, <1>5 DEF Range
<1>7. ASSUME IsInjective(s), IsInjective(t), Range(s) \cap Range(t) = {},
             NEW i \in DOMAIN u, NEW j \in DOMAIN u, u[i] = u[j]
      PROVE  i = j
  <2>1. CASE i \in DOMAIN s /\ u[i] = s[i]
    <3>1. ~ (j - Len(s) \in DOMAIN t /\ u[j] = t[j - Len(s)])
      BY <1>7, <2>1 DEF Range
    <3>2. j \in DOMAIN s /\ u[j] = s[j]
      BY <3>1, <1>3
    <3> QED
      BY <1>7, <2>1, <3>2 DEF IsInjective
  <2>2. CASE i - Len(s) \in DOMAIN t /\ u[i] = t[i - Len(s)] /\ i \in Nat
    <3>1. ~ (j \in DOMAIN s /\ u[j] = s[j])
      BY <1>7, <2>2 DEF Range
    <3>2. j - Len(s) \in DOMAIN t /\ u[j] = t[j - Len(s)] /\ j \in Nat
      BY <3>1, <1>3
    <3>3. i - Len(s) = j - Len(s)
      BY <1>7, <2>2, <3>2 DEF IsInjective
    <3> QED
      BY <1>1, <2>2, <3>2, <3>3
  <2> QED
    BY <1>3, <2>1, <2>2
<1> QED
  BY <1>1, <1>6, <1>7 DEF u, IsInjective

\* What Keep keeps of a sequence without repetition has none either.
LEMMA KeepKept ==
  ASSUME NEW s \in Seq(Inputs), NEW S
  PROVE  /\ Keep(s, S) \in Seq(Inputs)
         /\ Range(Keep(s, S)) = Range(s) \cap S
         /\ IsInjective(s) => IsInjective(Keep(s, S))
<1>1. Keep(s, S) \in Seq(Inputs) /\ Range(Keep(s, S)) = Range(s) \cap S
  BY KeepElement, KeepRange
<1>2. ASSUME IsInjective(s)
      PROVE  IsInjective(Keep(s, S))
  <2>1. \A i, j \in 1 .. Len(s) : s[i] = s[j] => i = j
    BY <1>2 DEF IsInjective
  <2>2. \A i, j \in 1 .. Len(Keep(s, S)) : Keep(s, S)[i] = Keep(s, S)[j] => i = j
    BY <2>1, KeepInjective
  <2> QED
    BY <1>1, <2>2 DEF IsInjective
<1> QED
  BY <1>1, <1>2

-----------------------------------------------------------------------------
(* What the mailbox's helpers do to the places of the inputs               *)

\* The promotion selects the oldest queued input, or nothing.
Promoted(recs, st) ==
  \/ status' = st
  \/ /\ CanPromote(st)
     /\ status' = Moved(st, {Oldest(recs, st)}, "Dispatching")

\* Every input with a record is listed.
LEMMA KeptListed ==
  ASSUME NEW recs, NEW st, NEW ho, NEW rdy, NEW q, NEW D,
         Kept(recs, st, ho, rdy, q, D)
  PROVE  Listed(recs, st)
BY DEF Kept, Recorded, Listed

\* A promotion finds nothing selected; the input it selects is in nobody's hands.
LEMMA PromotionKept ==
  ASSUME MailboxTypeOK, NEW recs \in Seq(Inputs), NEW st \in [Inputs -> States], NEW D,
         Kept(recs, st, handedOff, ready, queue, D), CanPromote(st)
  PROVE  LET i == Oldest(recs, st)
             st2 == Moved(st, {i}, "Dispatching")
         IN  /\ i \in Inputs /\ st[i] = "Queued"
             /\ st2 \in [Inputs -> States]
             /\ Append(ready, i) \in Seq(Inputs)
             /\ Kept(recs, st2, handedOff \ {i}, Append(ready, i), queue, D)
             /\ queue = << >>
<1> DEFINE i == Oldest(recs, st)
           st2 == Moved(st, {i}, "Dispatching")
<1>1. i \in Inputs /\ st[i] = "Queued"
  BY KeptListed, OldestIsQueued
<1> HIDE DEF i
<1>2. st2 \in [Inputs -> States] /\ \A j \in Inputs : st2[j] = IF j = i THEN "Dispatching" ELSE st[j]
  BY DEF Moved, States
<1> HIDE DEF st2
<1>3. ready = << >> /\ Sel(st) = {}
  BY DEF CanPromote, Sel
<1>4. Sel(st2) = {i}
  BY <1>1, <1>2, <1>3 DEF Sel
<1>5. ready \in Seq(Inputs) /\ queue \in Seq(Inputs)
  BY DEF MailboxTypeOK
<1>6. Range(ready) = {}
  BY <1>3, EmptyFacts
<1>7. /\ Append(ready, i) \in Seq(Inputs) /\ IsInjective(Append(ready, i))
      /\ Range(Append(ready, i)) = {i}
  BY <1>1, <1>3, <1>5, <1>6, AppendKept, EmptyFacts
<1>8. Range(recs) = {j \in Inputs : st2[j] # "Absent"}
  BY <1>1, <1>2 DEF Kept, Recorded
<1>9. Range(queue) \cup D = {} /\ Range(queue) \cap D = {}
  BY <1>3 DEF Kept
<1>10. Kept(recs, st2, handedOff \ {i}, Append(ready, i), queue, D)
  BY <1>4, <1>7, <1>8, <1>9 DEF Kept, Recorded
<1>11. queue = << >>
  BY <1>5, <1>9, EmptyRange
<1> QED
  BY <1>1, <1>2, <1>7, <1>10, <1>11 DEF i, st2

\* The hand-off moves what is selected and waits to the end of the queue.
LEMMA HandOffKept ==
  ASSUME MailboxTypeOK, NEW recs, NEW st, NEW ho \in SUBSET Inputs,
         NEW rdy \in Seq(Inputs), NEW D,
         Kept(recs, st, ho, rdy, queue, D), HandOff(rdy, st, ho)
  PROVE  Kept(recs, st, handedOff', ready', queue', D)
<1> DEFINE S == {i \in Inputs : st[i] = "Dispatching" /\ i \notin ho}
           out == Keep(rdy, S)
<1>1. /\ out \in Seq(Inputs) /\ Range(out) = Range(rdy) \cap S /\ IsInjective(out)
  BY KeepKept DEF Kept
<1>2. Range(rdy) = S
  BY DEF Kept, Sel
<1>3. Range(out) = Sel(st) \ ho
  BY <1>1, <1>2 DEF Sel
<1> HIDE DEF S, out
<1>4. queue' = queue \o out /\ handedOff' = ho \cup Range(out) /\ ready' = << >>
  BY DEF HandOff, out, S
<1>5. queue \in Seq(Inputs) /\ Range(queue) \cap Range(out) = {}
  BY <1>3 DEF MailboxTypeOK, Kept
<1>6. IsInjective(queue') /\ Range(queue') = Range(queue) \cup Range(out)
  BY <1>1, <1>4, <1>5, JoinKept DEF Kept
<1>7. Sel(st) \cap handedOff' = (Sel(st) \cap ho) \cup Range(out)
  BY <1>3, <1>4
<1>8. Range(ready') = {} /\ IsInjective(ready') /\ Sel(st) \ handedOff' = {}
  BY <1>3, <1>4, EmptyFacts
<1>9. Range(queue') \cap D = {} /\ Range(queue') \cup D = Sel(st) \cap handedOff'
  BY <1>3, <1>6, <1>7 DEF Kept
<1> QED
  BY <1>6, <1>8, <1>9 DEF Kept

\* promote_next keeps the places of the inputs in agreement.
LEMMA PromoteNextKept ==
  ASSUME MailboxTypeOK, NEW recs \in Seq(Inputs), NEW st \in [Inputs -> States], NEW D,
         Kept(recs, st, handedOff, ready, queue, D), PromoteNext(recs, st),
         queue' = queue
  PROVE  Promoted(recs, st) /\ Kept(recs, status', handedOff', ready', queue', D)
<1>1. CASE CanPromote(st)
  <2>1. /\ status' = Moved(st, {Oldest(recs, st)}, "Dispatching")
        /\ handedOff' = handedOff \ {Oldest(recs, st)}
        /\ ready' = Append(ready, Oldest(recs, st))
    BY <1>1 DEF PromoteNext
  <2>2. Kept(recs, Moved(st, {Oldest(recs, st)}, "Dispatching"),
             handedOff \ {Oldest(recs, st)}, Append(ready, Oldest(recs, st)), queue, D)
    BY <1>1, PromotionKept
  <2> QED
    BY <1>1, <2>1, <2>2 DEF Promoted
<1>2. CASE ~ CanPromote(st)
  BY <1>2 DEF PromoteNext, Promoted
<1> QED
  BY <1>1, <1>2

\* So does a promotion followed by a hand-off.
LEMMA PromoteAndHandOffKept ==
  ASSUME MailboxTypeOK, NEW recs \in Seq(Inputs), NEW st \in [Inputs -> States], NEW D,
         Kept(recs, st, handedOff, ready, queue, D), PromoteAndHandOff(recs, st)
  PROVE  Promoted(recs, st) /\ Kept(recs, status', handedOff', ready', queue', D)
<1>0. handedOff \in SUBSET Inputs /\ ready \in Seq(Inputs)
  BY DEF MailboxTypeOK
<1>1. CASE CanPromote(st)
  <2> DEFINE i == Oldest(recs, st)
             st2 == Moved(st, {i}, "Dispatching")
  <2>1. /\ status' = st2
        /\ HandOff(Append(ready, i), st2, handedOff \ {i})
    BY <1>1 DEF PromoteAndHandOff
  <2>2. /\ Append(ready, i) \in Seq(Inputs)
        /\ Kept(recs, st2, handedOff \ {i}, Append(ready, i), queue, D)
    BY <1>1, PromotionKept
  <2>3. status' = Moved(st, {Oldest(recs, st)}, "Dispatching")
    BY <2>1
  <2> HIDE DEF i, st2
  <2>4. handedOff \ {i} \in SUBSET Inputs
    BY <1>0
  <2>5. Kept(recs, st2, handedOff', ready', queue', D)
    BY <2>1, <2>2, <2>4, HandOffKept
  <2> QED
    BY <1>1, <2>1, <2>3, <2>5 DEF Promoted
<1>2. CASE ~ CanPromote(st)
  <2>1. status' = st /\ HandOff(ready, st, handedOff)
    BY <1>2 DEF PromoteAndHandOff
  <2>2. Kept(recs, st, handedOff', ready', queue', D)
    BY <1>0, <2>1, HandOffKept
  <2> QED
    BY <2>1, <2>2 DEF Promoted
<1> QED
  BY <1>1, <1>2

\* So does wake_suspended_locked; a paused session is left as it is.
LEMMA WakeSuspendedKept ==
  ASSUME MailboxTypeOK, NEW recs \in Seq(Inputs), NEW st \in [Inputs -> States],
         NEW atIdle, NEW D,
         Kept(recs, st, handedOff, ready, queue, D), WakeSuspended(recs, st, atIdle)
  PROVE  /\ Promoted(recs, st) /\ Kept(recs, status', handedOff', ready', queue', D)
         /\ paused => ready' = ready /\ queue' = queue
<1>1. CASE Wakeable /\ atIdle /\ CanPromote(st)
  <2>1. PromoteAndHandOff(recs, st) /\ ~paused
    BY <1>1 DEF WakeSuspended, Wakeable
  <2> QED
    BY <2>1, PromoteAndHandOffKept
<1>2. CASE ~ (Wakeable /\ atIdle /\ CanPromote(st))
  BY <1>2 DEF WakeSuspended, Promoted
<1> QED
  BY <1>1, <1>2

\* A reclaim leaves selected only what Receive has drained, and nothing waiting.
LEMMA ReclaimKept ==
  ASSUME MailboxTypeOK, NEW D, Kept(records, status, handedOff, ready, queue, D), Reclaim
  PROVE  /\ Kept(records, status', handedOff', ready', queue', D)
         /\ ready' = << >> /\ queue' = << >>
         /\ \E back \in SUBSET WithStatus("Dispatching") :
              back \cap D = {} /\ status' = Moved(status, back, "Queued")
<1> DEFINE pushed == {i \in WithStatus("Dispatching") : i \in handedOff}
           back == {i \in WithStatus("Dispatching") : i \notin handedOff \/ i \in Range(queue)}
<1>1. /\ queue' = Keep(queue, Inputs \ pushed)
      /\ status' = Moved(status, back, "Queued")
      /\ handedOff' = handedOff \ back
      /\ ready' = << >>
  BY DEF Reclaim
<1>2. back \in SUBSET WithStatus("Dispatching") /\ WithStatus("Dispatching") = Sel(status)
  BY DEF Sel, WithStatus
<1>3. pushed = Sel(status) \cap handedOff
  BY DEF Sel, WithStatus
<1>4. back = (Sel(status) \ handedOff) \cup (Sel(status) \cap Range(queue))
  BY <1>2
<1> HIDE DEF pushed, back
<1>5. queue \in Seq(Inputs) /\ status \in [Inputs -> States] /\ handedOff \in SUBSET Inputs
  BY DEF MailboxTypeOK
<1>6. Range(queue) \cap D = {} /\ Range(queue) \cup D = pushed
  BY <1>3 DEF Kept
<1>7. queue' \in Seq(Inputs) /\ Range(queue') = {}
  <2>1. queue' \in Seq(Inputs) /\ Range(queue') = Range(queue) \cap (Inputs \ pushed)
    BY <1>1, <1>5, KeepKept
  <2> QED
    BY <1>6, <2>1
<1>8. queue' = << >>
  BY <1>7, EmptyRange
<1>9. back \cap D = {} /\ D \subseteq Sel(status) \cap handedOff
  BY <1>3, <1>4, <1>6
<1>10. \A i \in Inputs : status'[i] = IF i \in back THEN "Queued" ELSE status[i]
  BY <1>1 DEF Moved
<1>11. Sel(status') = Sel(status) \ back
  BY <1>10 DEF Sel
<1>12. Sel(status') = D /\ D \subseteq handedOff'
  BY <1>1, <1>3, <1>4, <1>6, <1>9, <1>11
<1>13. Range(records) = {i \in Inputs : status'[i] # "Absent"}
  <2>1. \A i \in back : status[i] = "Dispatching"
    BY <1>2 DEF Sel
  <2>2. \A i \in Inputs : status'[i] # "Absent" <=> status[i] # "Absent"
    BY <1>10, <2>1
  <2> QED
    BY <2>2 DEF Kept, Recorded
<1>14. Kept(records, status', handedOff', ready', queue', D)
  <2>1. Range(ready') = {} /\ IsInjective(ready') /\ Range(queue') = {} /\ IsInjective(queue')
    BY <1>1, <1>8, EmptyFacts
  <2> QED
    BY <1>12, <1>13, <2>1 DEF Kept, Recorded
<1> QED
  BY <1>1, <1>2, <1>8, <1>9, <1>14

-----------------------------------------------------------------------------
(* What an operation of the mailbox does to the records                    *)

\* A command accepts input i, and may release one queued input.
Accepting(i) ==
  LET st == [status EXCEPT ![i] = "Queued"] IN
  /\ status[i] = "Absent"
  /\ Cardinality(Pending) < Capacity
  /\ records' = Append(records, i)
  /\ Promoted(records', st)

\* The oldest queued input is released, or nothing happens.
Releasing == records' = records /\ Promoted(records, status)

\* Selected inputs which Receive has not drained are queued again.
GivingBack ==
  /\ records' = records
  /\ \E back \in SUBSET WithStatus("Dispatching") :
       back \cap Range(batch) = {} /\ status' = Moved(status, back, "Queued")

\* Queued inputs are sent now.
Choosing ==
  /\ records' = records
  /\ \E ids \in SUBSET WithStatus("Queued") :
       ids \subseteq Chosen' /\ status' = Moved(status, ids, "Dispatching")

Withdrawing ==
  /\ records' = records
  /\ \E i \in WithStatus("Queued") : status' = Moved(status, {i}, "Withdrawn")

RecordEffect ==
  \/ \E i \in Inputs : Accepting(i)
  \/ Releasing \/ GivingBack \/ Choosing \/ Withdrawing

Final == {"Claimed", "Delivered"}

\* No operation of the mailbox touches what is claimed or delivered.
LEMMA EffectKeepsFinal ==
  ASSUME SessionOK, MailboxKept, RecordEffect
  PROVE  \A i \in Inputs : status[i] \in Final \/ status'[i] \in Final => status'[i] = status[i]
<1>0. /\ MailboxTypeOK /\ Listed(records, status)
      /\ records \in Seq(Inputs) /\ status \in [Inputs -> States]
  BY DEF SessionOK, MailboxOK, MailboxTypeOK
<1>1. ASSUME NEW recs \in Seq(Inputs), NEW st \in [Inputs -> States], Listed(recs, st),
             Promoted(recs, st)
      PROVE  \A j \in Inputs : status'[j] = st[j] \/ (st[j] = "Queued" /\ status'[j] = "Dispatching")
  <2>1. CASE CanPromote(st) /\ status' = Moved(st, {Oldest(recs, st)}, "Dispatching")
    <3>1. st[Oldest(recs, st)] = "Queued"
      BY <1>1, <2>1, OldestIsQueued
    <3> QED
      BY <2>1, <3>1 DEF Moved
  <2> QED
    BY <1>1, <2>1 DEF Promoted
<1>2. ASSUME NEW i \in Inputs, Accepting(i)
      PROVE  \A j \in Inputs : status[j] \in Final \/ status'[j] \in Final => status'[j] = status[j]
  <2> DEFINE st == [status EXCEPT ![i] = "Queued"]
  <2>1. /\ records' = Append(records, i) /\ status[i] = "Absent"
        /\ Promoted(records', st)
    BY <1>2 DEF Accepting
  <2>2. st \in [Inputs -> States] /\ \A j \in Inputs : st[j] = IF j = i THEN "Queued" ELSE status[j]
    BY <1>0 DEF States
  <2> HIDE DEF st
  <2>3. records' \in Seq(Inputs) /\ Range(records') = Range(records) \cup {i}
    BY <1>0, <2>1, AppendKept
  <2>4. Listed(records', st)
    BY <1>0, <2>2, <2>3 DEF Listed
  <2>5. \A j \in Inputs : status'[j] = st[j] \/ (st[j] = "Queued" /\ status'[j] = "Dispatching")
    BY <1>1, <2>1, <2>2, <2>3, <2>4
  <2> QED
    BY <2>1, <2>2, <2>5 DEF Final
<1>3. CASE Releasing
  <2>1. \A j \in Inputs : status'[j] = status[j] \/ (status[j] = "Queued" /\ status'[j] = "Dispatching")
    BY <1>0, <1>1, <1>3 DEF Releasing
  <2> QED
    BY <2>1 DEF Final
<1>4. CASE GivingBack \/ Choosing \/ Withdrawing
  BY <1>4 DEF GivingBack, Choosing, Withdrawing, Moved, WithStatus, Final
<1> QED
  BY <1>2, <1>3, <1>4 DEF RecordEffect

\* What an input outside `chosen' may do without disturbing the order: it is
\* not selected, and what has passed does not come back.
LEMMA OrderKept ==
  ASSUME NEW recs, NEW st, NEW st2, NEW chosen, NEW chosen2,
         chosen \subseteq chosen2, Range(recs) \subseteq Inputs,
         InOrder(recs, st, chosen),
         \A i \in Inputs : i \notin chosen2 =>
           /\ st2[i] \in {"Dispatching", "Claimed", "Delivered"}
                => st[i] \in {"Dispatching", "Claimed", "Delivered"}
           /\ st[i] \in {"Claimed", "Delivered", "Withdrawn"}
                => st2[i] \in {"Claimed", "Delivered", "Withdrawn"}
  PROVE  InOrder(recs, st2, chosen2)
<1>1. \A n \in DOMAIN recs : recs[n] \in Inputs
  BY DEF Range
<1> QED
  BY <1>1 DEF InOrder

\* The promotion passes only what has gone before.
LEMMA OrderPromotion ==
  ASSUME NEW recs \in Seq(Inputs), NEW st \in [Inputs -> States], NEW chosen,
         InOrder(recs, st, chosen), Recorded(recs, st),
         Promoted(recs, st)
  PROVE  InOrder(recs, status', chosen)
<1>1. CASE status' = st
  BY <1>1
<1>2. CASE CanPromote(st) /\ status' = Moved(st, {Oldest(recs, st)}, "Dispatching")
  <2> DEFINE First(k) == /\ st[recs[k]] = "Queued"
                         /\ \A m \in 1 .. (k - 1) : st[recs[m]] # "Queued"
  <2>1. Listed(recs, st)
    BY DEF Recorded, Listed
  <2>2. PICK k \in DOMAIN recs : Oldest(recs, st) = recs[k] /\ First(k)
    BY <1>2, <2>1, OldestIsFirst
  <2> DEFINE o == recs[k]
  <2>3. o \in Inputs /\ o = Oldest(recs, st) /\ k \in Nat
    BY <2>2
  <2>4. \A j \in Inputs : status'[j] = IF j = o THEN "Dispatching" ELSE st[j]
    BY <1>2, <2>3 DEF Moved
  <2>5. st[o] = "Queued" /\ \A m \in 1 .. (k - 1) : st[recs[m]] # "Queued"
    BY <2>2
  <2>6. \A j \in Inputs : st[j] \notin {"Dispatching", "Claimed"}
    BY <1>2 DEF CanPromote
  <2>7. SUFFICES ASSUME NEW m \in DOMAIN recs, NEW n \in DOMAIN recs, m < n,
                        recs[m] \notin chosen, recs[n] \notin chosen,
                        status'[recs[n]] \in {"Dispatching", "Claimed", "Delivered"}
                 PROVE  status'[recs[m]] \in {"Claimed", "Delivered", "Withdrawn"}
    BY DEF InOrder
  <2>8. /\ recs[m] \in Inputs /\ recs[n] \in Inputs /\ m \in Nat /\ n \in Nat
        /\ st[recs[m]] # "Absent" /\ st[recs[m]] \in States
    BY DEF Recorded, Range
  <2> HIDE DEF o
  <2>9. CASE recs[n] # o
    <3>1. st[recs[n]] \in {"Dispatching", "Claimed", "Delivered"}
      BY <2>4, <2>7, <2>8, <2>9
    <3>2. st[recs[m]] \in {"Claimed", "Delivered", "Withdrawn"}
      BY <3>1, <2>7 DEF InOrder
    <3> QED
      BY <2>4, <2>5, <2>8, <3>2
  <2>10. CASE recs[n] = o
    <3>1. n = k
      BY <2>10 DEF Recorded, IsInjective, o
    <3>2. m \in 1 .. (k - 1)
      BY <2>3, <2>7, <2>8, <3>1
    <3>3. st[recs[m]] # "Queued"
      BY <2>5, <3>2
    <3>4. st[recs[m]] \in {"Delivered", "Withdrawn"}
      BY <2>6, <2>8, <3>3 DEF States
    <3> QED
      BY <2>4, <2>5, <2>8, <3>4
  <2> QED
    BY <2>9, <2>10
<1> QED
  BY <1>1, <1>2 DEF Promoted

\* Accepting an input at the end of the records.
LEMMA OrderAccept ==
  ASSUME NEW recs \in Seq(Inputs), NEW st \in [Inputs -> States], NEW chosen,
         NEW i \in Inputs, st[i] = "Absent",
         InOrder(recs, st, chosen), Recorded(recs, st)
  PROVE  LET recs2 == Append(recs, i)
             st2 == [st EXCEPT ![i] = "Queued"]
         IN  /\ recs2 \in Seq(Inputs) /\ st2 \in [Inputs -> States]
             /\ InOrder(recs2, st2, chosen) /\ Recorded(recs2, st2)
<1> DEFINE recs2 == Append(recs, i)
           st2 == [st EXCEPT ![i] = "Queued"]
<1>1. st2 \in [Inputs -> States] /\ \A j \in Inputs : st2[j] = IF j = i THEN "Queued" ELSE st[j]
  BY DEF States
<1>2. i \notin Range(recs)
  BY DEF Recorded
<1>3. recs2 \in Seq(Inputs) /\ Range(recs2) = Range(recs) \cup {i} /\ IsInjective(recs2)
  BY <1>2, AppendKept DEF Recorded
<1>4. /\ DOMAIN recs = 1 .. Len(recs) /\ Len(recs) \in Nat
      /\ DOMAIN recs2 = 1 .. (Len(recs) + 1)
      /\ \A n \in DOMAIN recs : recs2[n] = recs[n]
      /\ recs2[Len(recs) + 1] = i
  OBVIOUS
<1> HIDE DEF recs2, st2
<1>5. Recorded(recs2, st2)
  BY <1>1, <1>3 DEF Recorded
<1>6. ASSUME NEW m \in DOMAIN recs2, NEW n \in DOMAIN recs2, m < n,
             recs2[m] \notin chosen, recs2[n] \notin chosen,
             st2[recs2[n]] \in {"Dispatching", "Claimed", "Delivered"}
      PROVE  st2[recs2[m]] \in {"Claimed", "Delivered", "Withdrawn"}
  <2>1. n # Len(recs) + 1
    BY <1>1, <1>4, <1>6
  <2>2. n \in DOMAIN recs /\ m \in DOMAIN recs
    BY <1>4, <1>6, <2>1
  <2>3. recs2[m] = recs[m] /\ recs2[n] = recs[n] /\ recs[m] \in Inputs /\ recs[n] \in Inputs
    BY <1>4, <2>2
  <2>4. recs[m] \in Range(recs) /\ recs[n] \in Range(recs)
    BY <2>2 DEF Range
  <2>5. st2[recs[m]] = st[recs[m]] /\ st2[recs[n]] = st[recs[n]]
    BY <1>1, <1>2, <2>3, <2>4
  <2> QED
    BY <1>6, <2>2, <2>3, <2>5 DEF InOrder
<1>7. InOrder(recs2, st2, chosen)
  BY <1>6 DEF InOrder
<1> QED
  BY <1>1, <1>3, <1>5, <1>7 DEF recs2, st2

\* Every operation of the mailbox keeps the order of the inputs not sent now.
LEMMA EffectKeepsOrder ==
  ASSUME SessionOK, MailboxKept, Arranged, RecordEffect, Chosen \subseteq Chosen'
  PROVE  Arranged'
<1>0. /\ MailboxTypeOK /\ Listed(records, status)
      /\ records \in Seq(Inputs) /\ status \in [Inputs -> States]
  BY DEF SessionOK, MailboxOK, MailboxTypeOK
<1>1. Recorded(records, status) /\ InOrder(records, status, Chosen)
  BY DEF MailboxKept, Kept, Arranged
<1>2. Range(records) \subseteq Inputs
  BY <1>1 DEF Recorded
<1>3. InOrder(records, status, Chosen')
  BY <1>1, <1>2, OrderKept
<1> SUFFICES InOrder(records', status', Chosen')
  BY DEF Arranged
<1>4. ASSUME NEW i \in Inputs, Accepting(i)
      PROVE  InOrder(records', status', Chosen')
  <2> DEFINE st == [status EXCEPT ![i] = "Queued"]
  <2>1. records' = Append(records, i) /\ status[i] = "Absent" /\ Promoted(records', st)
    BY <1>4 DEF Accepting
  <2> DEFINE recs == Append(records, i)
  <2>6. /\ recs \in Seq(Inputs) /\ st \in [Inputs -> States]
        /\ InOrder(recs, st, Chosen') /\ Recorded(recs, st)
    BY <1>0, <1>1, <1>3, <2>1, OrderAccept
  <2> HIDE DEF recs
  <2>7. records' = recs
    BY <2>1 DEF recs
  <2>2. /\ records' \in Seq(Inputs) /\ st \in [Inputs -> States]
        /\ InOrder(records', st, Chosen') /\ Recorded(records', st)
    BY <2>6, <2>7
  <2> HIDE DEF st
  <2> QED
    BY <2>1, <2>2, OrderPromotion
<1>5. CASE Releasing
  BY <1>0, <1>1, <1>3, <1>5, OrderPromotion DEF Releasing
<1>6. CASE GivingBack
  <2>1. PICK back \in SUBSET WithStatus("Dispatching") : status' = Moved(status, back, "Queued")
    BY <1>6 DEF GivingBack
  <2>2. \A j \in Inputs : status'[j] = IF j \in back THEN "Queued" ELSE status[j]
    BY <2>1 DEF Moved
  <2>3. \A j \in back : status[j] = "Dispatching"
    BY DEF WithStatus
  <2>4. \A j \in Inputs :
           /\ status'[j] \in {"Dispatching", "Claimed", "Delivered"}
                => status[j] \in {"Dispatching", "Claimed", "Delivered"}
           /\ status[j] \in {"Claimed", "Delivered", "Withdrawn"}
                => status'[j] \in {"Claimed", "Delivered", "Withdrawn"}
    BY <2>2, <2>3
  <2> QED
    BY <1>2, <1>3, <1>6, <2>4, OrderKept DEF GivingBack
<1>7. CASE Choosing
  <2>1. PICK ids \in SUBSET WithStatus("Queued") :
          ids \subseteq Chosen' /\ status' = Moved(status, ids, "Dispatching")
    BY <1>7 DEF Choosing
  <2>2. \A j \in Inputs : status'[j] = IF j \in ids THEN "Dispatching" ELSE status[j]
    BY <2>1 DEF Moved
  <2>3. \A j \in Inputs : j \notin Chosen' => status'[j] = status[j]
    BY <2>1, <2>2
  <2> QED
    BY <1>2, <1>3, <1>7, <2>3, OrderKept DEF Choosing
<1>8. CASE Withdrawing
  <2>1. PICK i \in WithStatus("Queued") : status' = Moved(status, {i}, "Withdrawn")
    BY <1>8 DEF Withdrawing
  <2>2. \A j \in Inputs : status'[j] = IF j = i THEN "Withdrawn" ELSE status[j]
    BY <2>1 DEF Moved
  <2>3. status[i] = "Queued"
    BY DEF WithStatus
  <2>4. \A j \in Inputs :
           /\ status'[j] \in {"Dispatching", "Claimed", "Delivered"}
                => status[j] \in {"Dispatching", "Claimed", "Delivered"}
           /\ status[j] \in {"Claimed", "Delivered", "Withdrawn"}
                => status'[j] \in {"Claimed", "Delivered", "Withdrawn"}
    BY <2>2, <2>3
  <2> QED
    BY <1>2, <1>3, <1>8, <2>4, OrderKept DEF Withdrawing
<1> QED
  BY <1>4, <1>5, <1>6, <1>7, <1>8 DEF RecordEffect

-----------------------------------------------------------------------------
(* What an operation of the mailbox means for the promised lifecycle       *)

\* The phase of an input whose record says s, when T was written and B drained.
PhaseIs(ph, st, T, B) ==
  \A j \in Inputs : ph[j] = IF j \in T THEN "Delivered"
                            ELSE IF j \in B THEN "Claimed" ELSE st[j]

\* Inputs in T and B are out of the mailbox's reach.
Beyond(st, T, B) ==
  /\ \A j \in T : st[j] \in {"Claimed", "Delivered"}
  /\ \A j \in B : st[j] \in {"Dispatching", "Claimed"}

\* The phases of the promised lifecycle, input by input.
LEMMA PhaseFacts ==
  ASSUME MailboxTypeOK
  PROVE  /\ DeliveryPhase \in [Inputs -> States]
         /\ PhaseIs(DeliveryPhase, status, Range(transcript), Range(batch))
<1>1. status \in [Inputs -> States]
  BY DEF MailboxTypeOK
<1>2. ASSUME NEW j \in Inputs
      PROVE  DeliveryPhase[j] = IF j \in Range(transcript) THEN "Delivered"
                                ELSE IF j \in Range(batch) THEN "Claimed" ELSE status[j]
  BY DEF DeliveryPhase
<1>3. DeliveryPhase = [j \in Inputs |-> DeliveryPhase[j]]
  BY DEF DeliveryPhase
<1>4. \A j \in Inputs : DeliveryPhase[j] \in States
  BY <1>1, <1>2 DEF States
<1> HIDE DEF DeliveryPhase
<1> QED
  BY <1>2, <1>3, <1>4 DEF PhaseIs

\* What was drained or written is out of reach of the mailbox.
LEMMA BeyondReach ==
  ASSUME SessionOK, MailboxKept, BatchOK, TranscriptOK
  PROVE  /\ Beyond(status, Range(transcript), Range(batch))
         /\ Range(transcript) \subseteq Inputs /\ Range(batch) \subseteq Inputs
<1>1. batch \in Seq(Inputs) /\ transcript \in Seq(Inputs)
  BY DEF SessionOK, LocalOK
<1>2. Range(transcript) \subseteq Inputs /\ Range(batch) \subseteq Inputs
  BY <1>1 DEF Range
<1>3. ASSUME NEW j \in Range(batch)
      PROVE  status[j] \in {"Dispatching", "Claimed"}
  <2>1. CASE pc = "drained"
    <3>1. j \in Sel(status)
      BY <2>1 DEF MailboxKept, Kept, Drained
    <3> QED
      BY <3>1 DEF Sel
  <2>2. CASE pc \in {"claimed", "appended"}
    <3>1. j \in WithStatus("Claimed")
      BY <2>2 DEF BatchOK
    <3> QED
      BY <3>1 DEF WithStatus
  <2>3. CASE pc \notin {"drained", "claimed", "appended"}
    <3>1. Range(batch) = {}
      BY <2>3, EmptyFacts DEF BatchOK
    <3> QED
      BY <3>1
  <2> QED
    BY <2>1, <2>2, <2>3
<1>4. ASSUME NEW j \in Range(transcript)
      PROVE  status[j] \in {"Claimed", "Delivered"}
  <2>1. j \in WithStatus("Delivered") \/ j \in Unreported
    BY DEF TranscriptOK
  <2>2. CASE j \in Unreported
    <3>1. j \in WithStatus("Claimed")
      BY <2>2 DEF BatchOK, Unreported
    <3> QED
      BY <3>1 DEF WithStatus
  <2> QED
    BY <2>1, <2>2 DEF WithStatus
<1> QED
  BY <1>2, <1>3, <1>4 DEF Beyond

\* A promotion is a release of the promised lifecycle, or no step of it.
LEMMA ReleaseMaps ==
  ASSUME NEW recs \in Seq(Inputs), NEW st \in [Inputs -> States], Recorded(recs, st),
         Promoted(recs, st), NEW T \in SUBSET Inputs, NEW B \in SUBSET Inputs,
         NEW ph \in [Inputs -> States], NEW ph2 \in [Inputs -> States],
         PhaseIs(ph, st, T, B), PhaseIs(ph2, status', T, B), Beyond(st, T, B)
  PROVE  ph2 \in Delivery!Released(recs, ph)
<1>1. CASE status' = st
  <2>1. \A j \in Inputs : ph2[j] = ph[j]
    BY <1>1 DEF PhaseIs
  <2>2. ph2 = ph
    BY <2>1
  <2> QED
    BY <2>2 DEF Delivery!Released
<1>2. CASE CanPromote(st) /\ status' = Moved(st, {Oldest(recs, st)}, "Dispatching")
  <2>1. Listed(recs, st)
    BY DEF Recorded, Listed
  <2>2. PICK k \in DOMAIN recs :
           /\ Oldest(recs, st) = recs[k]
           /\ st[recs[k]] = "Queued"
           /\ \A m \in 1 .. (k - 1) : st[recs[m]] # "Queued"
    BY <1>2, <2>1, OldestIsFirst
  <2> DEFINE o == recs[k]
  <2>3. o \in Inputs /\ o = Oldest(recs, st) /\ st[o] = "Queued" /\ k \in 1 .. Len(recs)
    BY <2>2
  <2>4. \A j \in Inputs : st[j] \notin {"Dispatching", "Claimed"}
    BY <1>2 DEF CanPromote
  <2>5. \A j \in Inputs : status'[j] = IF j = o THEN "Dispatching" ELSE st[j]
    BY <1>2, <2>3 DEF Moved
  <2>6. B = {} /\ o \notin T
    BY <2>3, <2>4 DEF Beyond
  <2>7. \A j \in Inputs : ph[j] = "Queued" <=> st[j] = "Queued" /\ j \notin T
    BY <2>6 DEF PhaseIs
  <2>8. Delivery!In(ph, {"Dispatching", "Claimed"}) = {}
    BY <2>4, <2>6 DEF PhaseIs, Delivery!In
  <2>9. ph[o] = "Queued" /\ \A m \in 1 .. (k - 1) : ph[recs[m]] # "Queued"
    <3>1. \A m \in 1 .. (k - 1) : recs[m] \in Inputs
      BY <2>3
    <3> QED
      BY <2>2, <2>3, <2>6, <2>7, <3>1
  <2>10. Delivery!IsNext(recs, ph, o)
    BY <2>9 DEF Delivery!IsNext
  <2>11. ph2 = [ph EXCEPT ![o] = "Dispatching"]
    <3>1. \A j \in Inputs : ph2[j] = IF j = o THEN "Dispatching" ELSE ph[j]
      BY <2>3, <2>5, <2>6 DEF PhaseIs
    <3> HIDE DEF o
    <3> QED
      BY <2>3, <3>1
  <2> HIDE DEF o
  <2> QED
    BY <2>3, <2>8, <2>10, <2>11 DEF Delivery!Released
<1> QED
  BY <1>1, <1>2 DEF Promoted

\* The lifecycle's module counts as this one does.
LEMMA SameCardinality ==
  ASSUME NEW S
  PROVE  Delivery!Cardinality(S) = Cardinality(S)
BY DEF Delivery!Cardinality, Cardinality

\* Fewer inputs are pending in the promised lifecycle than in the records.
LEMMA PendingBound ==
  ASSUME MailboxTypeOK, Recorded(records, status),
         NEW T, NEW B, NEW ph \in [Inputs -> States], PhaseIs(ph, status, T, B),
         Beyond(status, T, B), Cardinality(Pending) < Capacity
  PROVE  Cardinality(Delivery!In(ph, {"Queued", "Dispatching", "Claimed"})) < Capacity
<1> DEFINE P == Delivery!In(ph, {"Queued", "Dispatching", "Claimed"})
<1>1. Pending \subseteq Range(records)
  BY DEF Pending, WithStatus, Recorded
<1>2. IsFiniteSet(Pending)
  <2>1. IsFiniteSet(Range(records))
    BY FiniteRange DEF MailboxTypeOK
  <2> QED
    BY <1>1, <2>1, FS_Subset
<1>3. P \subseteq Pending
  BY DEF PhaseIs, Beyond, Delivery!In, Pending, WithStatus
<1> HIDE DEF P
<1>4. IsFiniteSet(P) /\ Cardinality(P) <= Cardinality(Pending)
  BY <1>2, <1>3, FS_Subset
<1>5. Cardinality(P) \in Nat /\ Cardinality(Pending) \in Nat /\ Capacity \in Nat
  BY <1>2, <1>4, FS_CardinalityType, CapacityAssumption
<1>6. Cardinality(P) < Capacity
  BY <1>4, <1>5
<1> QED
  BY <1>6 DEF P

\* Every operation of the mailbox is a step of the promised lifecycle, or none.
LEMMA EffectMaps ==
  ASSUME SessionOK, SessionOK', MailboxKept, BatchOK, TranscriptOK, RecordEffect,
         UNCHANGED <<batch, transcript>>
  PROVE  Delivery!Next \/ UNCHANGED Delivery!vars
<1> DEFINE T == Range(transcript)
           B == Range(batch)
           ph == DeliveryPhase
<1>0. /\ MailboxTypeOK /\ MailboxTypeOK' /\ Recorded(records, status)
      /\ records \in Seq(Inputs) /\ status \in [Inputs -> States]
  BY DEF SessionOK, MailboxOK, MailboxTypeOK, MailboxKept, Kept
<1>1. ph \in [Inputs -> States] /\ PhaseIs(ph, status, T, B)
  BY <1>0, PhaseFacts
<1>2. ph' \in [Inputs -> States] /\ PhaseIs(ph', status', T, B)
  <2>1. status' \in [Inputs -> States]
    BY <1>0 DEF MailboxTypeOK
  <2>2. ASSUME NEW j \in Inputs
        PROVE  ph'[j] = IF j \in T THEN "Delivered" ELSE IF j \in B THEN "Claimed" ELSE status'[j]
    BY DEF DeliveryPhase
  <2>3. ph' = [j \in Inputs |-> ph'[j]]
    BY DEF DeliveryPhase
  <2>4. \A j \in Inputs : ph'[j] \in States
    BY <2>1, <2>2 DEF States
  <2> HIDE DEF ph, T, B
  <2> QED
    BY <2>2, <2>3, <2>4 DEF PhaseIs
<1>3. Beyond(status, T, B) /\ T \in SUBSET Inputs /\ B \in SUBSET Inputs
  BY BeyondReach
<1>4. records' = records => ph' \in Delivery!Released(records, ph) \/ ~ Releasing
  BY <1>0, <1>1, <1>2, <1>3, ReleaseMaps DEF Releasing
<1> HIDE DEF ph, T, B
<1>5. \A j \in Inputs : status[j] \in {"Absent", "Queued"} => ph[j] = status[j] /\ j \notin T \cup B
  BY <1>1, <1>3 DEF PhaseIs, Beyond
<1>6. \A j \in Inputs : status[j] = "Dispatching" /\ j \notin B => ph[j] = status[j] /\ j \notin T
  BY <1>1, <1>3 DEF PhaseIs, Beyond
<1>7. ASSUME NEW ids \in SUBSET Inputs, NEW to \in States, ids \cap (T \cup B) = {},
             status' = Moved(status, ids, to)
      PROVE  ph' = [j \in Inputs |-> IF j \in ids THEN to ELSE ph[j]]
  <2>1. \A j \in Inputs : status'[j] = IF j \in ids THEN to ELSE status[j]
    BY <1>7 DEF Moved
  <2>2. \A j \in Inputs : ph'[j] = IF j \in ids THEN to ELSE ph[j]
    BY <1>1, <1>2, <1>7, <2>1 DEF PhaseIs
  <2> QED
    BY <1>2, <2>2
<1>8. ASSUME NEW i \in Inputs, Accepting(i)
      PROVE  Delivery!Accept(i)
  <2> DEFINE st == [status EXCEPT ![i] = "Queued"]
             start == Delivery!Moved({i}, "Queued")
  <2>1. /\ records' = Append(records, i) /\ status[i] = "Absent"
        /\ Promoted(records', st) /\ Cardinality(Pending) < Capacity
    BY <1>8 DEF Accepting
  <2>2. st \in [Inputs -> States] /\ \A j \in Inputs : st[j] = IF j = i THEN "Queued" ELSE status[j]
    BY <1>0 DEF States
  <2>3. start \in [Inputs -> States] /\ \A j \in Inputs : start[j] = IF j = i THEN "Queued" ELSE ph[j]
    BY <1>1 DEF Delivery!Moved, States, ph
  <2> HIDE DEF st, start
  <2>4. ph[i] = "Absent" /\ i \notin T /\ i \notin B
    BY <1>5, <2>1
  <2>5. PhaseIs(start, st, T, B) /\ Beyond(st, T, B)
    BY <1>1, <1>3, <2>2, <2>3, <2>4 DEF PhaseIs, Beyond
  <2>6. records' \in Seq(Inputs) /\ Recorded(records', st)
    <3>1. i \notin Range(records)
      BY <1>0, <2>1 DEF Recorded
    <3>2. records' \in Seq(Inputs) /\ Range(records') = Range(records) \cup {i} /\ IsInjective(records')
      BY <1>0, <2>1, <3>1, AppendKept DEF Recorded
    <3> QED
      BY <1>0, <2>2, <3>2 DEF Recorded
  <2>7. ph' \in Delivery!Released(records', start)
    BY <1>2, <1>3, <2>1, <2>2, <2>3, <2>5, <2>6, ReleaseMaps
  <2>8. Cardinality(Delivery!In(ph, {"Queued", "Dispatching", "Claimed"})) < Capacity
    BY <1>0, <1>1, <1>3, <2>1, PendingBound
  <2> DEFINE pend == Delivery!In(ph, {"Queued", "Dispatching", "Claimed"})
  <2> HIDE DEF pend
  <2>9. Delivery!Cardinality(pend) < Capacity
    BY <2>8, SameCardinality DEF pend
  <2> QED
    BY <2>1, <2>4, <2>7, <2>9 DEF Delivery!Accept, ph, start, pend
<1>9. CASE Releasing
  BY <1>4, <1>9 DEF Delivery!Next, Delivery!Release, Releasing, ph
<1>10. CASE GivingBack
  <2>1. PICK back \in SUBSET WithStatus("Dispatching") :
          back \cap Range(batch) = {} /\ status' = Moved(status, back, "Queued")
    BY <1>10 DEF GivingBack
  <2>2. back \in SUBSET Inputs /\ \A j \in back : status[j] = "Dispatching" /\ j \notin B
    BY <2>1 DEF WithStatus, B
  <2>3. back \cap (T \cup B) = {} /\ \A j \in back : ph[j] = "Dispatching"
    BY <1>6, <2>2
  <2>4. ph' = [j \in Inputs |-> IF j \in back THEN "Queued" ELSE ph[j]]
    BY <1>7, <2>1, <2>2, <2>3 DEF States
  <2>5. back \subseteq Delivery!In(ph, {"Dispatching"})
    BY <2>2, <2>3 DEF Delivery!In
  <2>6. Delivery!GiveBack(back)
    BY <1>10, <2>4, <2>5 DEF Delivery!GiveBack, Delivery!Moved, GivingBack, ph
  <2> QED
    BY <2>2, <2>6 DEF Delivery!Next
<1>11. CASE Choosing
  <2>1. PICK ids \in SUBSET WithStatus("Queued") : status' = Moved(status, ids, "Dispatching")
    BY <1>11 DEF Choosing
  <2>2. ids \in SUBSET Inputs /\ \A j \in ids : status[j] = "Queued"
    BY <2>1 DEF WithStatus
  <2>3. ids \cap (T \cup B) = {} /\ \A j \in ids : ph[j] = "Queued"
    BY <1>5, <2>2
  <2>4. ph' = [j \in Inputs |-> IF j \in ids THEN "Dispatching" ELSE ph[j]]
    BY <1>7, <2>1, <2>2, <2>3 DEF States
  <2>5. ids \subseteq Delivery!In(ph, {"Queued"})
    BY <2>2, <2>3 DEF Delivery!In
  <2>6. Delivery!SendNow(ids)
    BY <1>11, <2>4, <2>5 DEF Delivery!SendNow, Delivery!Moved, Choosing, ph
  <2> QED
    BY <2>2, <2>6 DEF Delivery!Next
<1>12. CASE Withdrawing
  <2>1. PICK i \in WithStatus("Queued") : status' = Moved(status, {i}, "Withdrawn")
    BY <1>12 DEF Withdrawing
  <2>2. i \in Inputs /\ status[i] = "Queued"
    BY <2>1 DEF WithStatus
  <2>3. {i} \cap (T \cup B) = {} /\ ph[i] = "Queued" /\ {i} \in SUBSET Inputs
    BY <1>5, <2>2
  <2>4. ph' = [j \in Inputs |-> IF j \in {i} THEN "Withdrawn" ELSE ph[j]]
    BY <1>7, <2>1, <2>3 DEF States
  <2>5. Delivery!Withdraw(i)
    BY <1>12, <2>3, <2>4 DEF Delivery!Withdraw, Delivery!Moved, Withdrawing, ph
  <2> QED
    BY <2>2, <2>5 DEF Delivery!Next
<1> QED
  BY <1>8, <1>9, <1>10, <1>11, <1>12 DEF RecordEffect, Delivery!Next

-----------------------------------------------------------------------------
(* Custody through the operations of the mailbox                           *)

\* What every operation of the mailbox leaves behind: the places agree, the
\* records moved as they may, and nothing is admitted while the session pauses.
Careful ==
  /\ Kept(records', status', handedOff', ready', queue', Drained)
  /\ RecordEffect
  /\ paused' => ready' = << >> /\ queue' = << >>

\* Custody of a well-typed state.
Guarded == SessionOK /\ CustodyOK

\* The parts of custody the operations of the mailbox rest on.
LEMMA GuardedFacts ==
  ASSUME Guarded
  PROVE  /\ MailboxOK /\ MailboxTypeOK /\ Listed(records, status)
         /\ records \in Seq(Inputs) /\ status \in [Inputs -> States]
         /\ ready \in Seq(Inputs) /\ queue \in Seq(Inputs)
         /\ handedOff \in SUBSET Inputs
         /\ Kept(records, status, handedOff, ready, queue, Drained)
         /\ Recorded(records, status)
         /\ paused => ready = << >> /\ queue = << >>
BY DEF Guarded, CustodyOK, SessionOK, MailboxOK, MailboxTypeOK, MailboxKept, Kept,
       NothingAdmittedWhilePaused

\* Operations that touch no input.
LEMMA QuietCareful ==
  ASSUME Guarded, UNCHANGED <<records, status, handedOff, ready, queue>>,
         paused' => paused
  PROVE  Careful
<1>1. RecordEffect
  BY DEF RecordEffect, Releasing, Promoted
<1> QED
  BY <1>1, GuardedFacts DEF Careful

\* enqueue of a new input: it goes to the end, and may be released.
LEMMA EnqueueCareful ==
  ASSUME Guarded, NEW c \in Commands, NEW i \in Inputs, Enqueue(c, i)
  PROVE  Careful
<1> DEFINE st == [status EXCEPT ![i] = "Queued"]
<1>0. /\ MailboxTypeOK /\ status \in [Inputs -> States] /\ records \in Seq(Inputs)
      /\ Kept(records, status, handedOff, ready, queue, Drained)
      /\ Recorded(records, status)
      /\ paused => ready = << >> /\ queue = << >>
  BY GuardedFacts
<1>1. /\ status[i] = "Absent" /\ Cardinality(Pending) < Capacity
      /\ records' = Append(records, i)
  BY DEF Enqueue
<1>2. \/ /\ paused' = FALSE
         /\ PromoteNext(records', st)
         /\ queue' = queue
      \/ /\ ~paused /\ paused' = paused
         /\ WakeSuspended(records', st, suspended)
  BY DEF Enqueue
<1>3. st \in [Inputs -> States] /\ \A j \in Inputs : st[j] = IF j = i THEN "Queued" ELSE status[j]
  BY <1>0 DEF States
<1>4. Promoted(records', st) => Accepting(i)
  BY <1>1 DEF Accepting
<1> HIDE DEF st
<1>5. records' \in Seq(Inputs) /\ Recorded(records', st)
  <2>1. i \notin Range(records)
    BY <1>0, <1>1 DEF Recorded
  <2>2. records' \in Seq(Inputs) /\ Range(records') = Range(records) \cup {i} /\ IsInjective(records')
    BY <1>0, <1>1, <2>1, AppendKept DEF Recorded
  <2> QED
    BY <1>0, <1>3, <2>2 DEF Recorded
<1>6. Sel(st) = Sel(status)
  BY <1>1, <1>3 DEF Sel
<1>7. PICK D : D = Drained
  OBVIOUS
<1>8. Kept(records', st, handedOff, ready, queue, D)
  BY <1>0, <1>5, <1>6, <1>7 DEF Kept
<1>9. /\ Promoted(records', st) /\ Kept(records', status', handedOff', ready', queue', D)
      /\ ~paused'
  <2>1. CASE paused' = FALSE /\ PromoteNext(records', st) /\ queue' = queue
    BY <1>0, <1>3, <1>5, <1>8, <2>1, PromoteNextKept
  <2>2. CASE ~paused /\ paused' = paused /\ WakeSuspended(records', st, suspended)
    BY <1>0, <1>3, <1>5, <1>8, <2>2, WakeSuspendedKept
  <2> QED
    BY <1>2, <2>1, <2>2
<1> QED
  BY <1>4, <1>7, <1>9 DEF Careful, RecordEffect

\* A new receipt adds to what was sent now.
LEMMA ChosenGrows ==
  ASSUME MailboxTypeOK, NEW c \in Commands, NEW op \in {"enqueue", "dispatch", "takeback"},
         NEW ids \in SUBSET Inputs, Fresh(c), Remember(c, op, ids)
  PROVE  Chosen \subseteq Chosen' /\ (op = "dispatch" => ids \subseteq Chosen')
<1>1. /\ receipts \in [Commands -> Requests \cup {NoReceipt}]
      /\ receipts[c] = NoReceipt
      /\ receipts' = [receipts EXCEPT ![c] = [op |-> op, ids |-> ids]]
  BY DEF MailboxTypeOK, Fresh, Remember
<1>2. [op |-> op, ids |-> ids] \in Requests
  BY DEF Requests
<1>3. receipts'[c] # NoReceipt /\ receipts'[c].op = op /\ receipts'[c].ids = ids
  BY <1>1, <1>2, NoneAssumption
<1>4. \A d \in Commands : receipts[d] # NoReceipt => receipts'[d] = receipts[d]
  BY <1>1
<1> QED
  BY <1>3, <1>4 DEF Chosen

\* dispatch: the queued inputs it names go behind the ready ones.
LEMMA DispatchCareful ==
  ASSUME Guarded, NEW c \in Commands, NEW ids \in SUBSET Inputs, Dispatch(c, ids)
  PROVE  Careful
<1> DEFINE chosen == ids \cap WithStatus("Queued")
           sent == Keep(records, chosen)
<1>0. /\ MailboxTypeOK /\ status \in [Inputs -> States] /\ records \in Seq(Inputs)
      /\ ready \in Seq(Inputs)
      /\ Kept(records, status, handedOff, ready, queue, Drained)
      /\ Recorded(records, status)
      /\ paused => ready = << >> /\ queue = << >>
  BY GuardedFacts
<1>1. /\ status' = Moved(status, chosen, "Dispatching")
      /\ handedOff' = handedOff \ chosen
      /\ ready' = ready \o sent
      /\ records' = records /\ queue' = queue
      /\ chosen = {} => paused' = paused
      /\ chosen # {} => paused' = FALSE
  BY DEF Dispatch
<1>2. chosen \in SUBSET WithStatus("Queued") /\ chosen \subseteq ids
  OBVIOUS
<1>3. chosen \subseteq Chosen'
  BY <1>0, ChosenGrows DEF Dispatch
<1>4. chosen \in SUBSET Inputs /\ \A j \in chosen : status[j] = "Queued"
  BY DEF WithStatus
<1>5. sent \in Seq(Inputs) /\ Range(sent) = Range(records) \cap chosen /\ IsInjective(sent)
  BY <1>0, KeepKept DEF Recorded
<1> HIDE DEF chosen, sent
<1>6. Choosing
  BY <1>1, <1>2, <1>3 DEF Choosing
<1>7. \A j \in Inputs : status'[j] = IF j \in chosen THEN "Dispatching" ELSE status[j]
  BY <1>1 DEF Moved
<1>8. Range(sent) = chosen
  BY <1>0, <1>4, <1>5 DEF Recorded
<1>9. Sel(status') = Sel(status) \cup chosen /\ Sel(status) \cap chosen = {}
  BY <1>4, <1>7 DEF Sel
<1>10. Recorded(records', status')
  BY <1>0, <1>1, <1>4, <1>7 DEF Recorded
<1>11. Range(ready) \cap Range(sent) = {}
  BY <1>0, <1>8, <1>9 DEF Kept
<1>12. IsInjective(ready') /\ Range(ready') = Range(ready) \cup chosen
  BY <1>0, <1>1, <1>5, <1>8, <1>11, JoinKept DEF Kept
<1>13. Kept(records', status', handedOff', ready', queue', Drained)
  BY <1>0, <1>1, <1>9, <1>10, <1>12 DEF Kept
<1>14. ASSUME paused'
       PROVE  ready' = << >> /\ queue' = << >>
  <2>1. chosen = {} /\ paused
    BY <1>1, <1>14
  <2>2. ready = << >> /\ queue = << >>
    BY <1>0, <2>1
  <2>3. Range(ready') = {}
    BY <1>12, <2>1, <2>2, EmptyFacts
  <2>4. ready' \in Seq(Inputs)
    BY <1>0, <1>1, <1>5, JoinKept
  <2> QED
    BY <1>1, <2>2, <2>3, <2>4, EmptyRange
<1> QED
  BY <1>6, <1>13, <1>14 DEF Careful, RecordEffect

\* Taking back touches a queued input only.
LEMMA TakeBackCareful ==
  ASSUME Guarded, NEW c \in Commands, NEW i \in Inputs, TakeBack(c, i)
  PROVE  Careful
<1>0. /\ status \in [Inputs -> States]
      /\ Kept(records, status, handedOff, ready, queue, Drained)
      /\ Recorded(records, status)
      /\ paused => ready = << >> /\ queue = << >>
  BY GuardedFacts
<1>1. UNCHANGED <<records, handedOff, ready, queue, paused>>
  BY DEF TakeBack, admissionVars
<1>2. CASE status[i] # "Queued"
  <2>1. status' = status
    BY <1>2 DEF TakeBack
  <2> QED
    BY <1>1, <2>1, QuietCareful
<1>3. CASE status[i] = "Queued"
  <2>1. status' = [status EXCEPT ![i] = "Withdrawn"]
    BY <1>3 DEF TakeBack
  <2>2. status' = Moved(status, {i}, "Withdrawn")
    BY <1>0, <2>1 DEF Moved
  <2>3. i \in WithStatus("Queued")
    BY <1>3 DEF WithStatus
  <2>4. Withdrawing
    BY <1>1, <2>2, <2>3 DEF Withdrawing
  <2>5. \A j \in Inputs : status'[j] = IF j = i THEN "Withdrawn" ELSE status[j]
    BY <2>2 DEF Moved
  <2>6. Sel(status') = Sel(status) /\ Recorded(records', status')
    BY <1>0, <1>1, <1>3, <2>5 DEF Sel, Recorded
  <2>7. Kept(records', status', handedOff', ready', queue', Drained)
    BY <1>0, <1>1, <2>6 DEF Kept
  <2> QED
    BY <1>0, <1>1, <2>4, <2>7 DEF Careful, RecordEffect
<1> QED
  BY <1>2, <1>3

\* attach: what is ready is handed to the queue.
LEMMA AttachAttemptCareful ==
  ASSUME Guarded, NEW t, AttachAttempt(t)
  PROVE  Careful
<1>0. /\ MailboxTypeOK /\ ready \in Seq(Inputs) /\ handedOff \in SUBSET Inputs
      /\ Kept(records, status, handedOff, ready, queue, Drained)
  BY GuardedFacts
<1>1. /\ UNCHANGED <<records, status, paused>> /\ ~paused
      /\ HandOff(ready, status, handedOff)
  BY DEF AttachAttempt, CanAttach, admissionVars
<1>2. PICK D : D = Drained
  OBVIOUS
<1>3. Kept(records, status, handedOff', ready', queue', D)
  BY <1>0, <1>1, <1>2, HandOffKept
<1>4. RecordEffect
  BY <1>1 DEF RecordEffect, Releasing, Promoted
<1> QED
  BY <1>1, <1>2, <1>3, <1>4 DEF Careful

\* A run from outside: an empty prompt releases and hands off.
LEMMA AttachExternalAttemptCareful ==
  ASSUME Guarded, NEW resume \in BOOLEAN, AttachExternalAttempt(resume)
  PROVE  Careful
<1>0. /\ MailboxTypeOK /\ status \in [Inputs -> States] /\ records \in Seq(Inputs)
      /\ Kept(records, status, handedOff, ready, queue, Drained)
  BY GuardedFacts
<1>1. CASE resume
  <2>1. records' = records /\ paused' = FALSE /\ PromoteAndHandOff(records, status)
    BY <1>1 DEF AttachExternalAttempt
  <2>2. PICK D : D = Drained
    OBVIOUS
  <2>3. Promoted(records, status) /\ Kept(records, status', handedOff', ready', queue', D)
    BY <1>0, <2>1, <2>2, PromoteAndHandOffKept
  <2> QED
    BY <2>1, <2>2, <2>3 DEF Careful, RecordEffect, Releasing
<1>2. CASE ~ resume
  <2>1. UNCHANGED <<records, status, handedOff, ready, queue, paused>>
    BY <1>2 DEF AttachExternalAttempt
  <2> QED
    BY <2>1, QuietCareful
<1> QED
  BY <1>1, <1>2

\* reclaim_locked gives back what Receive has not drained.
LEMMA ReclaimCareful ==
  ASSUME Guarded, Reclaim, records' = records
  PROVE  Careful
<1>0. /\ MailboxTypeOK
      /\ Kept(records, status, handedOff, ready, queue, Drained)
  BY GuardedFacts
<1>1. PICK D : D = Drained
  OBVIOUS
<1>2. /\ Kept(records, status', handedOff', ready', queue', D)
      /\ ready' = << >> /\ queue' = << >>
      /\ \E back \in SUBSET WithStatus("Dispatching") :
           back \cap D = {} /\ status' = Moved(status, back, "Queued")
  BY <1>0, <1>1, ReclaimKept
<1>3. PICK back \in SUBSET WithStatus("Dispatching") :
        back \cap D = {} /\ status' = Moved(status, back, "Queued")
  BY <1>2
<1>4. back \cap Range(batch) = {}
  <2>1. CASE pc = "drained"
    BY <1>1, <1>3, <2>1 DEF Drained
  <2>2. CASE pc # "drained"
    <3>1. \A j \in Range(batch) : j \in WithStatus("Claimed")
      <4>1. pc \notin {"drained", "claimed", "appended"} => Range(batch) = {}
        BY EmptyFacts DEF Guarded, CustodyOK, BatchOK
      <4> QED
        BY <2>2, <4>1 DEF Guarded, CustodyOK, BatchOK
    <3>2. WithStatus("Claimed") \cap WithStatus("Dispatching") = {}
      BY DEF WithStatus
    <3> QED
      BY <1>3, <3>1, <3>2
  <2> QED
    BY <2>1, <2>2
<1>5. GivingBack
  BY <1>3, <1>4 DEF GivingBack
<1> QED
  BY <1>1, <1>2, <1>5 DEF Careful, RecordEffect

\* stop reclaims.
LEMMA StopCareful ==
  ASSUME Guarded, Stop
  PROVE  Careful
BY ReclaimCareful DEF Stop

\* finish_attempt reclaims, releases the next input, or does nothing.
LEMMA FinishAttemptCareful ==
  ASSUME Guarded, NEW t, NEW fallback, FinishAttempt(t, fallback)
  PROVE  Careful
<1>0. /\ MailboxTypeOK /\ status \in [Inputs -> States] /\ records \in Seq(Inputs)
      /\ Kept(records, status, handedOff, ready, queue, Drained)
      /\ paused => ready = << >> /\ queue = << >>
  BY GuardedFacts
<1>1. CASE ~ IsActive(t)
  <2>1. UNCHANGED <<records, status, handedOff, ready, queue, paused>>
    BY <1>1 DEF FinishAttempt, mailboxVars, recordVars, admissionVars
  <2> QED
    BY <2>1, QuietCareful
<1>2. CASE IsActive(t)
  <2>1. \/ UNCHANGED <<recordVars, paused, queue>>
        \/ Reclaim /\ records' = records
        \/ /\ ~paused /\ PromoteNext(records, status)
           /\ UNCHANGED <<records, paused, queue>>
        \/ UNCHANGED <<status, handedOff, ready, records, paused, queue>>
    BY <1>2 DEF FinishAttempt
  <2>2. CASE UNCHANGED <<status, handedOff, ready, records, paused, queue>>
    BY <2>2, QuietCareful
  <2>3. CASE Reclaim /\ records' = records
    BY <2>3, ReclaimCareful
  <2>4. CASE /\ ~paused /\ PromoteNext(records, status)
             /\ UNCHANGED <<records, paused, queue>>
    <3>1. PICK D : D = Drained
      OBVIOUS
    <3>2. Promoted(records, status) /\ Kept(records, status', handedOff', ready', queue', D)
      BY <1>0, <2>4, <3>1, PromoteNextKept
    <3> QED
      BY <2>4, <3>1, <3>2 DEF Careful, RecordEffect, Releasing
  <2> QED
    BY <2>1, <2>2, <2>3, <2>4 DEF recordVars
<1> QED
  BY <1>1, <1>2

\* enter_idle may release one input to the idle loop.
LEMMA EnterIdleCareful ==
  ASSUME Guarded, EnterIdle
  PROVE  Careful
<1>0. /\ MailboxTypeOK /\ status \in [Inputs -> States] /\ records \in Seq(Inputs)
      /\ Kept(records, status, handedOff, ready, queue, Drained)
      /\ paused => ready = << >> /\ queue = << >>
  BY GuardedFacts
<1>1. records' = records /\ paused' = paused /\ WakeSuspended(records, status, TRUE)
  BY DEF EnterIdle
<1>2. PICK D : D = Drained
  OBVIOUS
<1>3. /\ Promoted(records, status) /\ Kept(records, status', handedOff', ready', queue', D)
      /\ paused => ready' = ready /\ queue' = queue
  BY <1>0, <1>1, <1>2, WakeSuspendedKept
<1> QED
  BY <1>0, <1>1, <1>2, <1>3 DEF Careful, RecordEffect, Releasing

\* The phases in which the loop holds a batch.
Hands == {"drained", "claimed", "appended"}

\* A step of the mailbox, with the loop's hands where they were: custody is
\* kept, and the promised lifecycle makes at most one step.
LEMMA CarefulStep ==
  ASSUME Guarded, SessionOK', Careful, Chosen \subseteq Chosen',
         UNCHANGED <<batch, transcript>>,
         pc' = pc \/ (pc \notin Hands /\ pc' \notin Hands)
  PROVE  CustodyOK' /\ (Delivery!Next \/ UNCHANGED Delivery!vars)
<1>0. SessionOK /\ MailboxKept /\ BatchOK /\ TranscriptOK /\ Arranged
  BY DEF Guarded, CustodyOK
<1>1. Drained' = Drained /\ Unreported' = Unreported
  BY DEF Drained, Unreported, Hands
<1>2. Kept(records', status', handedOff', ready', queue', Drained) /\ RecordEffect
  BY DEF Careful
<1>3. MailboxKept'
  BY <1>1, <1>2 DEF MailboxKept
<1>4. Arranged'
  BY <1>0, <1>2, EffectKeepsOrder
<1>5. \A j \in Inputs : status[j] \in Final \/ status'[j] \in Final => status'[j] = status[j]
  BY <1>0, <1>2, EffectKeepsFinal
<1>6. WithStatus("Claimed")' = WithStatus("Claimed") /\ WithStatus("Delivered")' = WithStatus("Delivered")
  BY <1>5 DEF WithStatus, Final
<1>7. BatchOK'
  BY <1>0, <1>6 DEF BatchOK, Hands
<1>8. TranscriptOK'
  BY <1>0, <1>1, <1>6 DEF TranscriptOK
<1>9. NothingAdmittedWhilePaused'
  BY DEF Careful, NothingAdmittedWhilePaused
<1>10. Delivery!Next \/ UNCHANGED Delivery!vars
  BY <1>0, <1>2, EffectMaps
<1> QED
  BY <1>3, <1>4, <1>7, <1>8, <1>9, <1>10 DEF CustodyOK

-----------------------------------------------------------------------------
(* Custody through the steps of Receive                                    *)

\* The phases after a step, as PhaseFacts gives them before it.
LEMMA PhaseFactsNext ==
  ASSUME SessionOK'
  PROVE  /\ DeliveryPhase' \in [Inputs -> States]
         /\ PhaseIs(DeliveryPhase', status', Range(transcript'), Range(batch'))
<1> DEFINE T == Range(transcript')
           B == Range(batch')
<1>1. status' \in [Inputs -> States]
  BY DEF SessionOK, MailboxOK, MailboxTypeOK
<1>2. ASSUME NEW j \in Inputs
      PROVE  DeliveryPhase'[j] = IF j \in T THEN "Delivered"
                                 ELSE IF j \in B THEN "Claimed" ELSE status'[j]
  BY DEF DeliveryPhase
<1>3. DeliveryPhase' = [j \in Inputs |-> DeliveryPhase'[j]]
  BY DEF DeliveryPhase
<1> HIDE DEF T, B
<1>4. \A j \in Inputs : DeliveryPhase'[j] \in States
  BY <1>1, <1>2 DEF States
<1>5. PhaseIs(DeliveryPhase', status', T, B)
  BY <1>2 DEF PhaseIs
<1> QED
  BY <1>3, <1>4, <1>5 DEF T, B

\* A sequence without repetition is one of the orders of its elements.
LEMMA InjectiveOrdering ==
  ASSUME NEW s \in Seq(Inputs), IsInjective(s)
  PROVE  s \in Delivery!SetToSeqs(Range(s))
<1> DEFINE R == Range(s)
<1>1. Len(s) \in Nat /\ DOMAIN s = 1 .. Len(s) /\ s \in [1 .. Len(s) -> R]
  BY DEF Range
<1>2. s \in Injection(1 .. Len(s), R)
  BY <1>1 DEF Injection, IsInjective
<1>3. s \in Surjection(1 .. Len(s), R)
  BY <1>1 DEF Surjection, Range
<1> HIDE DEF R
<1>4. ExistsBijection(1 .. Len(s), R)
  BY <1>2, <1>3 DEF ExistsBijection, Bijection
<1>5. Cardinality(R) = Len(s)
  BY <1>1, <1>4, FS_CountingElements
<1>6. Delivery!Cardinality(R) = Len(s)
  BY <1>5, SameCardinality
<1>7. \A i, j \in 1 .. Len(s) : i # j => s[i] # s[j]
  BY <1>1 DEF IsInjective
<1>8. s \in Delivery!SetToSeqs(R)
  BY <1>1, <1>6, <1>7 DEF Delivery!SetToSeqs
<1> QED
  BY <1>8 DEF R

\* What Custody says where Receive works.
LEMMA ReceiveFacts ==
  ASSUME Guarded
  PROVE  /\ batch \in Seq(Inputs) /\ transcript \in Seq(Inputs)
         /\ Range(batch) \subseteq Inputs
         /\ IsInjective(batch)
         /\ Beyond(status, Range(transcript), Range(batch))
         /\ DeliveryPhase \in [Inputs -> States]
         /\ PhaseIs(DeliveryPhase, status, Range(transcript), Range(batch))
         /\ pc \notin Hands => batch = << >> /\ Range(batch) = {}
         /\ pc # "appended" => \A j \in Range(transcript) : status[j] = "Delivered"
         /\ pc \in {"claimed", "appended"} => \A j \in Inputs : status[j] = "Claimed" <=> j \in Range(batch)
         /\ pc \notin {"claimed", "appended"} => \A j \in Inputs : status[j] # "Claimed"
         /\ Range(transcript) = {j \in Inputs : status[j] = "Delivered"} \cup Unreported
<1>1. SessionOK /\ MailboxKept /\ BatchOK /\ TranscriptOK
  BY DEF Guarded, CustodyOK
<1>2. batch \in Seq(Inputs) /\ transcript \in Seq(Inputs)
  BY <1>1 DEF SessionOK, LocalOK
<1>3. Range(batch) \subseteq Inputs /\ Beyond(status, Range(transcript), Range(batch))
  BY <1>1, BeyondReach
<1>4. DeliveryPhase \in [Inputs -> States]
      /\ PhaseIs(DeliveryPhase, status, Range(transcript), Range(batch))
  BY GuardedFacts, PhaseFacts
<1>5. pc \notin Hands => batch = << >> /\ Range(batch) = {}
  BY <1>1, EmptyFacts DEF BatchOK, Hands
<1>6. Range(transcript) = {j \in Inputs : status[j] = "Delivered"} \cup Unreported
  BY <1>1 DEF TranscriptOK, WithStatus
<1>7. pc # "appended" => \A j \in Range(transcript) : status[j] = "Delivered"
  BY <1>6 DEF Unreported
<1>8. pc \in {"claimed", "appended"} => \A j \in Inputs : status[j] = "Claimed" <=> j \in Range(batch)
  BY <1>1 DEF BatchOK, WithStatus
<1>9. pc \notin {"claimed", "appended"} => \A j \in Inputs : status[j] # "Claimed"
  BY <1>1 DEF BatchOK, WithStatus
<1>10. IsInjective(batch)
  BY <1>1 DEF BatchOK
<1> QED
  BY <1>2, <1>3, <1>4, <1>5, <1>6, <1>7, <1>8, <1>9, <1>10

\* Receive takes the queue: what it took is claimed in the promised lifecycle.
LEMMA DrainCareful ==
  ASSUME Guarded, SessionOK', Drain
  PROVE  CustodyOK' /\ (Delivery!Next \/ UNCHANGED Delivery!vars)
<1>0. /\ pc = "top" /\ batch' = queue /\ queue' = << >>
      /\ UNCHANGED <<records, status, handedOff, ready, receipts, paused, transcript>>
      /\ pc' = IF queue = << >> THEN "received" ELSE "drained"
  BY DEF Drain, DrainAll, LoopStep, recordVars, admissionVars
<1>1. CASE queue = << >>
  <2>1. batch' = batch
    BY <1>0, <1>1, ReceiveFacts DEF Hands
  <2>2. Careful
    BY <1>0, <1>1, QuietCareful
  <2>3. Chosen' = Chosen
    BY <1>0 DEF Chosen
  <2> QED
    BY <1>0, <1>1, <2>1, <2>2, <2>3, CarefulStep DEF Hands
<1>2. CASE queue # << >>
  <2> DEFINE Q == Range(queue)
  <2>0. /\ Kept(records, status, handedOff, ready, queue, Drained)
        /\ queue \in Seq(Inputs) /\ paused => ready = << >> /\ queue = << >>
    BY GuardedFacts
  <2>1. Drained = {} /\ Drained' = Q /\ Unreported = {} /\ Unreported' = {}
    BY <1>0, <1>2 DEF Drained, Unreported
  <2>2. MailboxKept'
    <3>1. Kept(records, status, handedOff, ready, << >>, Q)
      BY <2>0, <2>1, EmptyFacts DEF Kept
    <3> QED
      BY <1>0, <2>1, <3>1 DEF MailboxKept
  <2>3. BatchOK'
    <3>1. IsInjective(queue)
      BY <2>0 DEF Kept
    <3>2. WithStatus("Claimed")' = {}
      BY <1>0, ReceiveFacts DEF WithStatus
    <3> QED
      BY <1>0, <1>2, <3>1, <3>2 DEF BatchOK
  <2>4. TranscriptOK'
    BY <1>0, <2>1 DEF TranscriptOK, WithStatus, Guarded, CustodyOK
  <2>5. NothingAdmittedWhilePaused'
    BY <1>0, <1>2, GuardedFacts DEF NothingAdmittedWhilePaused
  <2>6. Arranged'
    BY <1>0 DEF Arranged, Guarded, CustodyOK, InOrder, Chosen
  <2>7. Delivery!Claim(Q)
    <3>1. /\ DeliveryPhase' \in [Inputs -> States]
          /\ PhaseIs(DeliveryPhase', status, Range(transcript), Q)
      BY <1>0, PhaseFactsNext
    <3>2. /\ DeliveryPhase \in [Inputs -> States]
          /\ PhaseIs(DeliveryPhase, status, Range(transcript), {})
          /\ \A j \in Range(transcript) : status[j] = "Delivered"
      BY <1>0, ReceiveFacts DEF Hands
    <3>3. Q \subseteq Inputs /\ \A j \in Q : status[j] = "Dispatching"
      BY <2>0, <2>1 DEF Kept, Sel
    <3> HIDE DEF Q
    <3>4. Q \subseteq Delivery!In(DeliveryPhase, {"Dispatching"})
      BY <3>2, <3>3 DEF PhaseIs, Delivery!In
    <3>5. \A j \in Inputs : DeliveryPhase'[j] = IF j \in Q THEN "Claimed" ELSE DeliveryPhase[j]
      BY <3>1, <3>2, <3>3 DEF PhaseIs
    <3>6. DeliveryPhase' = Delivery!Moved(Q, "Claimed")
      BY <3>1, <3>5 DEF Delivery!Moved
    <3> QED
      BY <1>0, <3>4, <3>6 DEF Delivery!Claim
  <2>8. Q \in SUBSET Inputs
    BY <2>0, <2>1 DEF Kept, Sel
  <2>9. Delivery!Next
    BY <2>7, <2>8 DEF Delivery!Next
  <2> QED
    BY <2>2, <2>3, <2>4, <2>5, <2>6, <2>9 DEF CustodyOK
<1> QED
  BY <1>1, <1>2

\* The records hear that what Receive took is claimed.
LEMMA ClaimCareful ==
  ASSUME Guarded, SessionOK', Claim
  PROVE  CustodyOK' /\ (Delivery!Next \/ UNCHANGED Delivery!vars)
<1> DEFINE B == Range(batch)
           T == Range(transcript)
<1>0. /\ pc = "drained" /\ pc' = "claimed"
      /\ status' = Moved(status, B \cap WithStatus("Dispatching"), "Claimed")
      /\ UNCHANGED <<records, handedOff, ready, queue, receipts, paused, batch, transcript>>
  BY DEF Claim, MarkClaimed, LoopStep, recordVars, admissionVars
<1>1. /\ Kept(records, status, handedOff, ready, queue, B)
      /\ status \in [Inputs -> States] /\ records \in Seq(Inputs)
      /\ Recorded(records, status)
      /\ paused => ready = << >> /\ queue = << >>
  BY <1>0, GuardedFacts DEF Drained
<1>2. /\ IsInjective(batch) /\ PhaseIs(DeliveryPhase, status, T, B)
      /\ DeliveryPhase \in [Inputs -> States]
      /\ \A j \in T : status[j] = "Delivered"
      /\ \A j \in Inputs : status[j] # "Claimed"
      /\ T = {j \in Inputs : status[j] = "Delivered"} \cup Unreported
  BY <1>0, ReceiveFacts
<1>3. /\ DeliveryPhase' \in [Inputs -> States]
      /\ PhaseIs(DeliveryPhase', status', T, B)
  BY <1>0, PhaseFactsNext
<1>4. Drained' = {} /\ Unreported = {} /\ Unreported' = {}
  BY <1>0 DEF Drained, Unreported
<1> HIDE DEF B
<1>5. B \subseteq Sel(status) /\ B \subseteq handedOff
  BY <1>1 DEF Kept
<1>6. \A j \in Inputs : status'[j] = IF j \in B THEN "Claimed" ELSE status[j]
  BY <1>0, <1>5 DEF Moved, Sel, WithStatus
<1>7. B \subseteq Inputs /\ \A j \in B : status[j] = "Dispatching"
  BY <1>5 DEF Sel
<1>8. Sel(status') = Sel(status) \ B
  BY <1>6 DEF Sel
<1>9. Recorded(records, status')
  BY <1>1, <1>6, <1>7 DEF Recorded
<1>10. MailboxKept'
  <2>1. Kept(records, status', handedOff, ready, queue, {})
    BY <1>1, <1>5, <1>8, <1>9 DEF Kept
  <2> QED
    BY <1>0, <1>4, <2>1 DEF MailboxKept
<1>11. BatchOK'
  <2>1. WithStatus("Claimed")' = B
    BY <1>2, <1>6, <1>7 DEF WithStatus
  <2> QED
    BY <1>0, <1>2, <2>1 DEF BatchOK, B
<1>12. TranscriptOK'
  <2>1. WithStatus("Delivered")' = {j \in Inputs : status[j] = "Delivered"}
    BY <1>6, <1>7 DEF WithStatus
  <2> QED
    BY <1>0, <1>2, <1>4, <2>1 DEF TranscriptOK, Guarded, CustodyOK
<1>13. NothingAdmittedWhilePaused'
  BY <1>0, <1>1 DEF NothingAdmittedWhilePaused
<1>14. Arranged'
  <2>1. Chosen' = Chosen
    BY <1>0 DEF Chosen
  <2>2. InOrder(records, status, Chosen)
    BY DEF Guarded, CustodyOK, Arranged
  <2>3. Range(records) \subseteq Inputs
    BY <1>1 DEF Recorded
  <2>4. \A j \in Inputs :
           /\ status'[j] \in {"Dispatching", "Claimed", "Delivered"}
                => status[j] \in {"Dispatching", "Claimed", "Delivered"}
           /\ status[j] \in {"Claimed", "Delivered", "Withdrawn"}
                => status'[j] \in {"Claimed", "Delivered", "Withdrawn"}
    BY <1>6, <1>7
  <2>5. InOrder(records, status', Chosen)
    BY <2>2, <2>3, <2>4, OrderKept
  <2> QED
    BY <1>0, <2>1, <2>5 DEF Arranged
<1>15. UNCHANGED Delivery!vars
  <2>1. \A j \in Inputs : DeliveryPhase'[j] = DeliveryPhase[j]
    BY <1>2, <1>3, <1>6, <1>7 DEF PhaseIs
  <2>2. DeliveryPhase' = DeliveryPhase
    BY <1>2, <1>3, <2>1
  <2> QED
    BY <1>0, <2>2 DEF Delivery!vars
<1> QED
  BY <1>10, <1>11, <1>12, <1>13, <1>14, <1>15 DEF CustodyOK

\* Writing the batch to the transcript delivers it in the promised lifecycle.
LEMMA AppendCareful ==
  ASSUME Guarded, SessionOK', AppendToTranscript
  PROVE  CustodyOK' /\ (Delivery!Next \/ UNCHANGED Delivery!vars)
<1> DEFINE B == Range(batch)
           T == Range(transcript)
<1>0. /\ pc = "claimed" /\ pc' = "appended"
      /\ transcript' = transcript \o batch
      /\ UNCHANGED <<records, status, handedOff, ready, queue, receipts, paused, batch>>
  BY DEF AppendToTranscript, LoopStep, mailboxVars, recordVars, admissionVars
<1>1. /\ IsInjective(batch) /\ batch \in Seq(Inputs) /\ transcript \in Seq(Inputs)
      /\ PhaseIs(DeliveryPhase, status, T, B)
      /\ B \subseteq Inputs
      /\ DeliveryPhase \in [Inputs -> States]
      /\ \A j \in T : status[j] = "Delivered"
      /\ \A j \in Inputs : status[j] = "Claimed" <=> j \in B
      /\ T = {j \in Inputs : status[j] = "Delivered"} \cup Unreported
  BY <1>0, ReceiveFacts
<1>2. Range(transcript') = T \cup B
  BY <1>0, <1>1, JoinKept
<1>3. /\ DeliveryPhase' \in [Inputs -> States]
      /\ PhaseIs(DeliveryPhase', status, T \cup B, B)
  BY <1>0, <1>2, PhaseFactsNext
<1>4. Drained' = Drained /\ Unreported = {} /\ Unreported' = B
  BY <1>0 DEF Drained, Unreported
<1>5. MailboxKept' /\ NothingAdmittedWhilePaused' /\ Arranged'
  BY <1>0, <1>4 DEF MailboxKept, NothingAdmittedWhilePaused, Arranged, InOrder,
                    Chosen, Guarded, CustodyOK
<1>6. BatchOK'
  <2>1. WithStatus("Claimed")' = WithStatus("Claimed")
    BY <1>0 DEF WithStatus
  <2> QED
    BY <1>0, <2>1 DEF BatchOK, Guarded, CustodyOK
<1>7. TranscriptOK'
  <2>1. WithStatus("Delivered")' = {j \in Inputs : status[j] = "Delivered"}
    BY <1>0 DEF WithStatus
  <2>2. T \cap B = {}
    BY <1>1
  <2>3. IsInjective(transcript)
    BY DEF Guarded, CustodyOK, TranscriptOK
  <2>4. IsInjective(transcript')
    BY <1>0, <1>1, <2>2, <2>3, JoinKept
  <2> QED
    BY <1>1, <1>2, <1>4, <2>1, <2>4 DEF TranscriptOK
<1>8. batch \in Delivery!SetToSeqs(B)
  BY <1>1, InjectiveOrdering
<1> HIDE DEF B
<1>9. Delivery!In(DeliveryPhase, {"Claimed"}) = B
  BY <1>1 DEF PhaseIs, Delivery!In
<1>10. DeliveryPhase' = Delivery!Moved(B, "Delivered")
  <2>1. \A j \in Inputs : DeliveryPhase'[j] = IF j \in B THEN "Delivered" ELSE DeliveryPhase[j]
    BY <1>1, <1>3 DEF PhaseIs
  <2> QED
    BY <1>3, <2>1 DEF Delivery!Moved
<1>11. Delivery!Deliver
  BY <1>0, <1>8, <1>9, <1>10 DEF Delivery!Deliver
<1> QED
  BY <1>5, <1>6, <1>7, <1>11 DEF CustodyOK, Delivery!Next

\* The records hear that what the transcript holds is delivered.
LEMMA DeliverCareful ==
  ASSUME Guarded, SessionOK', Deliver
  PROVE  CustodyOK' /\ (Delivery!Next \/ UNCHANGED Delivery!vars)
<1> DEFINE B == Range(batch)
           T == Range(transcript)
<1>0. /\ pc = "appended" /\ pc' = "received" /\ batch' = << >>
      /\ status' = Moved(status, B \cap WithStatus("Claimed"), "Delivered")
      /\ UNCHANGED <<records, handedOff, ready, queue, receipts, paused, transcript>>
  BY DEF Deliver, MarkDelivered, LoopStep, recordVars, admissionVars
<1>1. /\ Kept(records, status, handedOff, ready, queue, {})
      /\ status \in [Inputs -> States] /\ records \in Seq(Inputs)
      /\ Recorded(records, status)
      /\ paused => ready = << >> /\ queue = << >>
  BY <1>0, GuardedFacts DEF Drained
<1>2. /\ PhaseIs(DeliveryPhase, status, T, B) /\ B \subseteq Inputs
      /\ DeliveryPhase \in [Inputs -> States]
      /\ \A j \in Inputs : status[j] = "Claimed" <=> j \in B
      /\ T = {j \in Inputs : status[j] = "Delivered"} \cup B
  BY <1>0, ReceiveFacts DEF Unreported
<1>3. /\ DeliveryPhase' \in [Inputs -> States]
      /\ PhaseIs(DeliveryPhase', status', T, {})
  <2>1. Range(batch') = {}
    BY <1>0, EmptyFacts
  <2> QED
    BY <1>0, <2>1, PhaseFactsNext
<1>4. Drained' = {} /\ Unreported' = {}
  BY <1>0 DEF Drained, Unreported
<1> HIDE DEF B
<1>5. \A j \in Inputs : status'[j] = IF j \in B THEN "Delivered" ELSE status[j]
  BY <1>0, <1>2 DEF Moved, WithStatus
<1>6. Sel(status') = Sel(status)
  BY <1>2, <1>5 DEF Sel
<1>7. Recorded(records, status')
  BY <1>1, <1>2, <1>5 DEF Recorded
<1>8. MailboxKept'
  <2>1. Kept(records, status', handedOff, ready, queue, {})
    BY <1>1, <1>6, <1>7 DEF Kept
  <2> QED
    BY <1>0, <1>4, <2>1 DEF MailboxKept
<1>9. BatchOK'
  <2>1. WithStatus("Claimed")' = {}
    BY <1>2, <1>5 DEF WithStatus
  <2> QED
    BY <1>0, <2>1, EmptyFacts DEF BatchOK
<1> HIDE DEF T
<1>10. TranscriptOK'
  <2>1. WithStatus("Delivered")' = T
    BY <1>2, <1>5 DEF WithStatus
  <2> QED
    BY <1>0, <1>4, <2>1 DEF TranscriptOK, T, Guarded, CustodyOK
<1>11. NothingAdmittedWhilePaused'
  BY <1>0, <1>1 DEF NothingAdmittedWhilePaused
<1>12. Arranged'
  <2>1. Chosen' = Chosen
    BY <1>0 DEF Chosen
  <2>2. InOrder(records, status, Chosen)
    BY DEF Guarded, CustodyOK, Arranged
  <2>3. Range(records) \subseteq Inputs
    BY <1>1 DEF Recorded
  <2>4. \A j \in Inputs :
           /\ status'[j] \in {"Dispatching", "Claimed", "Delivered"}
                => status[j] \in {"Dispatching", "Claimed", "Delivered"}
           /\ status[j] \in {"Claimed", "Delivered", "Withdrawn"}
                => status'[j] \in {"Claimed", "Delivered", "Withdrawn"}
    BY <1>2, <1>5
  <2>5. InOrder(records, status', Chosen)
    BY <2>2, <2>3, <2>4, OrderKept
  <2> QED
    BY <1>0, <2>1, <2>5 DEF Arranged
<1>13. UNCHANGED Delivery!vars
  <2>1. \A j \in Inputs : DeliveryPhase'[j] = DeliveryPhase[j]
    BY <1>2, <1>3, <1>5 DEF PhaseIs
  <2>2. DeliveryPhase' = DeliveryPhase
    BY <1>2, <1>3, <2>1
  <2> QED
    BY <1>0, <2>2 DEF Delivery!vars
<1> QED
  BY <1>8, <1>9, <1>10, <1>11, <1>12, <1>13 DEF CustodyOK

-----------------------------------------------------------------------------
(* Custody through every step                                              *)

\* At most one input more is pending, and only where there was room for it.
RoomKept ==
  \/ Pending' \subseteq Pending
  \/ Cardinality(Pending) < Capacity /\ \E i \in Inputs : Pending' \subseteq Pending \cup {i}

\* What a step is to show: custody, the capacity, and the promised lifecycle's step.
CustodyStep == CustodyOK' /\ RoomKept /\ (Delivery!Next \/ UNCHANGED Delivery!vars)

\* An operation of the mailbox moves inputs among the pending states, ends the
\* wait of some, or accepts one where there is room.
LEMMA EffectKeepsRoom ==
  ASSUME SessionOK, RecordEffect
  PROVE  RoomKept
<1> DEFINE Waits(st) == {j \in Inputs : st[j] \in {"Queued", "Dispatching", "Claimed"}}
<1>0. /\ records \in Seq(Inputs) /\ status \in [Inputs -> States] /\ Listed(records, status)
      /\ Pending = Waits(status) /\ Pending' = Waits(status')
  BY DEF SessionOK, MailboxOK, MailboxTypeOK, Pending, WithStatus
<1>1. ASSUME NEW recs \in Seq(Inputs), NEW st \in [Inputs -> States], Listed(recs, st),
             Promoted(recs, st)
      PROVE  Waits(status') \subseteq Waits(st)
  <2>1. CASE CanPromote(st) /\ status' = Moved(st, {Oldest(recs, st)}, "Dispatching")
    <3>1. st[Oldest(recs, st)] = "Queued"
      BY <1>1, <2>1, OldestIsQueued
    <3> QED
      BY <2>1, <3>1 DEF Moved
  <2> QED
    BY <1>1, <2>1 DEF Promoted
<1>2. ASSUME NEW i \in Inputs, Accepting(i)
      PROVE  RoomKept
  <2> DEFINE st == [status EXCEPT ![i] = "Queued"]
  <2>1. /\ records' = Append(records, i) /\ Cardinality(Pending) < Capacity
        /\ Promoted(records', st)
    BY <1>2 DEF Accepting
  <2>2. st \in [Inputs -> States] /\ \A j \in Inputs : st[j] = IF j = i THEN "Queued" ELSE status[j]
    BY <1>0 DEF States
  <2> HIDE DEF st
  <2>3. records' \in Seq(Inputs) /\ Range(records') = Range(records) \cup {i}
    BY <1>0, <2>1, AppendKept
  <2>4. Listed(records', st)
    BY <1>0, <2>2, <2>3 DEF Listed
  <2>5. Waits(status') \subseteq Waits(st)
    BY <1>1, <2>1, <2>2, <2>3, <2>4
  <2>6. Waits(st) \subseteq Waits(status) \cup {i}
    BY <2>2
  <2> HIDE DEF Waits
  <2> QED
    BY <1>0, <2>1, <2>5, <2>6 DEF RoomKept
<1>3. CASE Releasing
  <2>1. Waits(status') \subseteq Waits(status)
    BY <1>0, <1>1, <1>3 DEF Releasing
  <2> QED
    BY <1>0, <2>1 DEF RoomKept
<1>4. CASE GivingBack \/ Choosing \/ Withdrawing
  <2>1. Waits(status') \subseteq Waits(status)
    BY <1>4 DEF GivingBack, Choosing, Withdrawing, Moved, WithStatus
  <2> QED
    BY <1>0, <2>1 DEF RoomKept
<1> QED
  BY <1>2, <1>3, <1>4 DEF RecordEffect

\* Receive makes nobody wait who did not.
LEMMA ReceiveKeepsRoom ==
  ASSUME SessionOK, Drain \/ Claim \/ AppendToTranscript \/ Deliver
  PROVE  RoomKept
<1>1. /\ status \in [Inputs -> States]
      /\ \A j \in Inputs : \/ status'[j] = status[j]
                           \/ status[j] = "Dispatching" /\ status'[j] = "Claimed"
                           \/ status'[j] = "Delivered"
  BY DEF SessionOK, MailboxOK, MailboxTypeOK, Drain, DrainAll, Claim, MarkClaimed, Deliver,
         MarkDelivered, AppendToTranscript, LoopStep, mailboxVars, recordVars, Moved, WithStatus
<1>2. Pending' \subseteq Pending
  BY <1>1 DEF Pending, WithStatus
<1> QED
  BY <1>2 DEF RoomKept

\* The loop's hands stay as they are: it neither takes nor puts down a batch.
HandsStill ==
  /\ UNCHANGED <<batch, transcript>>
  /\ pc' = pc \/ (pc \notin Hands /\ pc' \notin Hands)

\* An operation of the mailbox that executes no fresh command.
LEMMA StillStep ==
  ASSUME Guarded, SessionOK', Careful, HandsStill, receipts' = receipts
  PROVE  CustodyStep
<1>1. Chosen' = Chosen
  BY DEF Chosen
<1>2. RoomKept
  BY EffectKeepsRoom DEF Guarded, Careful
<1> QED
  BY <1>1, <1>2, CarefulStep DEF HandsStill, CustodyStep

\* A step that touches no input.
LEMMA QuietStep ==
  ASSUME Guarded, SessionOK', HandsStill, receipts' = receipts,
         UNCHANGED <<records, status, handedOff, ready, queue, paused>>
  PROVE  CustodyStep
BY QuietCareful, StillStep

\* A step of a client under a fresh command id.
LEMMA FreshStep ==
  ASSUME Guarded, SessionOK', Careful, HandsStill, NEW c \in Commands,
         NEW op \in {"enqueue", "dispatch", "takeback"}, NEW ids \in SUBSET Inputs,
         Fresh(c), Remember(c, op, ids)
  PROVE  CustodyStep
<1>1. Chosen \subseteq Chosen'
  BY GuardedFacts, ChosenGrows
<1>2. RoomKept
  BY EffectKeepsRoom DEF Guarded, Careful
<1> QED
  BY <1>1, <1>2, CarefulStep DEF HandsStill, CustodyStep

\* Clients: enqueue, take back, dispatch, retry, stop and close.
LEMMA ClientCustody ==
  ASSUME Guarded, SessionOK', Client
  PROVE  CustodyStep
<1> USE DEF HandsStill
<1>1. ASSUME NEW c \in Commands, NEW i \in Inputs, ClientEnqueue(c, i)
      PROVE  CustodyStep
  <2>1. HandsStill
    BY <1>1 DEF ClientEnqueue, loopVars
  <2>2. Fresh(c) /\ Remember(c, "enqueue", {i}) /\ {i} \in SUBSET Inputs
    BY <1>1 DEF ClientEnqueue, Enqueue, EnqueueKnown
  <2>3. CASE Enqueue(c, i)
    BY <2>1, <2>2, <2>3, EnqueueCareful, FreshStep
  <2>4. CASE EnqueueKnown(c, i)
    <3>1. Careful
      BY <2>4, QuietCareful DEF EnqueueKnown, recordVars, admissionVars
    <3> QED
      BY <2>1, <2>2, <3>1, FreshStep
  <2> QED
    BY <1>1, <2>3, <2>4 DEF ClientEnqueue
<1>2. ASSUME NEW c \in Commands, NEW i \in Inputs, ClientTakeBack(c, i)
      PROVE  CustodyStep
  <2>1. HandsStill
    BY <1>2 DEF ClientTakeBack, loopVars
  <2>2. TakeBack(c, i) /\ Fresh(c) /\ Remember(c, "takeback", {i}) /\ {i} \in SUBSET Inputs
    BY <1>2 DEF ClientTakeBack, TakeBack
  <2> QED
    BY <2>1, <2>2, TakeBackCareful, FreshStep
<1>3. ASSUME NEW c \in Commands, NEW ids \in SUBSET Inputs, ClientDispatch(c, ids)
      PROVE  CustodyStep
  <2>1. HandsStill
    BY <1>3 DEF ClientDispatch, loopVars
  <2>2. Dispatch(c, ids) /\ Fresh(c) /\ Remember(c, "dispatch", ids)
    BY <1>3 DEF ClientDispatch, Dispatch
  <2> QED
    BY <2>1, <2>2, DispatchCareful, FreshStep
<1>4. ASSUME NEW c \in Commands, ClientRetry(c)
      PROVE  CustodyStep
  BY <1>4, QuietStep DEF ClientRetry, loopVars, mailboxVars, recordVars, admissionVars
<1>5. CASE SendStop
  BY <1>5, QuietStep DEF SendStop, loopVars, mailboxVars, recordVars, admissionVars
<1>6. ASSUME NEW t \in stopsSent, ReceiveStop(t)
      PROVE  CustodyStep
  <2>1. Stop /\ HandsStill /\ receipts' = receipts
    BY <1>6 DEF ReceiveStop, StopAttempt, Stop, loopVars
  <2> QED
    BY <2>1, StopCareful, StillStep
<1>7. CASE LegacyStop
  <2>1. Stop /\ HandsStill /\ receipts' = receipts
    BY <1>7 DEF LegacyStop, Stop, loopVars
  <2> QED
    BY <2>1, StopCareful, StillStep
<1>8. CASE Close
  BY <1>8, QuietStep DEF Close, Invalidate, loopVars, recordVars
<1> QED
  BY <1>1, <1>2, <1>3, <1>4, <1>5, <1>6, <1>7, <1>8 DEF Client

\* The host: schedule, start, abandon and cancel runs.
LEMMA HostCustody ==
  ASSUME Guarded, SessionOK', TicketsOK,
         \/ Schedule \/ StartWaiting \/ Cancel \/ CloseStop
         \/ \E resume \in BOOLEAN : StartExternal(resume)
         \/ \E t \in waiting : AbortWaiting(t)
  PROVE  CustodyStep
<1>1. CASE Schedule
  <2>1. UNCHANGED <<records, status, handedOff, ready, queue, paused, receipts>>
    BY <1>1 DEF Schedule, ReserveRun, mailboxVars, recordVars, admissionVars
  <2>2. HandsStill
    BY <1>1 DEF Schedule, loopVars, HandsStill
  <2> QED
    BY <2>1, <2>2, QuietStep
<1>2. CASE CloseStop
  <2>1. Stop /\ HandsStill /\ receipts' = receipts
    BY <1>2 DEF CloseStop, Stop, loopVars, HandsStill
  <2> QED
    BY <2>1, StopCareful, StillStep
<1>3. ASSUME NEW t \in cancelling, DeliverCancel(t)
      PROVE  CustodyStep
  BY <1>3, QuietStep DEF DeliverCancel, CancelToken, loopVars, recordVars, admissionVars,
                         HandsStill
<1>4. ASSUME NEW t \in waiting, AbortWaiting(t)
      PROVE  CustodyStep
  <2>1. FinishAttempt(t, "Failed") /\ HandsStill
    BY <1>4 DEF AbortWaiting, loopVars, HandsStill
  <2>2. receipts' = receipts
    BY <2>1 DEF FinishAttempt, mailboxVars
  <2> QED
    BY <2>1, <2>2, FinishAttemptCareful, StillStep
<1>5. ASSUME NEW t \in waiting, StartManaged(t)
      PROVE  CustodyStep
  <2>1. pc = "free"
    BY <1>5 DEF StartManaged, TicketsOK
  <2>2. HandsStill
    BY <1>5, <2>1 DEF StartManaged, HandsStill, Hands
  <2>3. CASE CanAttach(t)
    <3>1. AttachAttempt(t) /\ receipts' = receipts
      BY <1>5, <2>3 DEF StartManaged, AttachAttempt
    <3> QED
      BY <2>2, <3>1, AttachAttemptCareful, StillStep
  <2>4. CASE ~ CanAttach(t)
    <3>1. UNCHANGED <<records, status, handedOff, ready, queue, paused, receipts>>
      BY <1>5, <2>4 DEF StartManaged, mailboxVars, recordVars, admissionVars
    <3> QED
      BY <2>2, <3>1, QuietStep
  <2> QED
    BY <2>3, <2>4
<1>6. ASSUME NEW resume \in BOOLEAN, StartExternal(resume)
      PROVE  CustodyStep
  <2>1. pc = "free"
    BY <1>6 DEF StartExternal, TicketsOK
  <2>2. HandsStill
    BY <1>6, <2>1 DEF StartExternal, HandsStill, Hands
  <2>3. AttachExternalAttempt(resume) /\ receipts' = receipts
    BY <1>6 DEF StartExternal, AttachExternalAttempt
  <2> QED
    BY <2>2, <2>3, AttachExternalAttemptCareful, StillStep
<1> QED
  BY <1>1, <1>2, <1>3, <1>4, <1>5, <1>6 DEF Cancel, StartWaiting

\* The run: the steps of Receive, the stages around them, and its end.
LEMMA RunCustody ==
  ASSUME Guarded, SessionOK',
         Run \/ AbortRun \/ IterationError \/ SettleInconsistent \/ WakeForTask
  PROVE  CustodyStep
<1>1. CASE Drain \/ Claim \/ AppendToTranscript \/ Deliver
  <2>1. RoomKept
    BY <1>1, ReceiveKeepsRoom DEF Guarded
  <2> QED
    BY <1>1, <2>1, DrainCareful, ClaimCareful, AppendCareful, DeliverCareful DEF CustodyStep
<1>2. ASSUME UNCHANGED mailboxVars, HandsStill
      PROVE  CustodyStep
  BY <1>2, QuietStep DEF mailboxVars, recordVars, admissionVars
<1>3. CASE KeepGoing \/ Interrupted
  BY <1>2, <1>3 DEF KeepGoing, Interrupted, LoopStep, HandsStill, Hands
<1>4. CASE StartIteration
  BY <1>2, <1>4 DEF StartIteration, LoopStep, HandsStill, Hands
<1>5. CASE EndIteration \/ IterationError
  BY <1>2, <1>5 DEF EndIteration, IterationError, LoopStep, HandsStill, Hands
<1>6. CASE Complete
  BY <1>2, <1>6 DEF Complete, LoopStep, HandsStill, Hands
<1>7. CASE Release
  BY <1>2, <1>7 DEF Release, HandsStill, Hands
<1>8. CASE GoIdle
  <2>1. EnterIdle /\ receipts' = receipts /\ HandsStill
    BY <1>8 DEF GoIdle, EnterIdle, LoopStep, HandsStill, Hands
  <2> QED
    BY <2>1, EnterIdleCareful, StillStep
<1>9. ASSUME LeaveIdle, HandsStill
      PROVE  CustodyStep
  BY <1>9, QuietStep DEF LeaveIdle, recordVars
<1>10. CASE Suspend
  BY <1>2, <1>9, <1>10 DEF Suspend, LoopStep, HandsStill, Hands
<1>11. CASE WakeForInput \/ WakeForTask
  BY <1>9, <1>11 DEF WakeForInput, WakeForTask, Wake, LoopStep, HandsStill, Hands
<1>12. ASSUME NEW outcome, RecordAttemptOutcome(holder, outcome), HandsStill
       PROVE  CustodyStep
  BY <1>12, QuietStep DEF RecordAttemptOutcome, recordVars, admissionVars
<1>13. CASE Settle
  BY <1>12, <1>13 DEF Settle, LoopStep, HandsStill, Hands
<1>14. CASE SettleInconsistent
  BY <1>12, <1>14 DEF SettleInconsistent, HandsStill, Hands
<1>15. CASE Freeze
  <2>1. HandsStill
    BY <1>15 DEF Freeze, LoopStep, HandsStill, Hands
  <2> QED
    BY <1>15, <2>1, QuietStep DEF Freeze, Invalidate, recordVars
<1>16. CASE FreezeStop
  <2>1. Stop /\ receipts' = receipts /\ HandsStill
    BY <1>16 DEF FreezeStop, Stop, LoopStep, HandsStill, Hands
  <2> QED
    BY <2>1, StopCareful, StillStep
<1>17. ASSUME NEW fallback, FinishAttempt(holder, fallback), HandsStill
       PROVE  CustodyStep
  <2>1. receipts' = receipts
    BY <1>17 DEF FinishAttempt, mailboxVars
  <2> QED
    BY <1>17, <2>1, FinishAttemptCareful, StillStep
<1>18. CASE Finish
  BY <1>17, <1>18 DEF Finish, HandsStill, Hands
<1>19. CASE FinishAborted
  BY <1>17, <1>19 DEF FinishAborted, HandsStill, Hands
<1>20. CASE AbortRun
  <2>1. HandsStill
    BY <1>20 DEF AbortRun, AwaitPhases, HandsStill, Hands
  <2> QED
    BY <1>20, <2>1, QuietStep DEF AbortRun, recordVars, admissionVars
<1> QED
  BY <1>1, <1>3, <1>4, <1>5, <1>6, <1>7, <1>8, <1>10, <1>11, <1>13, <1>14, <1>15,
     <1>16, <1>18, <1>19, <1>20 DEF Run

\* Every step keeps custody and the capacity, and is a step of the promised lifecycle, or none.
LEMMA NextCustody ==
  ASSUME Guarded, TicketsOK, [Next]_vars
  PROVE  CustodyStep
<1>1. SessionOK'
  BY NextKeepsSessionOK DEF Guarded
<1>2. CASE UNCHANGED vars
  BY <1>1, <1>2, QuietStep DEF vars, mailboxVars, loopVars, recordVars, admissionVars, HandsStill
<1>3. CASE Next
  BY <1>1, <1>3, ClientCustody, HostCustody, RunCustody DEF Next, Environment
<1> QED
  BY <1>2, <1>3

\* In the beginning no input is anywhere.
LEMMA InitCustody == Init => CustodyOK /\ Delivery!Init
<1> SUFFICES ASSUME Init PROVE CustodyOK /\ Delivery!Init
  OBVIOUS
<1>1. /\ records = << >> /\ status = [i \in Inputs |-> "Absent"] /\ handedOff = {}
      /\ ready = << >> /\ queue = << >> /\ pc = "free" /\ batch = << >> /\ transcript = << >>
  BY DEF Init, MailboxInit
<1>2. \A j \in Inputs : status[j] = "Absent"
  BY <1>1
<1>3. MailboxKept
  <2>1. Sel(status) = {} /\ Drained = {} /\ Recorded(records, status)
    BY <1>1, <1>2, EmptyFacts DEF Sel, Drained, Recorded
  <2> QED
    BY <1>1, <2>1, EmptyFacts DEF MailboxKept, Kept
<1>4. BatchOK
  BY <1>1, <1>2, EmptyFacts DEF BatchOK, WithStatus
<1>5. TranscriptOK
  BY <1>1, <1>2, EmptyFacts DEF TranscriptOK, WithStatus, Unreported
<1>6. NothingAdmittedWhilePaused
  BY <1>1 DEF NothingAdmittedWhilePaused
<1>7. Arranged
  BY <1>1 DEF Arranged, InOrder
<1>8. DeliveryPhase = [i \in Inputs |-> "Absent"]
  BY <1>1, <1>2, EmptyFacts DEF DeliveryPhase
<1> QED
  BY <1>1, <1>3, <1>4, <1>5, <1>6, <1>7, <1>8 DEF CustodyOK, Delivery!Init

\* Custody and the tickets, in every reachable state.
LEMMA CustodyInvariant == Spec => [](Guarded /\ TicketsOK)
<1>1. Init => Guarded
  BY SessionInitOK, InitCustody DEF Guarded
<1>2. Guarded /\ TicketsOK /\ [Next]_vars => Guarded'
  BY NextKeepsSessionOK, NextCustody DEF Guarded, CustodyStep
<1>3. Spec => []TicketsOK
  BY RunsInvariant, PTL DEF RunsOK
<1> QED
  BY <1>1, <1>2, <1>3, PTL DEF Spec

\* Custody follows from the parts of the invariant.
LEMMA CustodyParts == Guarded => Custody
<1> SUFFICES ASSUME Guarded PROVE Custody
  OBVIOUS
<1>1. MailboxKept /\ BatchOK
  BY DEF Guarded, CustodyOK
<1>2. Range(queue) \cap Range(batch) = {}
  <2>1. CASE pc = "drained"
    BY <1>1, <2>1 DEF MailboxKept, Kept, Drained
  <2>2. CASE pc \in {"claimed", "appended"}
    <3>1. \A j \in Range(queue) : j \in Sel(status)
      BY <1>1 DEF MailboxKept, Kept
    <3>2. \A j \in Range(batch) : j \in WithStatus("Claimed")
      BY <1>1, <2>2 DEF BatchOK
    <3> QED
      BY <3>1, <3>2 DEF Sel, WithStatus
  <2>3. CASE pc \notin {"drained", "claimed", "appended"}
    BY <1>1, <2>3, EmptyFacts DEF BatchOK
  <2> QED
    BY <2>1, <2>2, <2>3
<1>3. Sel(status) = Selected
  BY DEF Sel, Selected, WithStatus
<1>4. /\ IsInjective(records) /\ IsInjective(ready) /\ IsInjective(queue) /\ IsInjective(batch)
      /\ Range(records) = {i \in Inputs : status[i] # "Absent"}
  BY <1>1 DEF MailboxKept, Kept, Recorded, BatchOK
<1>5. /\ Range(ready) = Selected \ handedOff
      /\ Range(queue) \cup Drained = Selected \cap handedOff
  BY <1>1, <1>3 DEF MailboxKept, Kept
<1> QED
  BY <1>1, <1>2, <1>4, <1>5 DEF Custody, BatchOK, Drained

\* Every accepted input is in exactly one place and its record says which,
\* between any two critical sections of the mailbox, the queue and Receive.
THEOREM InputsAreInCustody == Spec => []Custody
BY CustodyInvariant, CustodyParts, PTL

\* Nothing is written twice: a reclaim, a stop or a restart of the loop between
\* the drain and the report never brings an input back to the transcript.
THEOREM WrittenOnce == Spec => []TranscriptOK
<1>1. Guarded => TranscriptOK
  BY DEF Guarded, CustodyOK
<1> QED
  BY <1>1, CustodyInvariant, PTL

\* The mailbox never holds more than its capacity, what Receive has claimed and
\* not yet reported as delivered included, although only `enqueue' looks at the
\* count: reclaims, withdrawals and reports move inputs without looking.
THEOREM MailboxIsBounded == Spec => [](Cardinality(Pending) <= Capacity)
<1> DEFINE Bounded == Cardinality(Pending) <= Capacity
<1>1. Init => Bounded
  <2> SUFFICES ASSUME Init PROVE Bounded
    OBVIOUS
  <2>1. Pending = {}
    BY DEF Init, MailboxInit, Pending, WithStatus
  <2> QED
    BY <2>1, FS_EmptySet, CapacityAssumption
<1>2. ASSUME Guarded, TicketsOK, Bounded, [Next]_vars
      PROVE  Bounded'
  <2>1. RoomKept
    BY <1>2, NextCustody DEF CustodyStep
  <2>2. IsFiniteSet(Pending)
    <3>1. records \in Seq(Inputs) /\ Pending \subseteq Range(records)
      BY <1>2, GuardedFacts DEF Recorded, Pending, WithStatus
    <3> QED
      BY <3>1, FiniteRange, FS_Subset
  <2>3. Cardinality(Pending) \in Nat /\ Capacity \in Nat
    BY <2>2, FS_CardinalityType, CapacityAssumption
  <2>4. CASE Pending' \subseteq Pending
    <3>1. /\ Cardinality(Pending') <= Cardinality(Pending)
          /\ Cardinality(Pending') \in Nat
      BY <2>2, <2>4, FS_Subset, FS_CardinalityType
    <3> QED
      BY <1>2, <2>3, <3>1
  <2>5. ASSUME NEW i \in Inputs, Pending' \subseteq Pending \cup {i}, Cardinality(Pending) < Capacity
        PROVE  Bounded'
    <3>1. /\ IsFiniteSet(Pending \cup {i})
          /\ Cardinality(Pending \cup {i}) <= Cardinality(Pending) + 1
          /\ Cardinality(Pending \cup {i}) \in Nat
      BY <2>2, <2>3, FS_AddElement, FS_CardinalityType
    <3>2. /\ Cardinality(Pending') <= Cardinality(Pending \cup {i})
          /\ Cardinality(Pending') \in Nat
      BY <2>5, <3>1, FS_Subset, FS_CardinalityType
    <3> QED
      BY <2>3, <2>5, <3>1, <3>2
  <2> QED
    BY <2>1, <2>4, <2>5 DEF RoomKept
<1> QED
  BY <1>1, <1>2, CustodyInvariant, PTL DEF Spec

\* A paused session has nothing selected or queued for the loop: stop and a
\* failed finish reclaim, and no operation promotes while `paused' holds.
THEOREM PauseHoldsInputsBack == Spec => []NothingAdmittedWhilePaused
<1>1. Guarded => NothingAdmittedWhilePaused
  BY DEF Guarded, CustodyOK
<1> QED
  BY <1>1, CustodyInvariant, PTL

\* promote_next releases in order of acceptance, and nothing it releases later
\* overtakes: inputs never sent now are claimed and delivered in order.
THEOREM OrdinaryInputsStayInOrder == Spec => []OrdinaryFifo
<1>1. Guarded => OrdinaryFifo
  <2> SUFFICES ASSUME Guarded PROVE OrdinaryFifo
    OBVIOUS
  <2>1. InOrder(records, status, Chosen)
    BY DEF Guarded, CustodyOK, Arranged
  <2>2. \A m, n \in DOMAIN records :
          /\ m < n
          /\ records[m] \notin Chosen /\ records[n] \notin Chosen
          /\ status[records[n]] \in {"Claimed", "Delivered"}
          => status[records[m]] \in {"Claimed", "Delivered", "Withdrawn"}
    BY <2>1 DEF InOrder
  <2> QED
    BY <2>2 DEF OrdinaryFifo, Chosen
<1> QED
  BY <1>1, CustodyInvariant, PTL

\* The session, whose records lag behind the queue and the transcript, delivers
\* each input once along the lifecycle it promises: every step is a step of
\* UserInputDelivery or none.
THEOREM SessionDelivers == Spec => ImplementsDelivery
<1>1. Init => Delivery!Init
  BY InitCustody
<1>2. Guarded /\ TicketsOK /\ [Next]_vars => [Delivery!Next]_(Delivery!vars)
  BY NextCustody DEF CustodyStep
<1> QED
  BY <1>1, <1>2, CustodyInvariant, PTL DEF Spec, ImplementsDelivery, Delivery!Spec

-----------------------------------------------------------------------------
(* A frozen owner                                                          *)

\* Nothing is selected, handed off or issued by this step.
NothingReleased ==
  /\ lastTicket' = lastTicket
  /\ Len(queue') <= Len(queue)
  /\ \A i \in Inputs : status'[i] = "Dispatching" => status[i] = "Dispatching"

\* Once frozen, the owner stays frozen and releases nothing.
Frozen == ~valid' /\ NothingReleased

\* A step that leaves the records, the queue and the tickets alone.
LEMMA IdleFrozen ==
  ASSUME SessionOK, ~valid, valid' = valid, UNCHANGED <<status, queue, lastTicket>>
  PROVE  Frozen
<1>1. Len(queue) \in Nat
  BY DEF SessionOK, MailboxOK, MailboxTypeOK
<1> QED
  BY <1>1 DEF Frozen, NothingReleased

\* A Stop of a frozen owner gives back, it releases nothing.
LEMMA StopFrozen ==
  ASSUME SessionOK, ~valid, Stop
  PROVE  Frozen
<1>1. queue \in Seq(Inputs) /\ status \in [Inputs -> States]
  BY DEF SessionOK, MailboxOK, MailboxTypeOK
<1>2. Reclaim /\ lastTicket' = lastTicket /\ ~valid'
  BY DEF Stop
<1>3. Len(queue') <= Len(queue)
  <2>1. PICK S : queue' = Keep(queue, S)
    BY <1>2 DEF Reclaim
  <2> QED
    BY <1>1, <2>1, KeepElement
<1>4. PICK back : status' = Moved(status, back, "Queued")
  BY <1>2 DEF Reclaim
<1>5. \A i \in Inputs : status'[i] = "Dispatching" => status[i] = "Dispatching"
  BY <1>1, <1>4 DEF Moved
<1> QED
  BY <1>2, <1>3, <1>5 DEF Frozen, NothingReleased

\* A finished attempt of a frozen owner releases nothing.
LEMMA FinishFrozen ==
  ASSUME SessionOK, ~valid, NEW t, NEW fallback, FinishAttempt(t, fallback)
  PROVE  Frozen
<1>1. CASE ~ IsActive(t)
  <2>1. valid' = valid /\ UNCHANGED <<status, queue, lastTicket>>
    BY <1>1 DEF FinishAttempt, mailboxVars, recordVars, admissionVars
  <2> QED
    BY <2>1, IdleFrozen
<1>2. CASE IsActive(t)
  <2>1. valid' = valid /\ UNCHANGED <<status, queue, lastTicket>>
    BY <1>2 DEF FinishAttempt, recordVars
  <2> QED
    BY <2>1, IdleFrozen
<1> QED
  BY <1>1, <1>2

\* What the run reports moves inputs on, never back into the selection.
LEMMA ReportFrozen ==
  ASSUME SessionOK, ~valid, valid' = valid, UNCHANGED <<queue, lastTicket>>,
         NEW ids, NEW to \in {"Claimed", "Delivered"}, status' = Moved(status, ids, to)
  PROVE  Frozen
<1>1. Len(queue) \in Nat
  BY DEF SessionOK, MailboxOK, MailboxTypeOK
<1>2. \A i \in Inputs : status'[i] = "Dispatching" => status[i] = "Dispatching"
  BY DEF Moved
<1> QED
  BY <1>1, <1>2 DEF Frozen, NothingReleased

\* Clients, when the owner is frozen.
LEMMA ClientFrozen ==
  ASSUME SessionOK, ~valid, Client
  PROVE  Frozen
<1>1. ASSUME NEW c \in Commands, NEW i \in Inputs, ClientEnqueue(c, i) \/ ClientTakeBack(c, i)
      PROVE  FALSE
  BY <1>1 DEF ClientEnqueue, ClientTakeBack, Enqueue, EnqueueKnown, TakeBack, Fresh
<1>2. ASSUME NEW c \in Commands, NEW ids \in SUBSET Inputs, ClientDispatch(c, ids)
      PROVE  FALSE
  BY <1>2 DEF ClientDispatch, Dispatch, Fresh
<1>3. ASSUME NEW c \in Commands, ClientRetry(c)
      PROVE  FALSE
  BY <1>3 DEF ClientRetry
<1>4. CASE SendStop
  BY <1>4, IdleFrozen DEF SendStop, mailboxVars, recordVars, admissionVars
<1>5. CASE (\E t \in stopsSent : ReceiveStop(t)) \/ LegacyStop
  BY <1>5, StopFrozen DEF ReceiveStop, StopAttempt, LegacyStop
<1>6. CASE Close
  BY <1>6 DEF Close
<1> QED
  BY <1>1, <1>2, <1>3, <1>4, <1>5, <1>6 DEF Client

\* The host, when the owner is frozen.
LEMMA HostFrozen ==
  ASSUME SessionOK, ~valid,
         \/ Schedule \/ StartWaiting \/ Cancel \/ CloseStop
         \/ \E resume \in BOOLEAN : StartExternal(resume)
         \/ \E t \in waiting : AbortWaiting(t)
  PROVE  Frozen
<1>1. CASE Schedule
  <2>1. UNCHANGED mailboxVars
    BY <1>1 DEF Schedule, CanReserve
  <2> QED
    BY <2>1, IdleFrozen DEF mailboxVars, recordVars, admissionVars
<1>2. ASSUME NEW t \in waiting, StartManaged(t)
      PROVE  Frozen
  <2>1. UNCHANGED mailboxVars
    BY <1>2 DEF StartManaged, CanAttach
  <2> QED
    BY <2>1, IdleFrozen DEF mailboxVars, recordVars, admissionVars
<1>3. ASSUME NEW t \in cancelling, DeliverCancel(t)
      PROVE  Frozen
  BY <1>3, IdleFrozen DEF DeliverCancel, CancelToken, recordVars, admissionVars
<1>4. CASE CloseStop
  BY <1>4, StopFrozen DEF CloseStop
<1>5. ASSUME NEW resume \in BOOLEAN, StartExternal(resume)
      PROVE  FALSE
  BY <1>5 DEF StartExternal, AttachExternalAttempt
<1>6. ASSUME NEW t \in waiting, AbortWaiting(t)
      PROVE  Frozen
  BY <1>6, FinishFrozen DEF AbortWaiting
<1> QED
  BY <1>1, <1>2, <1>3, <1>4, <1>5, <1>6 DEF StartWaiting, Cancel

\* The run goes on to its end when the owner is frozen, and releases nothing.
LEMMA RunFrozen ==
  ASSUME SessionOK, ~valid,
         Run \/ AbortRun \/ IterationError \/ SettleInconsistent \/ WakeForTask
  PROVE  Frozen
<1>1. ASSUME UNCHANGED mailboxVars
      PROVE  Frozen
  BY <1>1, IdleFrozen DEF mailboxVars, recordVars, admissionVars
<1>2. CASE KeepGoing \/ Interrupted \/ AppendToTranscript \/ StartIteration \/ EndIteration
           \/ Complete \/ Release \/ IterationError
  BY <1>1, <1>2 DEF KeepGoing, Interrupted, AppendToTranscript, StartIteration, EndIteration,
                    Complete, Release, IterationError
<1>3. CASE Drain
  <2>1. queue' = << >> /\ valid' = valid /\ UNCHANGED <<status, lastTicket>>
    BY <1>3 DEF Drain, DrainAll, recordVars, admissionVars
  <2>2. Len(queue) \in Nat
    BY DEF SessionOK, MailboxOK, MailboxTypeOK
  <2>3. Len(queue') <= Len(queue)
    BY <2>1, <2>2
  <2> QED
    BY <2>1, <2>3 DEF Frozen, NothingReleased
<1>4. CASE Claim
  BY <1>4, ReportFrozen DEF Claim, MarkClaimed, admissionVars
<1>5. CASE Deliver
  BY <1>5, ReportFrozen DEF Deliver, MarkDelivered, admissionVars
<1>6. ASSUME LeaveIdle
      PROVE  Frozen
  BY <1>6, IdleFrozen DEF LeaveIdle, recordVars
<1>7. CASE GoIdle
  <2>1. valid' = valid /\ UNCHANGED <<status, queue, lastTicket>>
    BY <1>7 DEF GoIdle, EnterIdle, WakeSuspended, Wakeable
  <2> QED
    BY <2>1, IdleFrozen
<1>8. CASE Suspend \/ WakeForInput \/ WakeForTask
  BY <1>1, <1>6, <1>8 DEF Suspend, WakeForInput, WakeForTask, Wake
<1>9. CASE Settle \/ SettleInconsistent
  BY <1>9, IdleFrozen DEF Settle, SettleInconsistent, RecordAttemptOutcome, recordVars, admissionVars
<1>10. CASE Freeze
  <2>1. ~valid' /\ valid' = valid /\ UNCHANGED <<status, queue, lastTicket>>
    BY <1>10 DEF Freeze, Invalidate, recordVars, SessionOK, MailboxOK, MailboxTypeOK
  <2> QED
    BY <2>1, IdleFrozen
<1>11. CASE FreezeStop
  BY <1>11, StopFrozen DEF FreezeStop
<1>12. CASE Finish \/ FinishAborted
  BY <1>12, FinishFrozen DEF Finish, FinishAborted
<1>13. CASE AbortRun
  BY <1>13, IdleFrozen DEF AbortRun, recordVars, admissionVars
<1> QED
  BY <1>2, <1>3, <1>4, <1>5, <1>7, <1>8, <1>9, <1>10, <1>11, <1>12, <1>13 DEF Run

\* After invalidate (a close, or a flush that failed) every entry point finds
\* the owner frozen: nothing is selected, handed off or reserved again.
THEOREM FrozenStaysFrozen == Spec => FrozenForGood
<1>1. ASSUME SessionOK, [Next]_vars, ~valid
      PROVE  Frozen
  <2>1. CASE UNCHANGED vars
    BY <1>1, <2>1, IdleFrozen DEF vars, mailboxVars, recordVars, admissionVars
  <2>2. CASE Next
    BY <1>1, <2>2, ClientFrozen, HostFrozen, RunFrozen DEF Next, Environment
  <2> QED
    BY <1>1, <2>1, <2>2
<1>2. SessionOK /\ [Next]_vars =>
        [~valid => /\ ~valid'
                   /\ lastTicket' = lastTicket
                   /\ Len(queue') <= Len(queue)
                   /\ \A i \in Inputs : status'[i] = "Dispatching" => status[i] = "Dispatching"]_vars
  BY <1>1 DEF Frozen, NothingReleased
<1>3. Spec => []SessionOK
  BY SessionInitOK, NextKeepsSessionOK, PTL DEF Spec
<1> QED
  BY <1>2, <1>3, PTL DEF Spec, FrozenForGood

-----------------------------------------------------------------------------
(* What resumes a paused session                                           *)

\* A pause is lifted by a fresh command or by a run of the host's own.
Excused == paused /\ ~paused' => receipts' # receipts \/ holder' # holder

\* A command executed now leaves a receipt that was not there.
LEMMA FreshLeavesReceipt ==
  ASSUME MailboxTypeOK, NEW c \in Commands, NEW op \in {"enqueue", "dispatch", "takeback"},
         NEW ids \in SUBSET Inputs, Fresh(c), Remember(c, op, ids)
  PROVE  receipts' # receipts
<1>1. /\ receipts \in [Commands -> Requests \cup {NoReceipt}]
      /\ receipts[c] = NoReceipt
      /\ receipts' = [receipts EXCEPT ![c] = [op |-> op, ids |-> ids]]
  BY DEF MailboxTypeOK, Fresh, Remember
<1>2. [op |-> op, ids |-> ids] \in Requests
  BY DEF Requests
<1>3. receipts'[c] # receipts[c]
  BY <1>1, <1>2, NoneAssumption
<1> QED
  BY <1>3

\* Clients lift a pause by fresh commands only.
LEMMA ClientExcused ==
  ASSUME SessionOK, Client
  PROVE  Excused
<1>0. MailboxTypeOK
  BY DEF SessionOK, MailboxOK
<1>1. ASSUME NEW c \in Commands, NEW i \in Inputs, ClientEnqueue(c, i)
      PROVE  Excused
  <2>1. Fresh(c) /\ Remember(c, "enqueue", {i}) /\ {i} \in SUBSET Inputs
    BY <1>1 DEF ClientEnqueue, Enqueue, EnqueueKnown
  <2> QED
    BY <1>0, <2>1, FreshLeavesReceipt DEF Excused
<1>2. ASSUME NEW c \in Commands, NEW i \in Inputs, ClientTakeBack(c, i)
      PROVE  Excused
  BY <1>2 DEF ClientTakeBack, TakeBack, admissionVars, Excused
<1>3. ASSUME NEW c \in Commands, NEW ids \in SUBSET Inputs, ClientDispatch(c, ids)
      PROVE  Excused
  <2>1. Fresh(c) /\ Remember(c, "dispatch", ids)
    BY <1>3 DEF ClientDispatch, Dispatch
  <2> QED
    BY <1>0, <2>1, FreshLeavesReceipt DEF Excused
<1>4. ASSUME NEW c \in Commands, ClientRetry(c)
      PROVE  Excused
  BY <1>4 DEF ClientRetry, mailboxVars, admissionVars, Excused
<1>5. CASE SendStop
  BY <1>5 DEF SendStop, mailboxVars, admissionVars, Excused
<1>6. CASE (\E t \in stopsSent : ReceiveStop(t)) \/ LegacyStop
  BY <1>6 DEF ReceiveStop, StopAttempt, LegacyStop, Stop, Excused
<1>7. CASE Close
  BY <1>7 DEF Close, Invalidate, Excused
<1> QED
  BY <1>1, <1>2, <1>3, <1>4, <1>5, <1>6, <1>7 DEF Client

\* A finished attempt never lifts a pause.
LEMMA FinishExcused ==
  ASSUME NEW t, NEW fallback, FinishAttempt(t, fallback)
  PROVE  Excused
<1>1. CASE ~ IsActive(t)
  BY <1>1 DEF FinishAttempt, mailboxVars, admissionVars, Excused
<1>2. CASE IsActive(t)
  BY <1>2 DEF FinishAttempt, Excused
<1> QED
  BY <1>1, <1>2

\* The host lifts a pause by a run of its own only.
LEMMA HostExcused ==
  ASSUME SessionOK,
         \/ Schedule \/ StartWaiting \/ Cancel \/ CloseStop
         \/ \E resume \in BOOLEAN : StartExternal(resume)
         \/ \E t \in waiting : AbortWaiting(t)
  PROVE  Excused
<1>1. CASE Schedule
  BY <1>1 DEF Schedule, ReserveRun, mailboxVars, admissionVars, Excused
<1>2. ASSUME NEW t \in waiting, StartManaged(t)
      PROVE  Excused
  BY <1>2 DEF StartManaged, AttachAttempt, mailboxVars, admissionVars, Excused
<1>3. ASSUME NEW t \in cancelling, DeliverCancel(t)
      PROVE  Excused
  BY <1>3 DEF DeliverCancel, CancelToken, admissionVars, Excused
<1>4. CASE CloseStop
  BY <1>4 DEF CloseStop, Stop, Excused
<1>5. ASSUME NEW resume \in BOOLEAN, StartExternal(resume)
      PROVE  Excused
  <2>1. holder = 0 /\ holder' = lastTicket + 1 /\ lastTicket \in Nat
    BY <1>5 DEF StartExternal, AttachExternalAttempt, SessionOK, MailboxOK, MailboxTypeOK
  <2>2. holder' # holder
    BY <2>1
  <2> QED
    BY <2>2 DEF Excused
<1>6. ASSUME NEW t \in waiting, AbortWaiting(t)
      PROVE  Excused
  BY <1>6, FinishExcused DEF AbortWaiting
<1> QED
  BY <1>1, <1>2, <1>3, <1>4, <1>5, <1>6 DEF StartWaiting, Cancel

\* The run lifts no pause.
LEMMA RunExcused ==
  ASSUME Run \/ AbortRun \/ IterationError \/ SettleInconsistent \/ WakeForTask
  PROVE  Excused
<1>1. ASSUME paused' = paused
      PROVE  Excused
  BY <1>1 DEF Excused
<1>2. CASE KeepGoing \/ Interrupted \/ AppendToTranscript \/ StartIteration \/ EndIteration
           \/ Complete \/ Release \/ IterationError
  BY <1>1, <1>2 DEF KeepGoing, Interrupted, AppendToTranscript, StartIteration, EndIteration,
                    Complete, Release, IterationError, mailboxVars, admissionVars
<1>3. CASE Drain \/ Claim \/ Deliver
  BY <1>1, <1>3 DEF Drain, DrainAll, Claim, MarkClaimed, Deliver, MarkDelivered, admissionVars
<1>4. CASE GoIdle \/ Suspend \/ WakeForInput \/ WakeForTask
  BY <1>1, <1>4 DEF GoIdle, EnterIdle, Suspend, WakeForInput, WakeForTask, Wake, LeaveIdle,
                    mailboxVars, admissionVars
<1>5. CASE Settle \/ SettleInconsistent \/ Freeze
  BY <1>1, <1>5 DEF Settle, SettleInconsistent, RecordAttemptOutcome, Freeze, Invalidate, admissionVars
<1>6. CASE FreezeStop
  BY <1>6 DEF FreezeStop, Stop, Excused
<1>7. CASE Finish \/ FinishAborted
  BY <1>7, FinishExcused DEF Finish, FinishAborted
<1>8. CASE AbortRun
  BY <1>1, <1>8 DEF AbortRun, admissionVars
<1> QED
  BY <1>2, <1>3, <1>4, <1>5, <1>6, <1>7, <1>8 DEF Run

\* A repeated command returns its receipt and lifts no pause: only a command
\* executed for the first time, or a run the host starts itself, does.
THEOREM RetriesDoNotResume == Spec => OnlyFreshCommandsResume
<1>1. SessionOK /\ [Next]_vars =>
        [paused /\ ~paused' => receipts' # receipts \/ holder' # holder]_vars
  BY ClientExcused, HostExcused, RunExcused DEF Next, Environment, Excused
<1>2. Spec => []SessionOK
  BY SessionInitOK, NextKeepsSessionOK, PTL DEF Spec
<1> QED
  BY <1>1, <1>2, PTL DEF Spec, OnlyFreshCommandsResume
=============================================================================

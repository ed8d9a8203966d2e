------------------------- MODULE ReverseInteraction -------------------------
(***************************************************************************)
(* A run asks the user for an approval or a question and waits: the        *)
(* broker and the router at the host (peri-acp/src/broker and              *)
(* transport), the terminal client that owns each request from its         *)
(* registration to its one answer (peri-tui/src/acp_client), and the       *)
(* session boundaries, run ends, stops and queue snapshots that compete    *)
(* for it.                                                                 *)
(*                                                                         *)
(* The client's operation gate is an asynchronous lock: an operation that  *)
(* awaits no reply of the host is one action that finds the gate free; a   *)
(* session transition, a deletion and a snapshot hold it over several.     *)
(* Runs and requests are numbered in order of start.                       *)
(***************************************************************************)
EXTENDS Naturals, Sequences, FiniteSets, SequenceFilter, TLC

CONSTANTS
    Sessions,   \* the ids of sessions
    NoSession,  \* no id
    MaxRuns,    \* bound: managed runs of the host
    MaxAsks,    \* bound: reverse requests sent
    Questions,  \* those that are questions; the others ask for an approval
    MaxMoves    \* bound: transitions, deletions, stops and snapshots

ASSUME InteractionAssumption ==
    /\ NoSession \notin Sessions
    /\ MaxRuns \in Nat /\ MaxAsks \in Nat /\ MaxMoves \in Nat
    /\ Questions \subseteq 1..MaxAsks

Runs  == 1..MaxRuns
Asks  == 1..MaxAsks
NoRun == 0
NoAsk == 0

VARIABLES
    \* the host
    home,       \* a session at the host: "none", "open", "closing", "closed"
    instance,   \* its mailbox instance, 0 before the first
    run,        \* where each run is
    runOf,      \* the session and the instance of a run
    stopped,    \* the runs whose token is cancelled
    ask,        \* where each request is
    askRun,     \* the run that sent it
    \* the transport
    down,       \* what the client's pump has not handled, oldest first
    up,         \* the requests whose response is on its way
    stops,      \* the cancel notifications on their way
    \* InteractionLifecycleState of the client
    at,         \* SessionRoute: "none", "stable" or "moving"
    current,    \* the session of the route
    gen,        \* its generation
    epoch,      \* its prompt epoch
    accepting,  \* accepting_reverse
    active,     \* active_prompt
    inputs,     \* user_input_runs: what is known of a session's runs
    deleted,    \* deleted_session_ids
    owner,      \* pending: the owner of each request that has one
    \* the operation that holds the gate
    gate,       \* "free", or what it waits for
    other,      \* the session it closes or deletes
    reply,      \* the snapshot that was read
    \* the user interface
    notices,    \* the notifications of the client, oldest first
    popup,      \* HITL_PENDING
    replies,    \* the answers given and not yet handled
    shown,      \* what the interface was last told of the run
    \* bookkeeping
    moves,      \* bound: the disturbances made
    ended       \* history: the runs the client has seen the end of

hostVars   == <<home, instance, run, runOf, stopped, ask, askRun>>
routeVars  == <<at, current, gen>>
promptVars == <<epoch, accepting, active, inputs, ended, shown>>
claimVars  == <<owner, notices>>
gateVars   == <<gate, other, reply>>
uiVars     == <<popup, replies>>
clientVars == <<routeVars, promptVars, claimVars, deleted, gateVars, uiVars,
                moves>>
vars == <<hostVars, down, up, stops, clientVars>>

Marks    == [session : Sessions, gen : Nat, epoch : Nat]
NoMarker == [session |-> NoSession, gen |-> 0, epoch |-> 0, run |-> NoRun]
Unbound  == [instance |-> 0, gen |-> 0, latest |-> NoRun, retired |-> {}]
NoReply  == [instance |-> 0, run |-> NoRun]

(* The requests that have an owner.                                         *)
pending == DOMAIN owner

Message(kind, i) == [kind |-> kind, of |-> i]

TypeOK ==
    /\ home \in [Sessions -> {"none", "open", "closing", "closed"}]
    /\ instance \in [Sessions -> Nat]
    /\ run \in [Runs -> {"unused", "attached", "running", "over", "told",
                         "left", "closed"}]
    /\ runOf \in [Runs -> [session : Sessions \cup {NoSession},
                           instance : Nat]]
    /\ stopped \subseteq Runs
    /\ ask \in [Asks -> {"unused", "waiting", "answered", "dropped"}]
    /\ askRun \in [Asks -> Runs \cup {NoRun}]
    /\ down \in Seq([kind : {"started", "done", "ask"}, of : Runs \cup Asks])
    /\ up \subseteq Asks
    /\ stops \subseteq [session : Sessions, run : Runs \cup {NoRun}]
    /\ at \in {"none", "stable", "moving"}
    /\ current \in Sessions \cup {NoSession}
    /\ gen \in Nat /\ epoch \in Nat /\ accepting \in BOOLEAN
    /\ active \in {NoMarker} \cup [session : Sessions, gen : Nat,
                                   epoch : Nat, run : Runs]
    /\ inputs \in [Sessions -> [instance : Nat, gen : Nat,
                                latest : Runs \cup {NoRun},
                                retired : SUBSET Runs]]
    /\ deleted \subseteq Sessions
    /\ pending \subseteq Asks /\ owner \in [pending -> Marks]
    /\ gate \in {"free", "close", "closing", "open", "first", "poll",
                 "apply", "delete", "deleting"}
    /\ other \in Sessions \cup {NoSession}
    /\ reply \in [instance : Nat, run : Runs \cup {NoRun}]
    /\ notices \in Seq([kind : {"ask", "end"}, of : Asks])
    /\ popup \in Asks \cup {NoAsk} /\ replies \subseteq Asks
    /\ shown \in {"idle", "run"}
    /\ moves \in 0..MaxMoves
    /\ ended \subseteq Runs

Init ==
    /\ home = [s \in Sessions |-> "none"]
    /\ instance = [s \in Sessions |-> 0]
    /\ run = [r \in Runs |-> "unused"]
    /\ runOf = [r \in Runs |-> [session |-> NoSession, instance |-> 0]]
    /\ stopped = {}
    /\ ask = [q \in Asks |-> "unused"] /\ askRun = [q \in Asks |-> NoRun]
    /\ down = <<>> /\ up = {} /\ stops = {}
    /\ at = "none" /\ current = NoSession /\ gen = 0
    /\ epoch = 0 /\ accepting = FALSE /\ active = NoMarker
    /\ inputs = [s \in Sessions |-> Unbound]
    /\ deleted = {} /\ owner = <<>>
    /\ gate = "free" /\ other = NoSession /\ reply = NoReply
    /\ notices = <<>> /\ popup = NoAsk /\ replies = {} /\ shown = "idle"
    /\ moves = 0 /\ ended = {}

----------------------------------------------------------------------------
(* The host: one managed run at a time per mailbox, and its requests one at *)
(* a time through the gate of its broker.                                   *)

SessionOf(r) == runOf[r].session

(* The runs of s that hold the session's prompt lock.                       *)
Executing(s) ==
    {r \in Runs : /\ SessionOf(r) = s
                  /\ run[r] \in {"attached", "running", "over", "told"}}

(* UserInputQueueSnapshot.active_request_id.                                *)
ActiveRequest(s) ==
    IF Executing(s) = {} THEN NoRun ELSE CHOOSE r \in Executing(s) : TRUE

First(f, i) == f[i] = "unused" /\ \A j \in DOMAIN f : j < i => f[j] # "unused"

(* run_prompt up to attach_attempt.                                         *)
Attach(r) ==
    /\ First(run, r)
    /\ \E s \in Sessions :
          /\ home[s] = "open" /\ Executing(s) = {}
          /\ runOf' = [runOf EXCEPT ![r] = [session |-> s,
                                            instance |-> instance[s]]]
    /\ run' = [run EXCEPT ![r] = "attached"]
    /\ UNCHANGED <<home, instance, stopped, ask, askRun, down, up, stops,
                   clientVars>>

(* publish_run_started, before the agent can ask anything.                  *)
Announce(r) ==
    /\ run[r] = "attached"
    /\ run' = [run EXCEPT ![r] = "running"]
    /\ down' = Append(down, Message("started", r))
    /\ UNCHANGED <<home, instance, runOf, stopped, ask, askRun, up, stops,
                   clientVars>>

Waiting(r) == {q \in Asks : ask[q] = "waiting" /\ askRun[q] = r}

(* AcpTransportBroker::request under the interaction gate.                  *)
Ask(r, q) ==
    /\ run[r] = "running" /\ Waiting(r) = {} /\ First(ask, q)
    /\ ask' = [ask EXCEPT ![q] = "waiting"]
    /\ askRun' = [askRun EXCEPT ![q] = r]
    /\ down' = Append(down, Message("ask", q))
    /\ UNCHANGED <<home, instance, run, runOf, stopped, up, stops, clientVars>>

(* The time-out of a question: the request is withdrawn from the router,    *)
(* and the client is not told. An approval waits for as long as its run.    *)
Expire(q) ==
    /\ q \in Questions /\ ask[q] = "waiting"
    /\ ask' = [ask EXCEPT ![q] = "dropped"]
    /\ UNCHANGED <<home, instance, run, runOf, stopped, askRun, down, up,
                   stops, clientVars>>

(* RequestRouter::dispatch: a response nobody waits for is passed over.     *)
Dispatch(q) ==
    /\ q \in up
    /\ up' = up \ {q}
    /\ ask' = [ask EXCEPT ![q] = IF @ = "waiting" THEN "answered" ELSE @]
    /\ UNCHANGED <<home, instance, run, runOf, stopped, askRun, down, stops,
                   clientVars>>

(* The loop ends; a cancelled one drops the request it waits for. A start   *)
(* that fails gives the mailbox and the prompt lock back at once.           *)
Finish(r) ==
    /\ run[r] \in {"attached", "running"}
    /\ Waiting(r) = {} \/ r \in stopped
    /\ run' = [run EXCEPT ![r] = IF @ = "running" THEN "over" ELSE "left"]
    /\ stopped' = IF run[r] = "running" THEN stopped ELSE stopped \ {r}
    /\ ask' = [q \in Asks |-> IF q \in Waiting(r) THEN "dropped" ELSE ask[q]]
    /\ UNCHANGED <<home, instance, runOf, askRun, down, up, stops,
                   clientVars>>

(* push_done, as a rule before the mailbox lets the run go; the wait for    *)
(* the event pump is limited, so it may come after.                         *)
Tell(r) ==
    /\ run[r] \in {"over", "left"}
    /\ run' = [run EXCEPT ![r] = IF @ = "over" THEN "told" ELSE "closed"]
    /\ down' = Append(down, Message("done", r))
    /\ UNCHANGED <<home, instance, runOf, stopped, ask, askRun, up, stops,
                   clientVars>>

(* finish_attempt and the release of the prompt lock.                       *)
Detach(r) ==
    /\ run[r] \in {"over", "told"}
    /\ run' = [run EXCEPT ![r] = IF @ = "over" THEN "left" ELSE "closed"]
    /\ stopped' = stopped \ {r}
    /\ UNCHANGED <<home, instance, runOf, ask, askRun, down, up,
                   stops, clientVars>>

(* session/cancel: a targeted one only reaches the run it names.            *)
Cancel(m) ==
    /\ m \in stops
    /\ stops' = stops \ {m}
    /\ stopped' = IF home[m.session] = "open"
                  THEN stopped \cup {r \in Executing(m.session) :
                                        m.run \in {r, NoRun}}
                  ELSE stopped
    /\ UNCHANGED <<home, instance, run, runOf, ask, askRun, down, up,
                   clientVars>>

----------------------------------------------------------------------------
(* Claims. A claimed request is answered and its end told to the interface. *)

\* Slip: the owners are read and not removed.
SlipUnclaimed(Q) == owner

Unclaimed(Q) == [q \in pending \ Q |-> owner[q]]

Ends(Q) == [i \in 1..Cardinality(Q) |-> Message("end", NthIndex(Q, i))]

Settle(Q) ==
    /\ owner' = Unclaimed(Q)
    /\ up' = up \cup Q
    /\ notices' = notices \o Ends(Q)

\* Slip: only what earlier prompts left is drained.
SlipOwned ==
    {q \in pending : /\ owner[q].session = active.session
                     /\ owner[q].gen = active.gen
                     /\ owner[q].epoch < active.epoch}

(* The pending requests of the active prompt.                               *)
Owned ==
    {q \in pending : owner[q] = [session |-> active.session,
                                 gen |-> active.gen, epoch |-> active.epoch]}

----------------------------------------------------------------------------
(* What the client knows of the runs of a session (UserInputRuns).          *)

\* Slip: what is not the latest run is retired, as Supersede does.
SlipRetire(b, r) ==
    IF r # NoRun /\ b.latest # r THEN [b EXCEPT !.retired = @ \cup {r}] ELSE b

Retire(b, r) ==
    IF r # NoRun /\ b.latest = r THEN [b EXCEPT !.retired = @ \cup {r}] ELSE b

Supersede(b, r) ==
    [b EXCEPT !.latest = r,
              !.retired = IF b.latest \in {NoRun, r} THEN @
                          ELSE @ \cup {b.latest}]

(* bind_user_input_generation.                                              *)
MayBind(b, i) == b.instance \in {0, i} \/ b.gen # gen

Bind(b, i) ==
    IF b.instance \in {0, i} THEN [b EXCEPT !.instance = i, !.gen = gen]
                             ELSE [Unbound EXCEPT !.instance = i, !.gen = gen]

(* open_user_input_run: run r of instance i of s becomes the active one, if *)
(* the client, which knows k of the session's runs, takes it for a new one. *)
MayOpen(k, s, i, r) ==
    /\ s \notin deleted
    /\ at = "stable" /\ current = s
    /\ k.instance = i /\ k.gen = gen
    /\ r \notin k.retired
    /\ ~(active.session = s /\ active.run = r)

Open(k, s, i, r) ==
    IF MayOpen(k, s, i, r)
    THEN /\ Settle(Owned)
         /\ inputs' = [inputs EXCEPT ![s] = Supersede(k, r)]
         /\ ended' = ended \cup ({active.run, k.latest} \ {NoRun, r})
         /\ active' = [session |-> s, gen |-> gen, epoch |-> epoch + 1,
                       run |-> r]
         /\ epoch' = epoch + 1 /\ accepting' = TRUE /\ shown' = "run"
    ELSE /\ inputs' = [inputs EXCEPT ![s] = k]
         /\ UNCHANGED <<up, claimVars, epoch, accepting, active, ended, shown>>

(* close_prompt_exact of the active marker.                                 *)
CloseActive ==
    /\ active' = NoMarker
    /\ accepting' = (accepting /\ ~(/\ current = active.session
                                    /\ gen = active.gen
                                    /\ epoch = active.epoch))
    /\ Settle(Owned)

----------------------------------------------------------------------------
(* The client's pump.                                                       *)

Pump(kind) ==
    /\ gate = "free" /\ down # <<>> /\ Head(down).kind = kind
    /\ down' = Tail(down)
    /\ UNCHANGED <<hostVars, stops, routeVars, deleted, gateVars, uiVars,
                   moves>>

PumpStarted ==
    /\ Pump("started")
    /\ LET r == Head(down).of
           s == SessionOf(r)
       IN  Open(inputs[s], s, runOf[r].instance, r)

\* Slip: the end of every retired run is held back.
SlipShouldForward(s, r) ==
    \/ inputs[s] = Unbound
    \/ IF active.session = s /\ active.run = inputs[s].latest
       THEN r = active.run
       ELSE r \notin inputs[s].retired

(* should_forward_prompt_terminal: the end of an older run must not end a   *)
(* newer one.                                                               *)
ShouldForward(s, r) ==
    \/ inputs[s] = Unbound
    \/ IF active.session = s /\ active.run = inputs[s].latest
       THEN r = active.run
       ELSE ~(r \in inputs[s].retired /\ inputs[s].latest # r)

PumpDone ==
    /\ Pump("done")
    /\ LET r == Head(down).of
           s == SessionOf(r)
       IN  IF ShouldForward(s, r)
           THEN /\ inputs' = [inputs EXCEPT ![s] = Retire(@, r)]
                /\ ended' = ended \cup {r}
                /\ IF active.session = s /\ active.run = r
                   THEN CloseActive
                   ELSE UNCHANGED <<active, accepting, up, claimVars>>
                /\ shown' = IF /\ s \notin deleted
                               /\ at = "stable" /\ current = s
                            THEN "idle" ELSE shown
           ELSE UNCHANGED <<inputs, ended, active, accepting, shown, up,
                            claimVars>>
    /\ UNCHANGED epoch

(* register_reverse: a request that meets no open prompt of its session is  *)
(* answered at once.                                                        *)
PumpAsk ==
    /\ Pump("ask")
    /\ LET q == Head(down).of
           s == SessionOf(askRun[q])
       IN  IF /\ s \notin deleted
              /\ at = "stable" /\ current = s /\ accepting
           THEN /\ owner' = [p \in pending \cup {q} |->
                              IF p = q THEN [session |-> s, gen |-> gen,
                                             epoch |-> epoch]
                              ELSE owner[p]]
                /\ notices' = Append(notices, Message("ask", q))
                /\ UNCHANGED up
           ELSE up' = up \cup {q} /\ UNCHANGED claimVars
    /\ UNCHANGED promptVars

----------------------------------------------------------------------------
(* The interface: notices are shown in order, the user answers.             *)

Notice(kind) ==
    /\ notices # <<>> /\ Head(notices).kind = kind
    /\ notices' = Tail(notices)
    /\ UNCHANGED <<hostVars, down, up, stops, routeVars, promptVars, owner,
                   deleted, gateVars, replies, moves>>

(* publish_if_owned; the slot holds the request published last.             *)
ShowAsk ==
    /\ gate = "free"
    /\ Notice("ask")
    /\ popup' = IF Head(notices).of \in pending THEN Head(notices).of
                                                ELSE popup

(* handle_interaction_terminal.                                             *)
ShowEnd ==
    /\ Notice("end")
    /\ popup' = IF Head(notices).of = popup THEN NoAsk ELSE popup

(* Enter or Esc: the answer is queued and the popup closes at once.         *)
UserAnswers ==
    /\ popup # NoAsk
    /\ replies' = replies \cup {popup}
    /\ popup' = NoAsk
    /\ UNCHANGED <<hostVars, down, up, stops, routeVars, promptVars, claimVars,
                   deleted, gateVars, moves>>

(* respond_interaction: a stale owner is a successful no-op.                *)
RespondInteraction(q) ==
    /\ gate = "free" /\ q \in replies
    /\ replies' = replies \ {q}
    /\ Settle({q} \cap pending)
    /\ UNCHANGED <<hostVars, down, stops, routeVars, promptVars, deleted, gateVars, popup, moves>>

----------------------------------------------------------------------------
(* Operations of the client that disturb a run.                             *)

Disturb ==
    /\ gate = "free" /\ moves < MaxMoves
    /\ moves' = moves + 1
    /\ UNCHANGED <<hostVars, down, deleted, reply>>

(* cancel: the prompt is closed before the host is asked to stop.           *)
Stop ==
    /\ Disturb /\ at = "stable"
    /\ stops' = stops \cup {[session |-> current, run |-> active.run]}
    /\ IF active = NoMarker
       THEN UNCHANGED <<active, accepting, inputs, ended, up, claimVars>>
       ELSE /\ CloseActive
            /\ inputs' = [inputs EXCEPT ![active.session] =
                             Retire(@, active.run)]
            /\ ended' = ended \cup {active.run}
    /\ UNCHANGED <<routeVars, epoch, shown, gate, other, uiVars>>

(* begin_transition to target, the boundary of the interface, and the       *)
(* settlement of all that is pending.                                       *)
BeginTransition(target) ==
    /\ at' = "moving" /\ current' = target /\ gen' = gen + 1
    /\ active' = NoMarker /\ accepting' = FALSE
    /\ shown' = "idle" /\ popup' = NoAsk
    /\ Settle(pending)
    /\ UNCHANGED <<epoch, inputs, ended, replies>>

(* new_session and load_session: the session that is left is closed first,  *)
(* unless it is loaded again.                                               *)
Move(target) ==
    /\ Disturb
    /\ BeginTransition(target)
    /\ other' = current
    /\ gate' = IF current \in {NoSession, target} THEN "open" ELSE "close"
    /\ UNCHANGED stops

NewSession == (\E s \in Sessions : home[s] = "none") /\ Move(NoSession)

LoadSession(s) == instance[s] > 0 /\ s \notin deleted /\ Move(s)

(* delete_session, of the current session or of another one.                *)
DeleteSession(s) ==
    /\ Disturb
    /\ instance[s] > 0 /\ s \notin deleted
    /\ gate' = "delete" /\ other' = s
    /\ IF at = "stable" /\ current = s
       THEN BeginTransition(NoSession)
       ELSE UNCHANGED <<up, routeVars, promptVars, claimVars, uiVars>>
    /\ UNCHANGED stops

(* user_input_snapshot, outside of a transition.                            *)
Poll ==
    /\ Disturb /\ at = "stable"
    /\ gate' = "poll"
    /\ UNCHANGED <<up, stops, routeVars, promptVars, claimVars, other, uiVars>>

----------------------------------------------------------------------------
(* What the holder of the gate waits for. The replies of the host do not    *)
(* wait behind the notifications in down.                                   *)

(* fail_transition. Its callers drop what it claims: nothing can have been  *)
(* registered since the transition began.                                   *)
FailTransition ==
    /\ at' = "none" /\ current' = NoSession
    /\ active' = NoMarker /\ accepting' = FALSE /\ owner' = <<>>
    /\ shown' = "idle" /\ popup' = NoAsk
    /\ gate' = "free" /\ other' = NoSession
    /\ UNCHANGED <<gen, epoch, inputs, ended, notices, up, replies, reply>>

\* Slip: what runs is cancelled, the mailbox is not frozen.
SlipFrozen(s) == home

(* The mailbox of s no longer lets a run begin.                             *)
Frozen(s) == [home EXCEPT ![s] = IF @ = "open" THEN "closing" ELSE @]

(* session/close and session/delete first freeze the mailbox and cancel     *)
(* what runs (pre_close_session), then wait for the prompt lock.            *)
PreClose ==
    /\ gate \in {"close", "delete"}
    /\ gate' = IF gate = "close" THEN "closing" ELSE "deleting"
    /\ home' = Frozen(other)
    /\ stopped' = stopped \cup Executing(other)
    /\ UNCHANGED <<instance, run, runOf, ask, askRun, down, up, stops,
                   routeVars, promptVars, claimVars, deleted, other,
                   reply, uiVars, moves>>

Closed ==
    /\ gate = "closing" /\ Executing(other) = {}
    /\ home' = [home EXCEPT ![other] = "closed"]
    /\ gate' = IF at = "moving" THEN "open" ELSE "free"
    /\ other' = NoSession
    /\ UNCHANGED <<instance, run, runOf, stopped, ask, askRun, down, up,
                   stops, routeVars, promptVars, claimVars, deleted,
                   reply, uiVars, moves>>

Deleted ==
    /\ gate = "deleting" /\ Executing(other) = {}
    /\ home' = [home EXCEPT ![other] = "closed"]
    /\ deleted' = deleted \cup {other}
    /\ IF at = "moving" THEN FailTransition
       ELSE /\ gate' = "free" /\ other' = NoSession
            /\ UNCHANGED <<up, routeVars, promptVars, claimVars, reply,
                           uiVars>>
    /\ UNCHANGED <<instance, run, runOf, stopped, ask, askRun, down, stops,
                   moves>>

(* session/new, or session/load, which is refused while the session         *)
(* executes or closes; then commit_stable.                                  *)
Opened ==
    /\ gate = "open"
    /\ \E s \in Sessions :
          /\ IF current = NoSession
             THEN home[s] = "none"
             ELSE /\ s = current /\ home[s] \in {"open", "closed"}
                  /\ Executing(s) = {}
          /\ instance' = [instance EXCEPT ![s] =
                             IF home[s] = "open" THEN @ ELSE @ + 1]
          /\ home' = [home EXCEPT ![s] = "open"]
          /\ current' = s
    /\ at' = "stable" /\ epoch' = 0 /\ accepting' = FALSE
    /\ active' = NoMarker
    /\ gate' = "first" /\ other' = NoSession
    /\ UNCHANGED <<run, runOf, stopped, ask, askRun, down, up, stops, gen,
                   inputs, ended, shown, claimVars, deleted, reply,
                   uiVars, moves>>

(* Any of these requests may be refused: a close is when the run has not    *)
(* stopped after five seconds.                                              *)
Refused ==
    /\ gate \in {"closing", "deleting", "open"}
    /\ IF at = "moving" THEN FailTransition
       ELSE /\ gate' = "free" /\ other' = NoSession
            /\ UNCHANGED <<up, routeVars, promptVars, claimVars, reply,
                           uiVars>>
    /\ UNCHANGED <<hostVars, down, stops, deleted, moves>>

(* session/input/snapshot, read under the mailbox's lock.                   *)
SnapshotRead ==
    /\ gate \in {"first", "poll"} /\ home[current] = "open"
    /\ reply' = [instance |-> instance[current],
                 run |-> ActiveRequest(current)]
    /\ gate' = "apply"
    /\ UNCHANGED <<hostVars, down, up, stops, routeVars, promptVars, claimVars,
                   deleted, other, uiVars, moves>>

SnapshotApplied ==
    /\ gate = "apply"
    /\ MayBind(inputs[current], reply.instance)
    /\ LET k == Bind(inputs[current], reply.instance)
       IN  IF reply.run # NoRun
           THEN Open(k, current, reply.instance, reply.run)
           ELSE /\ inputs' = [inputs EXCEPT ![current] = k]
                /\ UNCHANGED <<up, claimVars, epoch, accepting, active, ended,
                               shown>>
    /\ gate' = "free" /\ reply' = NoReply
    /\ UNCHANGED <<hostVars, down, stops, routeVars, deleted, other,
                   uiVars, moves>>

(* A snapshot that fails is given up; the first one of a session takes the  *)
(* session with it (finish_session_initialization).                         *)
SnapshotFailed ==
    /\ gate \in {"first", "poll"}
    /\ IF gate = "first"
       THEN /\ at' = "none" /\ current' = NoSession
            /\ active' = NoMarker /\ accepting' = FALSE
            /\ shown' = "idle" /\ popup' = NoAsk
            /\ Settle(pending)
            /\ gate' = "close" /\ other' = current
            /\ UNCHANGED <<gen, epoch, inputs, ended, replies>>
       ELSE /\ gate' = "free"
            /\ UNCHANGED <<up, routeVars, promptVars, claimVars, other,
                           uiVars>>
    /\ UNCHANGED <<hostVars, down, stops, deleted, reply, moves>>

----------------------------------------------------------------------------
Next ==
    \/ \E r \in Runs : Attach(r) \/ Announce(r) \/ Finish(r) \/ Tell(r)
                          \/ Detach(r)
    \/ \E r \in Runs, q \in Asks : Ask(r, q)
    \/ \E q \in Asks : Expire(q) \/ Dispatch(q) \/ RespondInteraction(q)
    \/ \E m \in stops : Cancel(m)
    \/ PumpStarted \/ PumpDone \/ PumpAsk
    \/ ShowAsk \/ ShowEnd \/ UserAnswers
    \/ Stop \/ NewSession \/ Poll
    \/ \E s \in Sessions : LoadSession(s) \/ DeleteSession(s)
    \/ PreClose \/ Closed \/ Deleted \/ Opened \/ Refused
    \/ SnapshotRead \/ SnapshotApplied \/ SnapshotFailed

Spec == Init /\ [][Next]_vars

----------------------------------------------------------------------------
(* Properties.                                                              *)

InDown(kind, i) == \E n \in DOMAIN down : down[n] = Message(kind, i)
InNotices(kind, q) == \E n \in DOMAIN notices : notices[n] = Message(kind, q)

(* A request is in one place at most: on its way to the client, owned by    *)
(* it, or answered and on its way back. One that a run waits for is in one  *)
(* of them, and one that is owned is shown or about to be, or the answer of *)
(* the user is about to be handled: no run waits for an answer that nobody  *)
(* can give, and the pump, the user, a stop and a session boundary never    *)
(* answer twice. (register_reverse, claim and drain_pending)                *)
RequestHasOneTaker ==
    \A q \in Asks :
        /\ ~(InDown("ask", q) /\ q \in pending \cup up)
        /\ q \notin pending \cap up
        /\ ask[q] = "waiting" => InDown("ask", q) \/ q \in pending \cup up
        /\ ask[q] = "waiting" /\ q \in pending =>
              InNotices("ask", q) \/ popup = q \/ q \in replies

(* Only the open prompt of the session on screen owns requests: what an     *)
(* earlier prompt, session or generation left is never answered by a later  *)
(* one. (the drains of open_user_input_run, close_prompt_exact and          *)
(* begin_transition against register_reverse)                               *)
OwnedByOpenPrompt ==
    pending # {} =>
        /\ at = "stable" /\ accepting
        /\ active.session = current /\ active.gen = gen
        /\ active.epoch = epoch
        /\ \A q \in pending : owner[q] = [session |-> current, gen |-> gen,
                                          epoch |-> epoch]

(* A run the client has stopped, replaced or seen the end of does not       *)
(* become the active one again: the host goes on naming it in snapshots     *)
(* until the mailbox lets it go. (retired, against push_done and            *)
(* finish_attempt)                                                          *)
NoRevival == active # NoMarker => active.run \notin ended

(* The interface is not left loading: a run of the session on screen still  *)
(* holds the prompt lock, or the end of one is on its way. A stop tells the *)
(* interface nothing, so the end of a retired run must be passed on.        *)
(* (should_forward_prompt_terminal)                                         *)
LoadingHasEnd ==
    shown = "run" =>
        \E r \in Runs :
            /\ SessionOf(r) = current
            /\ r \in Executing(current) \/ run[r] = "left" \/ InDown("done", r)

(* An operation that holds the gate while the host closes a session waits   *)
(* for cancelled runs only. The run may itself be waiting for a request     *)
(* that the pump cannot register as long as the gate is held.               *)
(* (pre_close_session before the wait for the prompt lock)                  *)
GateWaitsForCancelled ==
    gate \in {"closing", "deleting"} => Executing(other) \subseteq stopped

(* "None means a duplicate or a stale event": a run is not opened once a    *)
(* newer run of its session has been. (open_user_input_run)                 *)
StaleStartIsPassedOver ==
    [][active' # active /\ active' # NoMarker =>
          active'.run >= inputs[active'.session].latest]_vars
=============================================================================

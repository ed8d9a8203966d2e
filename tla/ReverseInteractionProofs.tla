---------------------- MODULE ReverseInteractionProofs ----------------------
(***************************************************************************)
(* Proofs about ReverseInteraction, for every set of sessions and every    *)
(* number of runs, requests and disturbances.  The first half of the       *)
(* inductive invariant: the types, the route of the client, the owners of  *)
(* its requests, the host behind a session boundary, and each request from *)
(* the run that sends it to its one answer.  The second half: what the     *)
(* client knows of the runs of a session, from notifications that come in  *)
(* order and from snapshots that overtake them.                            *)
(*                                                                         *)
(* The steps of the system are sorted by what they do to requests: the     *)
(* host withdraws some (Withdraws), the client claims some (Claims), and   *)
(* four actions send, register, show or end one.                           *)
(***************************************************************************)
EXTENDS ReverseInteraction, SequenceFilterProofs

\* A run that holds the prompt lock of its session.
Executes == {"attached", "running", "over", "told"}

\* r is a run of instance i of session s.
Sends(r, s, i) == run[r] # "unused" /\ runOf[r] = [session |-> s, instance |-> i]

\* The route of the client, and what an operation that holds the gate assumes.
RouteOK ==
  /\ accepting => /\ at = "stable"
                  /\ active.session = current /\ active.gen = gen
                  /\ active.epoch = epoch
  /\ active # NoMarker => at = "stable" /\ active.session = current
  /\ at = "none" => current = NoSession
  /\ at = "stable" => current \in Sessions
  /\ current \notin deleted
  /\ at = "moving" => gate \in {"close", "closing", "open", "delete", "deleting"}
  /\ gate = "open" => at = "moving"
  /\ gate \in {"first", "poll", "apply"} => at = "stable"
  /\ gate \in {"close", "closing"} => at # "stable"
  /\ gate \in {"delete", "deleting"} => other # current
  /\ gate \in {"close", "closing", "delete", "deleting"} => other \in Sessions

\* The host: the prompt lock, the instances, and what a boundary has frozen.
HostOK ==
  /\ \A r \in Runs, p \in Runs :
       /\ run[r] \in Executes /\ run[p] \in Executes
       /\ SessionOf(r) = SessionOf(p)
       => r = p
  /\ \A r \in Runs : run[r] # "unused" =>
       /\ SessionOf(r) \in Sessions
       /\ runOf[r].instance \in 1..instance[SessionOf(r)]
       /\ run[r] \in Executes =>
            /\ runOf[r].instance = instance[SessionOf(r)]
            /\ home[SessionOf(r)] \in {"open", "closing"}
  /\ \A s \in Sessions :
       /\ home[s] = "none" => instance[s] = 0 /\ s \notin deleted
       /\ home[s] = "open" => instance[s] > 0
  /\ at = "stable" => home[current] = "open"
  /\ gate \in {"closing", "deleting"} => home[other] # "open"

\* A request is sent by a run of its session that waits for it alone.
AskersOK ==
  /\ \A q \in Asks, p \in Asks :
       ask[q] = "unused" /\ q < p => ask[p] = "unused"
  /\ \A q \in Asks : ask[q] # "unused" =>
       askRun[q] \in Runs /\ run[askRun[q]] \notin {"unused", "attached"}
  /\ \A q \in Asks : ask[q] = "waiting" => run[askRun[q]] = "running"
  /\ \A q \in Asks, p \in Asks :
       ask[q] = "waiting" /\ q < p /\ ask[p] # "unused" =>
         SessionOf(askRun[q]) # SessionOf(askRun[p])
  /\ \A q \in pending : SessionOf(askRun[q]) = current

\* Nothing speaks of a request that was not sent.
SentOK ==
  /\ \A n \in DOMAIN down : down[n].kind = "ask" =>
       down[n].of \in Asks /\ ask[down[n].of] # "unused"
  /\ \A n \in DOMAIN notices : ask[notices[n].of] # "unused"
  /\ popup # NoAsk => ask[popup] # "unused"
  /\ \A q \in pending \cup up : ask[q] # "unused"

\* The order in which requests were sent is the order in which they are
\* handled and shown.
OrderOK ==
  /\ \A m \in DOMAIN down, n \in DOMAIN down :
       m < n /\ down[m].kind = "ask" /\ down[n].kind = "ask" =>
         down[m].of < down[n].of
  /\ \A m \in DOMAIN notices, n \in DOMAIN notices :
       m < n /\ notices[m].kind = "ask" /\ notices[n].kind = "ask" =>
         notices[m].of < notices[n].of
  /\ \A m \in DOMAIN notices, n \in DOMAIN down :
       notices[m].kind = "ask" /\ down[n].kind = "ask" =>
         notices[m].of < down[n].of
  /\ \A n \in DOMAIN notices : notices[n].kind = "ask" => popup < notices[n].of
  /\ \A n \in DOMAIN down : down[n].kind = "ask" => popup < down[n].of

\* An end that is told is the end of a request that is no longer owned.
EndsOK ==
  \A q \in Asks : InNotices("end", q) => q \notin pending /\ ~InDown("ask", q)

\* The end of a run that is still to be told, or on its way.
Outstanding(r) ==
  run[r] \in {"attached", "running", "over", "left"} \/ InDown("done", r)

\* The notifications of a run are sent in order.
DownOK ==
  /\ \A n \in DOMAIN down : down[n].kind # "ask" => down[n].of \in Runs
  /\ \A n \in DOMAIN down : down[n].kind = "started" =>
       run[down[n].of] \notin {"unused", "attached"} /\ Outstanding(down[n].of)
  /\ \A n \in DOMAIN down : down[n].kind = "done" =>
       run[down[n].of] \in {"told", "closed"}
  /\ \A m \in DOMAIN down, n \in DOMAIN down :
       m < n /\ down[m].kind = "done" /\ down[n].kind = "started" =>
         down[m].of # down[n].of

\* What the client knows of the runs of a session is of one instance, the
\* newest it was told of.
InputsOK ==
  /\ \A s \in Sessions :
       /\ inputs[s].instance <= instance[s]
       /\ \A r \in inputs[s].retired : Sends(r, s, inputs[s].instance)
       /\ inputs[s].latest # NoRun =>
            Sends(inputs[s].latest, s, inputs[s].instance)
       /\ home[s] = "open" => \/ inputs[s].instance = instance[s]
                              \/ current = s /\ gate \in {"first", "apply"}
                              \/ other = s /\ gate = "close"
  /\ at = "stable" /\ gate \notin {"first", "apply"} => inputs[current].gen = gen
  /\ active # NoMarker =>
       /\ inputs[current].latest = active.run
       /\ inputs[current].instance = instance[current]

\* A snapshot speaks of the instance that is open.
ReplyOK ==
  gate = "apply" =>
    /\ reply.instance = instance[current]
    /\ reply.run # NoRun =>
         /\ Sends(reply.run, current, reply.instance)
         /\ \/ reply.run \in inputs[current].retired
            \/ reply.run \notin ended /\ Outstanding(reply.run)

\* A run of the session on screen is known once its start has been handled,
\* and retired once its end has been.
KnownOK ==
  \A r \in Runs :
    at = "stable" /\ SessionOf(r) = current =>
      /\ run[r] \in {"running", "over", "told"} /\ ~InDown("started", r) =>
           r = inputs[current].latest \/ r \in inputs[current].retired
      /\ run[r] = "told" /\ ~InDown("done", r) => r \in inputs[current].retired

\* A run whose end was seen is retired, or nothing can name it any more.
Past(r) ==
  /\ run[r] \in {"told", "left", "closed"}
  /\ run[r] = "told" => ~(at = "stable" /\ current = SessionOf(r))
  /\ InDown("started", r) => runOf[r].instance < inputs[SessionOf(r)].instance

\* What was seen to end did.
EndedOK ==
  \A r \in ended :
    /\ run[r] # "unused"
    /\ r \in inputs[SessionOf(r)].retired \/ Past(r)

\* The interface shows the newest run that is known.
ShownOK ==
  shown = "run" =>
    /\ at = "stable"
    /\ inputs[current].instance = instance[current]
    /\ inputs[current].latest # NoRun
    /\ Outstanding(inputs[current].latest)

\* The inductive invariant.
Inv ==
  /\ TypeOK
  /\ RouteOK
  /\ OwnedByOpenPrompt
  /\ HostOK
  /\ GateWaitsForCancelled
  /\ AskersOK
  /\ SentOK
  /\ OrderOK
  /\ EndsOK
  /\ RequestHasOneTaker
  /\ DownOK
  /\ InputsOK
  /\ ReplyOK
  /\ KnownOK
  /\ EndedOK
  /\ NoRevival
  /\ ShownOK

\* Appending adds one element, behind the others.
LEMMA AppendIn ==
  ASSUME NEW T, NEW s \in Seq(T), NEW e \in T
  PROVE  /\ Append(s, e) \in Seq(T)
         /\ \A n \in DOMAIN s : n \in DOMAIN Append(s, e) /\ Append(s, e)[n] = s[n]
         /\ \A n \in DOMAIN Append(s, e) :
              \/ n \in DOMAIN s /\ Append(s, e)[n] = s[n]
              \/ Append(s, e)[n] = e /\ \A m \in DOMAIN s : m < n
         /\ \E n \in DOMAIN Append(s, e) : Append(s, e)[n] = e
<1> DEFINE a == Append(s, e)
<1>1. /\ a \in Seq(T) /\ Len(s) \in Nat /\ DOMAIN s = 1..Len(s)
      /\ DOMAIN a = 1..(Len(s) + 1)
      /\ \A n \in 1..Len(s) : a[n] = s[n]
      /\ a[Len(s) + 1] = e
  OBVIOUS
<1> HIDE DEF a
<1>2. \A n \in 1..(Len(s) + 1) : n \in 1..Len(s) \/ n = Len(s) + 1
  BY <1>1
<1>3. \A m \in 1..Len(s) : m < Len(s) + 1 /\ m \in 1..(Len(s) + 1)
  BY <1>1
<1>4. Len(s) + 1 \in 1..(Len(s) + 1)
  BY <1>1
<1>5. /\ \A n \in DOMAIN s : n \in DOMAIN a /\ a[n] = s[n]
      /\ \E n \in DOMAIN a : a[n] = e
  BY <1>1, <1>3, <1>4
<1>6. \A n \in DOMAIN a :
         \/ n \in DOMAIN s /\ a[n] = s[n]
         \/ a[n] = e /\ \A m \in DOMAIN s : m < n
  BY <1>1, <1>2, <1>3
<1> QED
  BY <1>1, <1>5, <1>6 DEF a

\* The rest of a sequence keeps its elements, one place earlier.
LEMMA TailIn ==
  ASSUME NEW T, NEW s \in Seq(T), s # <<>>
  PROVE  /\ Tail(s) \in Seq(T) /\ Head(s) \in T
         /\ 1 \in DOMAIN s /\ s[1] = Head(s)
         /\ \A n \in DOMAIN Tail(s) :
              n \in Nat /\ n > 0 /\ n + 1 \in DOMAIN s /\ Tail(s)[n] = s[n + 1]
         /\ \A n \in DOMAIN s :
              \/ n = 1
              \/ n - 1 \in DOMAIN Tail(s) /\ Tail(s)[n - 1] = s[n]
<1>1. /\ Tail(s) \in Seq(T) /\ Len(s) \in Nat \ {0} /\ DOMAIN s = 1..Len(s)
      /\ DOMAIN Tail(s) = 1..(Len(s) - 1)
      /\ Head(s) \in T /\ Head(s) = s[1]
      /\ \A n \in 1..(Len(s) - 1) : Tail(s)[n] = s[n + 1]
  OBVIOUS
<1>2. \A n \in 1..(Len(s) - 1) : n \in Nat /\ n > 0 /\ n + 1 \in 1..Len(s)
  BY <1>1
<1>3. \A n \in 1..Len(s) : n = 1 \/ (n - 1 \in 1..(Len(s) - 1) /\ (n - 1) + 1 = n)
  BY <1>1
<1>4. 1 \in 1..Len(s)
  BY <1>1
<1> QED
  BY <1>1, <1>2, <1>3, <1>4

\* A concatenation has the elements of both parts, the first ones in their place.
LEMMA ConcatIn ==
  ASSUME NEW T, NEW s \in Seq(T), NEW t \in Seq(T)
  PROVE  /\ s \o t \in Seq(T)
         /\ \A n \in DOMAIN s : n \in DOMAIN (s \o t) /\ (s \o t)[n] = s[n]
         /\ \A n \in DOMAIN (s \o t) :
              \/ n \in DOMAIN s /\ (s \o t)[n] = s[n]
              \/ \E m \in DOMAIN t : (s \o t)[n] = t[m]
<1>1. /\ s \o t \in Seq(T) /\ Len(s) \in Nat /\ Len(t) \in Nat
      /\ DOMAIN s = 1..Len(s) /\ DOMAIN t = 1..Len(t)
      /\ DOMAIN (s \o t) = 1..(Len(s) + Len(t))
      /\ \A i \in 1..(Len(s) + Len(t)) :
            (s \o t)[i] = IF i <= Len(s) THEN s[i] ELSE t[i - Len(s)]
  BY ConcatProperties, LenProperties
<1>2. \A n \in 1..Len(s) : n \in 1..(Len(s) + Len(t)) /\ n <= Len(s)
  BY <1>1
<1>3. \A n \in 1..(Len(s) + Len(t)) :
         \/ n \in 1..Len(s) /\ n <= Len(s)
         \/ n - Len(s) \in 1..Len(t) /\ ~(n <= Len(s))
  BY <1>1
<1>4. \A n \in DOMAIN s : n \in DOMAIN (s \o t) /\ (s \o t)[n] = s[n]
  BY <1>1, <1>2
<1>5. ASSUME NEW n \in DOMAIN (s \o t)
      PROVE  \/ n \in DOMAIN s /\ (s \o t)[n] = s[n]
             \/ \E m \in DOMAIN t : (s \o t)[n] = t[m]
  <2>1. CASE n \in 1..Len(s) /\ n <= Len(s)
    BY <1>1, <1>4, <2>1
  <2>2. CASE n - Len(s) \in 1..Len(t) /\ ~(n <= Len(s))
    BY <1>1, <1>5, <2>2
  <2> QED
    BY <1>1, <1>3, <1>5, <2>1, <2>2
<1> QED
  BY <1>1, <1>4, <1>5

\* The types, in parts: a step needs only those of what it touches.
HostTypes ==
  /\ home \in [Sessions -> {"none", "open", "closing", "closed"}]
  /\ instance \in [Sessions -> Nat]
  /\ run \in [Runs -> {"unused", "attached", "running", "over", "told",
                       "left", "closed"}]
  /\ runOf \in [Runs -> [session : Sessions \cup {NoSession}, instance : Nat]]
  /\ stopped \subseteq Runs
  /\ ask \in [Asks -> {"unused", "waiting", "answered", "dropped"}]
  /\ askRun \in [Asks -> Runs \cup {NoRun}]

Downs   == [kind : {"started", "done", "ask"}, of : Runs \cup Asks]
Notices == [kind : {"ask", "end"}, of : Asks]
Known   == [instance : Nat, gen : Nat, latest : Runs \cup {NoRun},
            retired : SUBSET Runs]

LinkTypes ==
  /\ down \in Seq(Downs)
  /\ stops \subseteq [session : Sessions, run : Runs \cup {NoRun}]

RouteTypes ==
  /\ at \in {"none", "stable", "moving"}
  /\ current \in Sessions \cup {NoSession}
  /\ gen \in Nat

PromptTypes ==
  /\ epoch \in Nat /\ accepting \in BOOLEAN
  /\ active \in {NoMarker} \cup [session : Sessions, gen : Nat,
                                 epoch : Nat, run : Runs]
  /\ inputs \in [Sessions -> Known]
  /\ shown \in {"idle", "run"} /\ ended \subseteq Runs

ClaimTypes ==
  /\ up \subseteq Asks
  /\ pending \subseteq Asks /\ owner \in [pending -> Marks]
  /\ notices \in Seq(Notices)

GateTypes ==
  /\ deleted \subseteq Sessions
  /\ gate \in {"free", "close", "closing", "open", "first", "poll",
               "apply", "delete", "deleting"}
  /\ other \in Sessions \cup {NoSession}
  /\ reply \in [instance : Nat, run : Runs \cup {NoRun}]
  /\ moves \in 0..MaxMoves

UiTypes == popup \in Asks \cup {NoAsk} /\ replies \subseteq Asks

\* The parts make up the type invariant.
LEMMA TypeParts ==
  TypeOK <=> /\ HostTypes /\ LinkTypes /\ RouteTypes /\ PromptTypes
             /\ ClaimTypes /\ GateTypes /\ UiTypes
BY DEF TypeOK, HostTypes, LinkTypes, RouteTypes, PromptTypes, ClaimTypes,
       GateTypes, UiTypes, Downs, Notices, Known

\* The same, of the next state.
LEMMA TypePartsNext ==
  ASSUME HostTypes', LinkTypes', RouteTypes', PromptTypes', ClaimTypes',
         GateTypes', UiTypes'
  PROVE  TypeOK'
BY DEF TypeOK, HostTypes, LinkTypes, RouteTypes, PromptTypes, ClaimTypes,
       GateTypes, UiTypes, Downs, Notices, Known, pending

\* The ends that are told, in some order.
LEMMA EndsFacts ==
  ASSUME NEW Q \in SUBSET Asks
  PROVE  /\ Ends(Q) \in Seq(Notices)
         /\ \A n \in DOMAIN Ends(Q) : Ends(Q)[n].kind = "end" /\ Ends(Q)[n].of \in Q
<1>1. MaxAsks \in Nat /\ 1 \in Int /\ MaxAsks \in Int /\ Q \in SUBSET (1..MaxAsks)
  BY InteractionAssumption DEF Asks
<1>2. IsFiniteSet(Q) /\ Cardinality(Q) \in Nat
  <2>1. IsFiniteSet(1..MaxAsks)
    BY <1>1, FS_Interval
  <2>2. IsFiniteSet(Q)
    BY <1>1, <2>1, FS_Subset
  <2> QED
    BY <2>2, FS_CardinalityType
<1>3. \A n \in 1..Cardinality(Q) : NthIndex(Q, n) \in Q
  BY <1>1, NthIndexExists
<1>4. \A n \in 1..Cardinality(Q) : Message("end", NthIndex(Q, n)) \in Notices
  BY <1>3 DEF Message, Notices
<1>5. DOMAIN Ends(Q) = 1..Cardinality(Q)
      /\ \A n \in 1..Cardinality(Q) : Ends(Q)[n] = Message("end", NthIndex(Q, n))
  BY DEF Ends
<1>6. Ends(Q) \in [1..Cardinality(Q) -> Notices]
  BY <1>4 DEF Ends
<1>7. Ends(Q) \in Seq(Notices)
  BY <1>2, <1>6
<1> QED
  BY <1>3, <1>5, <1>7 DEF Message

\* Claiming requests: they have no owner any more, are answered, and their end
\* is told behind what was told before.
LEMMA SettleFacts ==
  ASSUME ClaimTypes, NEW Q \in SUBSET pending, Settle(Q)
  PROVE  /\ ClaimTypes'
         /\ pending' = pending \ Q /\ up' = up \cup Q
         /\ \A q \in pending' : owner'[q] = owner[q]
         /\ \A n \in DOMAIN notices :
              n \in DOMAIN notices' /\ notices'[n] = notices[n]
         /\ \A n \in DOMAIN notices' :
              \/ n \in DOMAIN notices /\ notices'[n] = notices[n]
              \/ notices'[n].kind = "end" /\ notices'[n].of \in Q
<1>1. Q \in SUBSET Asks
  BY DEF ClaimTypes
<1>2. /\ Ends(Q) \in Seq(Notices) /\ notices \in Seq(Notices)
      /\ \A n \in DOMAIN Ends(Q) : Ends(Q)[n].kind = "end" /\ Ends(Q)[n].of \in Q
  BY <1>1, EndsFacts DEF ClaimTypes
<1>3. notices' = notices \o Ends(Q)
  BY DEF Settle
<1>4. /\ notices' \in Seq(Notices)
      /\ \A n \in DOMAIN notices :
           n \in DOMAIN notices' /\ notices'[n] = notices[n]
      /\ \A n \in DOMAIN notices' :
           \/ n \in DOMAIN notices /\ notices'[n] = notices[n]
           \/ \E m \in DOMAIN Ends(Q) : notices'[n] = Ends(Q)[m]
  BY <1>2, <1>3, ConcatIn
<1>5. /\ pending' = pending \ Q /\ up' = up \cup Q
      /\ \A q \in pending' : owner'[q] = owner[q]
  BY DEF Settle, Unclaimed, pending
<1>6. up' \subseteq Asks /\ pending' \subseteq Asks
  BY <1>1, <1>5 DEF ClaimTypes
<1>7. owner' \in [pending' -> Marks]
  <2>1. owner' = [q \in pending \ Q |-> owner[q]]
    BY DEF Settle, Unclaimed
  <2>2. \A q \in pending \ Q : owner[q] \in Marks
    BY DEF ClaimTypes
  <2> QED
    BY <1>5, <2>1, <2>2
<1> QED
  BY <1>2, <1>4, <1>5, <1>6, <1>7 DEF ClaimTypes

\* Only pending requests are drained.
LEMMA OwnedPart == Owned \in SUBSET pending
BY DEF Owned

\* What is known of a session stays of its type when it is changed.
LEMMA InputTypes ==
  ASSUME PromptTypes, GateTypes, RouteTypes
  PROVE  /\ \A s \in Sessions : inputs[s] \in Known
         /\ \A k \in Known, r \in Runs : Retire(k, r) \in Known /\
                Supersede(k, r) \in Known
         /\ \A k \in Known, i \in Nat : Bind(k, i) \in Known
<1>1. \A s \in Sessions : inputs[s] \in Known
  BY DEF PromptTypes
<1>2. ASSUME NEW k \in Known, NEW r \in Runs
      PROVE  Retire(k, r) \in Known /\ Supersede(k, r) \in Known
  BY DEF Known, Retire, Supersede, NoRun
<1>3. ASSUME NEW k \in Known, NEW i \in Nat
      PROVE  Bind(k, i) \in Known
  BY DEF Known, Bind, Unbound, RouteTypes, NoRun
<1> QED
  BY <1>1, <1>2, <1>3

\* Opening a run keeps the types.
LEMMA OpenTypes ==
  ASSUME PromptTypes, ClaimTypes, RouteTypes, GateTypes,
         NEW k \in Known, NEW s \in Sessions, NEW i, NEW r \in Runs,
         Open(k, s, i, r)
  PROVE  PromptTypes' /\ ClaimTypes'
<1>1. CASE MayOpen(k, s, i, r)
  <2>1. /\ Settle(Owned)
        /\ inputs' = [inputs EXCEPT ![s] = Supersede(k, r)]
        /\ ended' = ended \cup ({active.run, k.latest} \ {NoRun, r})
        /\ active' = [session |-> s, gen |-> gen, epoch |-> epoch + 1, run |-> r]
        /\ epoch' = epoch + 1 /\ accepting' = TRUE /\ shown' = "run"
    BY <1>1 DEF Open
  <2>2. ClaimTypes'
    BY <2>1, OwnedPart, SettleFacts
  <2>3. Supersede(k, r) \in Known
    BY InputTypes
  <2>4. inputs' \in [Sessions -> Known]
    BY <2>1, <2>3 DEF PromptTypes
  <2>5. active.run \in Runs \cup {NoRun} /\ k.latest \in Runs \cup {NoRun}
    BY DEF PromptTypes, Known, NoMarker
  <2>6. ended' \subseteq Runs
    BY <2>1, <2>5 DEF PromptTypes
  <2>7. epoch' \in Nat /\ gen \in Nat
    BY <2>1 DEF PromptTypes, RouteTypes
  <2> QED
    BY <2>1, <2>2, <2>4, <2>6, <2>7 DEF PromptTypes
<1>2. CASE ~MayOpen(k, s, i, r)
  <2>1. /\ inputs' = [inputs EXCEPT ![s] = k]
        /\ UNCHANGED <<up, claimVars, epoch, accepting, active, ended, shown>>
    BY <1>2 DEF Open
  <2>2. inputs' \in [Sessions -> Known]
    BY <2>1 DEF PromptTypes
  <2> QED
    BY <2>1, <2>2 DEF PromptTypes, ClaimTypes, claimVars, pending
<1> QED
  BY <1>1, <1>2

\* What the pump handles, with its run or its request as a constant.
LEMMA HeadRun ==
  ASSUME LinkTypes, HostTypes, DownOK, HostOK, down # <<>>,
         Head(down).kind \in {"started", "done"}
  PROVE  \E r \in Runs :
           /\ Head(down) = Message(Head(down).kind, r)
           /\ run[r] # "unused" /\ SessionOf(r) \in Sessions
           /\ runOf[r].instance \in 1..instance[SessionOf(r)]
<1>1. Head(down) \in Downs /\ 1 \in DOMAIN down /\ down[1] = Head(down)
  BY TailIn DEF LinkTypes
<1>2. Head(down).of \in Runs
  BY <1>1 DEF DownOK
<1>3. run[Head(down).of] # "unused"
  BY <1>1 DEF DownOK
<1>4. Head(down) = Message(Head(down).kind, Head(down).of)
  BY <1>1 DEF Downs, Message
<1> QED
  BY <1>2, <1>3, <1>4 DEF HostOK

\* The pump meets the start of a run.
LEMMA PumpStartedIs ==
  ASSUME LinkTypes, HostTypes, DownOK, HostOK, PumpStarted
  PROVE  \E r \in Runs, s \in Sessions, i \in Nat :
           /\ down # <<>> /\ Head(down) = Message("started", r)
           /\ run[r] # "unused" /\ s = SessionOf(r) /\ i = runOf[r].instance
           /\ i \in 1..instance[s]
           /\ Open(inputs[s], s, i, r)
<1>1. down # <<>> /\ Head(down).kind = "started"
  BY DEF PumpStarted, Pump
<1>2. PICK r \in Runs : /\ Head(down) = Message("started", r)
                        /\ run[r] # "unused" /\ SessionOf(r) \in Sessions
                        /\ runOf[r].instance \in 1..instance[SessionOf(r)]
  BY <1>1, HeadRun
<1>3. Head(down).of = r
  BY <1>2 DEF Message
<1>4. Open(inputs[SessionOf(r)], SessionOf(r), runOf[r].instance, r)
  BY <1>3 DEF PumpStarted
<1>5. runOf[r].instance \in Nat
  BY <1>2 DEF HostTypes
<1> QED
  BY <1>1, <1>2, <1>4, <1>5

\* The end of a run that is passed on.
Forwards(s, r) ==
  /\ ShouldForward(s, r)
  /\ inputs' = [inputs EXCEPT ![s] = Retire(@, r)]
  /\ ended' = ended \cup {r}
  /\ IF active.session = s /\ active.run = r
     THEN CloseActive
     ELSE UNCHANGED <<active, accepting, up, claimVars>>
  /\ shown' = IF /\ s \notin deleted
                 /\ at = "stable" /\ current = s
              THEN "idle" ELSE shown

\* The pump meets the end of a run.
LEMMA PumpDoneIs ==
  ASSUME LinkTypes, HostTypes, DownOK, HostOK, PumpDone
  PROVE  \E r \in Runs, s \in Sessions :
           /\ down # <<>> /\ Head(down) = Message("done", r)
           /\ run[r] # "unused" /\ s = SessionOf(r)
           /\ \/ Forwards(s, r)
              \/ ~ShouldForward(s, r) /\ UNCHANGED <<inputs, ended, active,
                     accepting, shown, up, claimVars>>
<1>1. down # <<>> /\ Head(down).kind = "done"
  BY DEF PumpDone, Pump
<1>2. PICK r \in Runs : /\ Head(down) = Message("done", r)
                        /\ run[r] # "unused" /\ SessionOf(r) \in Sessions
  BY <1>1, HeadRun
<1>3. Head(down).of = r
  BY <1>2 DEF Message
<1>4. PICK s \in Sessions : s = SessionOf(r)
  BY <1>2
<1>5. \/ Forwards(s, r)
      \/ ~ShouldForward(s, r) /\ UNCHANGED <<inputs, ended, active, accepting,
             shown, up, claimVars>>
  BY <1>3, <1>4 DEF PumpDone, Forwards
<1> QED
  BY <1>1, <1>2, <1>4, <1>5

\* A request that is given an owner.
Registers(s, q) ==
  /\ s \notin deleted /\ at = "stable" /\ current = s /\ accepting
  /\ owner' = [p \in pending \cup {q} |->
                 IF p = q THEN [session |-> s, gen |-> gen, epoch |-> epoch]
                 ELSE owner[p]]
  /\ notices' = Append(notices, Message("ask", q))
  /\ UNCHANGED up

\* The pump meets a request.
LEMMA PumpAskIs ==
  ASSUME LinkTypes, SentOK, PumpAsk
  PROVE  \E q \in Asks :
           /\ down # <<>> /\ Head(down) = Message("ask", q)
           /\ 1 \in DOMAIN down /\ down[1] = Head(down)
           /\ ask[q] # "unused"
           /\ \/ Registers(SessionOf(askRun[q]), q)
              \/ up' = up \cup {q} /\ UNCHANGED claimVars
<1>1. down # <<>> /\ Head(down).kind = "ask"
  BY DEF PumpAsk, Pump
<1>2. Head(down) \in Downs /\ 1 \in DOMAIN down /\ down[1] = Head(down)
  BY <1>1, TailIn DEF LinkTypes
<1>3. PICK q \in Asks : Head(down).of = q
  BY <1>1, <1>2 DEF SentOK
<1>4. Head(down) = Message("ask", q)
  BY <1>1, <1>2, <1>3 DEF Downs, Message
<1>5. ask[q] # "unused"
  BY <1>1, <1>2, <1>3 DEF SentOK
<1>6. \/ Registers(SessionOf(askRun[q]), q)
      \/ up' = up \cup {q} /\ UNCHANGED claimVars
  BY <1>3 DEF PumpAsk, Registers
<1> QED
  BY <1>1, <1>2, <1>4, <1>5, <1>6

ClientTypes == RouteTypes /\ PromptTypes /\ GateTypes /\ UiTypes

\* A step that leaves the client alone keeps its types.
LEMMA ClientKept ==
  ASSUME ClientTypes, UNCHANGED clientVars
  PROVE  ClientTypes'
BY DEF ClientTypes, clientVars, routeVars, promptVars, claimVars, gateVars,
       uiVars, RouteTypes, PromptTypes, GateTypes, UiTypes

\* So does one that claims nothing.
LEMMA ClaimsKept ==
  ASSUME ClaimTypes, UNCHANGED <<up, owner, notices>>
  PROVE  ClaimTypes'
BY DEF ClaimTypes, pending

\* What the host sends is a notification.
LEMMA Sent ==
  ASSUME LinkTypes, NEW kind \in {"started", "done", "ask"},
         NEW i \in Runs \cup Asks, down' = Append(down, Message(kind, i))
  PROVE  down' \in Seq(Downs)
<1>1. Message(kind, i) \in Downs
  BY DEF Message, Downs
<1>2. down \in Seq(Downs)
  BY DEF LinkTypes
<1> QED
  BY <1>1, <1>2, AppendIn

\* What is left behind a notification is a sequence of them.
LEMMA Handled ==
  ASSUME LinkTypes, NEW kind, Pump(kind)
  PROVE  down' \in Seq(Downs)
<1>1. down \in Seq(Downs) /\ down # <<>> /\ down' = Tail(down)
  BY DEF LinkTypes, Pump
<1> QED
  BY <1>1, TailIn

\* The host keeps the types.
LEMMA HostTypeStep ==
  ASSUME HostTypes, LinkTypes, RouteTypes, PromptTypes, ClaimTypes, GateTypes,
         UiTypes,
         \/ \E r \in Runs : Attach(r) \/ Announce(r) \/ Finish(r) \/ Tell(r)
                             \/ Detach(r)
         \/ \E r \in Runs, q \in Asks : Ask(r, q)
         \/ \E q \in Asks : Expire(q) \/ Dispatch(q)
         \/ \E m \in stops : Cancel(m)
  PROVE  TypeOK'
<1> USE DEF clientVars, claimVars
<1>0. ASSUME UNCHANGED clientVars PROVE ClientTypes'
  BY <1>0, ClientKept DEF ClientTypes
<1>a. ASSUME UNCHANGED clientVars, up' \subseteq Asks PROVE ClaimTypes'
  BY <1>a DEF ClaimTypes, pending
<1>b. ASSUME HostTypes', LinkTypes', UNCHANGED clientVars, up' \subseteq Asks
      PROVE  TypeOK'
  BY <1>0, <1>a, <1>b, TypePartsNext DEF ClientTypes
<1>1. ASSUME NEW r \in Runs, Attach(r) PROVE TypeOK'
  <2>1. HostTypes'
    BY <1>1 DEF HostTypes, Attach
  <2>2. LinkTypes'
    BY <1>1 DEF LinkTypes, Attach
  <2>3. up' \subseteq Asks /\ UNCHANGED clientVars
    BY <1>1 DEF ClaimTypes, Attach
  <2> QED
    BY <2>1, <2>2, <2>3, <1>b
<1>2. ASSUME NEW r \in Runs, Announce(r) PROVE TypeOK'
  <2>1. HostTypes'
    BY <1>2 DEF HostTypes, Announce
  <2>a. down' \in Seq(Downs) /\ stops' = stops
    BY <1>2, Sent DEF Announce
  <2>2. LinkTypes'
    BY <2>a DEF LinkTypes
  <2>3. up' \subseteq Asks /\ UNCHANGED clientVars
    BY <1>2 DEF ClaimTypes, Announce
  <2> QED
    BY <2>1, <2>2, <2>3, <1>b
<1>3. ASSUME NEW r \in Runs, Finish(r) PROVE TypeOK'
  <2>1. HostTypes'
    BY <1>3 DEF HostTypes, Finish, Waiting
  <2>2. LinkTypes'
    BY <1>3 DEF LinkTypes, Finish
  <2>3. up' \subseteq Asks /\ UNCHANGED clientVars
    BY <1>3 DEF ClaimTypes, Finish
  <2> QED
    BY <2>1, <2>2, <2>3, <1>b
<1>4. ASSUME NEW r \in Runs, Tell(r) PROVE TypeOK'
  <2>1. HostTypes'
    BY <1>4 DEF HostTypes, Tell
  <2>a. down' \in Seq(Downs) /\ stops' = stops
    BY <1>4, Sent DEF Tell
  <2>2. LinkTypes'
    BY <2>a DEF LinkTypes
  <2>3. up' \subseteq Asks /\ UNCHANGED clientVars
    BY <1>4 DEF ClaimTypes, Tell
  <2> QED
    BY <2>1, <2>2, <2>3, <1>b
<1>5. ASSUME NEW r \in Runs, Detach(r) PROVE TypeOK'
  <2>1. HostTypes'
    BY <1>5 DEF HostTypes, Detach
  <2>2. LinkTypes'
    BY <1>5 DEF LinkTypes, Detach
  <2>3. up' \subseteq Asks /\ UNCHANGED clientVars
    BY <1>5 DEF ClaimTypes, Detach
  <2> QED
    BY <2>1, <2>2, <2>3, <1>b
<1>6. ASSUME NEW r \in Runs, NEW q \in Asks, Ask(r, q) PROVE TypeOK'
  <2>1. HostTypes'
    BY <1>6 DEF HostTypes, Ask, NoRun
  <2>a. down' \in Seq(Downs) /\ stops' = stops
    BY <1>6, Sent DEF Ask
  <2>2. LinkTypes'
    BY <2>a DEF LinkTypes
  <2>3. up' \subseteq Asks /\ UNCHANGED clientVars
    BY <1>6 DEF ClaimTypes, Ask
  <2> QED
    BY <2>1, <2>2, <2>3, <1>b
<1>7. ASSUME NEW q \in Asks, Expire(q) PROVE TypeOK'
  <2>1. HostTypes'
    BY <1>7 DEF HostTypes, Expire
  <2>2. LinkTypes'
    BY <1>7 DEF LinkTypes, Expire
  <2>3. up' \subseteq Asks /\ UNCHANGED clientVars
    BY <1>7 DEF ClaimTypes, Expire
  <2> QED
    BY <2>1, <2>2, <2>3, <1>b
<1>8. ASSUME NEW q \in Asks, Dispatch(q) PROVE TypeOK'
  <2>1. HostTypes'
    BY <1>8 DEF HostTypes, Dispatch
  <2>2. LinkTypes'
    BY <1>8 DEF LinkTypes, Dispatch
  <2>3. up' \subseteq Asks /\ UNCHANGED clientVars
    BY <1>8 DEF ClaimTypes, Dispatch
  <2> QED
    BY <2>1, <2>2, <2>3, <1>b
<1>9. ASSUME NEW m \in stops, Cancel(m) PROVE TypeOK'
  <2>1. HostTypes'
    BY <1>9 DEF HostTypes, Cancel, Executing
  <2>2. LinkTypes'
    BY <1>9 DEF LinkTypes, Cancel
  <2>3. up' \subseteq Asks /\ UNCHANGED clientVars
    BY <1>9 DEF ClaimTypes, Cancel
  <2> QED
    BY <2>1, <2>2, <2>3, <1>b
<1> QED
  BY <1>1, <1>2, <1>3, <1>4, <1>5, <1>6, <1>7, <1>8, <1>9

\* Closing the active prompt keeps the types.
LEMMA CloseActiveTypes ==
  ASSUME PromptTypes, ClaimTypes, CloseActive
  PROVE  active' = NoMarker /\ accepting' \in BOOLEAN /\ ClaimTypes'
<1>1. Settle(Owned) /\ active' = NoMarker
  BY DEF CloseActive
<1>2. ClaimTypes'
  BY <1>1, OwnedPart, SettleFacts
<1>3. accepting' \in BOOLEAN
  BY DEF CloseActive, PromptTypes
<1> QED
  BY <1>1, <1>2, <1>3

\* So does the beginning of a transition.
LEMMA BeginTypes ==
  ASSUME RouteTypes, PromptTypes, ClaimTypes, UiTypes,
         NEW target \in Sessions \cup {NoSession}, BeginTransition(target)
  PROVE  RouteTypes' /\ PromptTypes' /\ ClaimTypes' /\ UiTypes' /\ pending' = {}
<1>1. Settle(pending) /\ pending \in SUBSET pending
  BY DEF BeginTransition
<1>2. ClaimTypes' /\ pending' = {}
  BY <1>1, SettleFacts
<1>3. RouteTypes'
  BY DEF BeginTransition, RouteTypes
<1>4. PromptTypes'
  BY DEF BeginTransition, PromptTypes
<1>5. UiTypes'
  BY DEF BeginTransition, UiTypes
<1> QED
  BY <1>2, <1>3, <1>4, <1>5

\* So does one that fails.
LEMMA FailTypes ==
  ASSUME RouteTypes, PromptTypes, ClaimTypes, UiTypes, FailTransition
  PROVE  /\ RouteTypes' /\ PromptTypes' /\ ClaimTypes' /\ UiTypes' /\ pending' = {}
         /\ gate' = "free" /\ other' = NoSession /\ reply' = reply
<1>1. owner' = <<>> /\ notices' = notices /\ up' = up
  BY DEF FailTransition
<1>2. pending' = {}
  BY <1>1 DEF pending
<1>3. ClaimTypes'
  BY <1>1, <1>2 DEF ClaimTypes
<1>4. RouteTypes'
  BY DEF FailTransition, RouteTypes
<1>5. PromptTypes'
  BY DEF FailTransition, PromptTypes
<1>6. UiTypes'
  BY DEF FailTransition, UiTypes
<1> QED
  BY <1>2, <1>3, <1>4, <1>5, <1>6 DEF FailTransition

\* So does what the pump handles.
LEMMA PumpTypeStep ==
  ASSUME HostTypes, LinkTypes, RouteTypes, PromptTypes, ClaimTypes, GateTypes,
         UiTypes, DownOK, HostOK, SentOK, RouteOK,
         PumpStarted \/ PumpDone \/ PumpAsk
  PROVE  TypeOK'
<1> USE DEF hostVars, routeVars, gateVars, uiVars
<1>0. ASSUME NEW kind, Pump(kind)
      PROVE  HostTypes' /\ LinkTypes' /\ RouteTypes' /\ GateTypes' /\ UiTypes'
  <2>1. HostTypes' /\ RouteTypes' /\ GateTypes' /\ UiTypes' /\ stops' = stops
    BY <1>0 DEF Pump, HostTypes, RouteTypes, GateTypes, UiTypes
  <2>2. down' \in Seq(Downs)
    BY <1>0, Handled
  <2> QED
    BY <2>1, <2>2 DEF LinkTypes
<1>1. CASE PumpStarted
  <2>1. Pump("started")
    BY <1>1 DEF PumpStarted
  <2>2. PICK r \in Runs, s \in Sessions, i \in Nat : Open(inputs[s], s, i, r)
    BY <1>1, PumpStartedIs
  <2>3. inputs[s] \in Known
    BY InputTypes
  <2>4. PromptTypes' /\ ClaimTypes'
    BY <2>2, <2>3, OpenTypes
  <2> QED
    BY <1>0, <2>1, <2>4, TypePartsNext
<1>2. CASE PumpDone
  <2>1. Pump("done") /\ epoch' = epoch
    BY <1>2 DEF PumpDone
  <2>2. PICK r \in Runs, s \in Sessions :
           \/ Forwards(s, r)
           \/ UNCHANGED <<inputs, ended, active, accepting, shown, up, claimVars>>
    BY <1>2, PumpDoneIs
  <2>3. CASE Forwards(s, r)
    <3>1. Retire(inputs[s], r) \in Known
      BY InputTypes
    <3>2. inputs' \in [Sessions -> Known] /\ ended' \subseteq Runs
      BY <2>3, <3>1 DEF Forwards, PromptTypes
    <3>3. shown' \in {"idle", "run"}
      BY <2>3 DEF Forwards, PromptTypes
    <3>4. CASE CloseActive
      <4>1. active' = NoMarker /\ accepting' \in BOOLEAN /\ ClaimTypes'
        BY <3>4, CloseActiveTypes
      <4>2. PromptTypes'
        BY <2>1, <3>2, <3>3, <4>1 DEF PromptTypes
      <4> QED
        BY <1>0, <2>1, <4>1, <4>2, TypePartsNext
    <3>5. CASE UNCHANGED <<active, accepting, up, claimVars>>
      <4>1. PromptTypes'
        BY <2>1, <3>2, <3>3, <3>5 DEF PromptTypes
      <4>2. ClaimTypes'
        BY <3>5, ClaimsKept DEF claimVars
      <4> QED
        BY <1>0, <2>1, <4>1, <4>2, TypePartsNext
    <3> QED
      BY <2>3, <3>4, <3>5 DEF Forwards
  <2>4. CASE UNCHANGED <<inputs, ended, active, accepting, shown, up, claimVars>>
    <3>1. PromptTypes'
      BY <2>1, <2>4 DEF PromptTypes
    <3>2. ClaimTypes'
      BY <2>4, ClaimsKept DEF claimVars
    <3> QED
      BY <1>0, <2>1, <3>1, <3>2, TypePartsNext
  <2> QED
    BY <2>2, <2>3, <2>4
<1>3. CASE PumpAsk
  <2>1. Pump("ask") /\ PromptTypes'
    BY <1>3 DEF PumpAsk, PromptTypes, promptVars
  <2>2. PICK q \in Asks :
           \/ Registers(SessionOf(askRun[q]), q)
           \/ up' = up \cup {q} /\ UNCHANGED claimVars
    BY <1>3, PumpAskIs
  <2>3. CASE Registers(SessionOf(askRun[q]), q)
    <3>1. PICK s : s = SessionOf(askRun[q])
      OBVIOUS
    <3>2. /\ at = "stable" /\ current = s /\ up' = up
          /\ notices' = Append(notices, Message("ask", q))
          /\ owner' = [p \in pending \cup {q} |->
                         IF p = q THEN [session |-> s, gen |-> gen, epoch |-> epoch]
                         ELSE owner[p]]
      BY <2>3, <3>1 DEF Registers
    <3>3. s \in Sessions
      BY <3>2 DEF RouteOK
    <3>4. [session |-> s, gen |-> gen, epoch |-> epoch] \in Marks
      BY <3>3 DEF Marks, RouteTypes, PromptTypes
    <3>5. pending' = pending \cup {q}
      BY <3>2 DEF pending
    <3>6. owner' \in [pending' -> Marks]
      BY <3>2, <3>4, <3>5 DEF ClaimTypes
    <3>7. Message("ask", q) \in Notices /\ notices \in Seq(Notices)
      BY DEF Message, Notices, ClaimTypes
    <3>8. notices' \in Seq(Notices)
      BY <3>2, <3>7, AppendIn
    <3>9. ClaimTypes'
      BY <3>2, <3>5, <3>6, <3>8 DEF ClaimTypes
    <3> QED
      BY <1>0, <2>1, <3>9, TypePartsNext
  <2>4. CASE up' = up \cup {q} /\ UNCHANGED claimVars
    <3>1. ClaimTypes'
      BY <2>4 DEF ClaimTypes, claimVars, pending
    <3> QED
      BY <1>0, <2>1, <3>1, TypePartsNext
  <2> QED
    BY <2>2, <2>3, <2>4
<1> QED
  BY <1>1, <1>2, <1>3

\* The interface and the user.
LEMMA UiTypeStep ==
  ASSUME HostTypes, LinkTypes, RouteTypes, PromptTypes, ClaimTypes, GateTypes,
         UiTypes,
         ShowAsk \/ ShowEnd \/ UserAnswers \/ \E q \in Asks : RespondInteraction(q)
  PROVE  TypeOK'
<1> USE DEF hostVars, routeVars, promptVars, claimVars, gateVars, uiVars
<1>0. ASSUME NEW kind, Notice(kind)
      PROVE  /\ HostTypes' /\ LinkTypes' /\ RouteTypes' /\ PromptTypes' /\
                    GateTypes'
             /\ ClaimTypes' /\ Head(notices) \in Notices /\ replies' = replies
  <2>1. notices \in Seq(Notices) /\ notices # <<>> /\ notices' = Tail(notices)
    BY <1>0 DEF Notice, ClaimTypes
  <2>2. notices' \in Seq(Notices) /\ Head(notices) \in Notices
    BY <2>1, TailIn
  <2>3. up' = up /\ owner' = owner
    BY <1>0 DEF Notice
  <2>4. ClaimTypes'
    BY <2>2, <2>3 DEF ClaimTypes, pending
  <2>5. HostTypes' /\ LinkTypes' /\ RouteTypes' /\ PromptTypes' /\ GateTypes'
    BY <1>0 DEF Notice, HostTypes, LinkTypes, RouteTypes, PromptTypes, GateTypes
  <2> QED
    BY <2>2, <2>4, <2>5, <1>0 DEF Notice
<1>1. CASE ShowAsk
  <2>1. Notice("ask") /\ UiTypes'
    BY <1>1, <1>0 DEF ShowAsk, UiTypes, Notices
  <2> QED
    BY <2>1, <1>0, TypePartsNext
<1>2. CASE ShowEnd
  <2>1. Notice("end") /\ UiTypes'
    BY <1>2, <1>0 DEF ShowEnd, UiTypes, Notices
  <2> QED
    BY <2>1, <1>0, TypePartsNext
<1>3. CASE UserAnswers
  <2>1. HostTypes' /\ LinkTypes' /\ RouteTypes' /\ PromptTypes' /\ GateTypes'
    BY <1>3 DEF UserAnswers, HostTypes, LinkTypes, RouteTypes, PromptTypes,
       GateTypes
  <2>2. ClaimTypes'
    BY <1>3, ClaimsKept DEF UserAnswers
  <2>3. UiTypes'
    BY <1>3 DEF UserAnswers, UiTypes
  <2> QED
    BY <2>1, <2>2, <2>3, TypePartsNext
<1>4. ASSUME NEW q \in Asks, RespondInteraction(q) PROVE TypeOK'
  <2>1. HostTypes' /\ LinkTypes' /\ RouteTypes' /\ PromptTypes' /\ GateTypes'
    BY <1>4 DEF RespondInteraction, HostTypes, LinkTypes, RouteTypes,
       PromptTypes, GateTypes
  <2>2. Settle({q} \cap pending) /\ {q} \cap pending \in SUBSET pending
    BY <1>4 DEF RespondInteraction
  <2>3. ClaimTypes'
    BY <2>2, SettleFacts
  <2>4. UiTypes'
    BY <1>4 DEF RespondInteraction, UiTypes
  <2> QED
    BY <2>1, <2>3, <2>4, TypePartsNext
<1> QED
  BY <1>1, <1>2, <1>3, <1>4

\* The operations that disturb a run.
LEMMA OperationTypeStep ==
  ASSUME HostTypes, LinkTypes, RouteTypes, PromptTypes, ClaimTypes, GateTypes,
         UiTypes, RouteOK,
         \/ Stop \/ NewSession \/ Poll
         \/ \E s \in Sessions : LoadSession(s) \/ DeleteSession(s)
  PROVE  TypeOK'
<1> USE DEF hostVars, routeVars, promptVars, claimVars, gateVars, uiVars
<1>0. ASSUME Disturb
      PROVE  /\ HostTypes' /\ down' = down /\ moves' \in 0..MaxMoves
             /\ deleted' = deleted /\ reply' = reply
  <2>1. HostTypes' /\ down' = down /\ deleted' = deleted /\ reply' = reply
    BY <1>0 DEF Disturb, HostTypes
  <2>2. moves \in 0..MaxMoves /\ MaxMoves \in Nat /\ moves < MaxMoves /\
            moves' = moves + 1
    BY <1>0, InteractionAssumption DEF Disturb, GateTypes
  <2>3. moves' \in 0..MaxMoves
    BY <2>2
  <2> QED
    BY <2>1, <2>3
<1>1. CASE Stop
  <2>1. /\ Disturb /\ at = "stable" /\ UNCHANGED <<routeVars, epoch, shown,
               gate, other, uiVars>>
        /\ stops' = stops \cup {[session |-> current, run |-> active.run]}
    BY <1>1 DEF Stop
  <2>2. current \in Sessions /\ active.run \in Runs \cup {NoRun}
    BY <2>1 DEF RouteOK, PromptTypes, NoMarker
  <2>3. LinkTypes'
    BY <1>0, <2>1, <2>2 DEF LinkTypes
  <2>4. RouteTypes' /\ GateTypes' /\ UiTypes'
    BY <1>0, <2>1 DEF RouteTypes, GateTypes, UiTypes
  <2>5. CASE active = NoMarker
    <3>1. UNCHANGED <<active, accepting, inputs, ended, up, claimVars>>
      BY <1>1, <2>5 DEF Stop
    <3>2. PromptTypes'
      BY <2>1, <3>1 DEF PromptTypes
    <3>3. ClaimTypes'
      BY <3>1, ClaimsKept
    <3> QED
      BY <1>0, <2>1, <2>3, <2>4, <3>2, <3>3, TypePartsNext
  <2>6. CASE active # NoMarker
    <3>1. /\ CloseActive
          /\ inputs' = [inputs EXCEPT ![active.session] = Retire(@, active.run)]
          /\ ended' = ended \cup {active.run}
      BY <1>1, <2>6 DEF Stop
    <3>2. active.session \in Sessions /\ active.run \in Runs
      BY <2>6 DEF PromptTypes
    <3>3. Retire(inputs[active.session], active.run) \in Known
      BY <3>2, InputTypes
    <3>4. inputs' \in [Sessions -> Known] /\ ended' \subseteq Runs
      BY <3>1, <3>2, <3>3 DEF PromptTypes
    <3>5. active' = NoMarker /\ accepting' \in BOOLEAN /\ ClaimTypes'
      BY <3>1, CloseActiveTypes
    <3>6. PromptTypes'
      BY <2>1, <3>4, <3>5 DEF PromptTypes
    <3> QED
      BY <1>0, <2>1, <2>3, <2>4, <3>5, <3>6, TypePartsNext
  <2> QED
    BY <2>5, <2>6
<1>2. ASSUME NEW target \in Sessions \cup {NoSession}, Move(target) PROVE TypeOK'
  <2>1. /\ Disturb /\ BeginTransition(target) /\ other' = current /\ stops' = stops
        /\ gate' \in {"open", "close"}
    BY <1>2 DEF Move
  <2>2. RouteTypes' /\ PromptTypes' /\ ClaimTypes' /\ UiTypes'
    BY <2>1, BeginTypes
  <2>3. GateTypes'
    BY <1>0, <2>1 DEF GateTypes, RouteTypes
  <2>4. LinkTypes'
    BY <1>0, <2>1 DEF LinkTypes
  <2> QED
    BY <1>0, <2>1, <2>2, <2>3, <2>4, TypePartsNext
<1>3. CASE NewSession
  BY <1>2, <1>3 DEF NewSession
<1>4. ASSUME NEW s \in Sessions, LoadSession(s) PROVE TypeOK'
  BY <1>2, <1>4 DEF LoadSession
<1>5. ASSUME NEW s \in Sessions, DeleteSession(s) PROVE TypeOK'
  <2>1. /\ Disturb /\ gate' = "delete" /\ other' = s /\ stops' = stops
    BY <1>5 DEF DeleteSession
  <2>2. GateTypes' /\ LinkTypes'
    BY <1>0, <2>1 DEF GateTypes, LinkTypes
  <2>3. CASE BeginTransition(NoSession)
    <3>1. RouteTypes' /\ PromptTypes' /\ ClaimTypes' /\ UiTypes'
      BY <2>3, BeginTypes
    <3> QED
      BY <1>0, <2>1, <2>2, <3>1, TypePartsNext
  <2>4. CASE UNCHANGED <<up, routeVars, promptVars, claimVars, uiVars>>
    <3>1. RouteTypes' /\ PromptTypes' /\ UiTypes'
      BY <2>4 DEF RouteTypes, PromptTypes, UiTypes
    <3>2. ClaimTypes'
      BY <2>4, ClaimsKept
    <3> QED
      BY <1>0, <2>1, <2>2, <3>1, <3>2, TypePartsNext
  <2> QED
    BY <1>5, <2>3, <2>4 DEF DeleteSession
<1>6. CASE Poll
  <2>1. /\ Disturb /\ gate' = "poll"
        /\ UNCHANGED <<up, stops, routeVars, promptVars, claimVars, other, uiVars>>
    BY <1>6 DEF Poll
  <2>2. GateTypes' /\ LinkTypes' /\ RouteTypes' /\ PromptTypes' /\ UiTypes'
    BY <1>0, <2>1 DEF GateTypes, LinkTypes, RouteTypes, PromptTypes, UiTypes
  <2>3. ClaimTypes'
    BY <2>1, ClaimsKept
  <2> QED
    BY <1>0, <2>1, <2>2, <2>3, TypePartsNext
<1> QED
  BY <1>1, <1>3, <1>4, <1>5, <1>6

\* What the holder of the gate waits for.
LEMMA GateTypeStep ==
  ASSUME HostTypes, LinkTypes, RouteTypes, PromptTypes, ClaimTypes, GateTypes,
         UiTypes, RouteOK, ReplyOK,
         \/ PreClose \/ Closed \/ Deleted \/ Opened \/ Refused
         \/ SnapshotRead \/ SnapshotApplied \/ SnapshotFailed
  PROVE  TypeOK'
<1> USE DEF hostVars, routeVars, promptVars, claimVars, gateVars, uiVars
<1>0. ASSUME UNCHANGED <<up, routeVars, promptVars, claimVars, uiVars>>
      PROVE  RouteTypes' /\ PromptTypes' /\ UiTypes' /\ ClaimTypes'
  <2>1. RouteTypes' /\ PromptTypes' /\ UiTypes'
    BY <1>0 DEF RouteTypes, PromptTypes, UiTypes
  <2>2. ClaimTypes'
    BY <1>0, ClaimsKept
  <2> QED
    BY <2>1, <2>2
<1>a. ASSUME down' = down, stops' = stops PROVE LinkTypes'
  BY <1>a DEF LinkTypes
<1>1. CASE PreClose
  <2>1. /\ gate' \in {"closing", "deleting"} /\ home' = Frozen(other)
        /\ stopped' = stopped \cup Executing(other)
        /\ UNCHANGED <<instance, run, runOf, ask, askRun>>
    BY <1>1 DEF PreClose
  <2>2. HostTypes'
    BY <2>1 DEF HostTypes, Frozen, Executing
  <2>3. UNCHANGED <<up, routeVars, promptVars, claimVars, uiVars>> /\ LinkTypes'
    BY <1>1, <1>a DEF PreClose
  <2>4. GateTypes'
    BY <1>1, <2>1 DEF PreClose, GateTypes
  <2> QED
    BY <1>0, <2>2, <2>3, <2>4, TypePartsNext
<1>2. CASE Closed
  <2>1. /\ home' = [home EXCEPT ![other] = "closed"]
        /\ UNCHANGED <<instance, run, runOf, stopped, ask, askRun>>
    BY <1>2 DEF Closed
  <2>2. HostTypes'
    BY <2>1 DEF HostTypes
  <2>3. UNCHANGED <<up, routeVars, promptVars, claimVars, uiVars>> /\ LinkTypes'
    BY <1>2, <1>a DEF Closed
  <2>4. GateTypes'
    BY <1>2 DEF Closed, GateTypes
  <2> QED
    BY <1>0, <2>2, <2>3, <2>4, TypePartsNext
<1>3. CASE Deleted
  <2>1. /\ home' = [home EXCEPT ![other] = "closed"]
        /\ UNCHANGED <<instance, run, runOf, stopped, ask, askRun>>
        /\ deleted' = deleted \cup {other} /\ moves' = moves
        /\ other \in Sessions
    BY <1>3 DEF Deleted, RouteOK
  <2>2. HostTypes'
    BY <2>1 DEF HostTypes
  <2>3. LinkTypes'
    BY <1>3, <1>a DEF Deleted
  <2>4. CASE FailTransition
    <3>1. /\ RouteTypes' /\ PromptTypes' /\ ClaimTypes' /\ UiTypes'
          /\ gate' = "free" /\ other' = NoSession /\ reply' = reply
      BY <2>4, FailTypes
    <3>2. GateTypes'
      BY <2>1, <3>1 DEF GateTypes
    <3> QED
      BY <2>2, <2>3, <3>1, <3>2, TypePartsNext
  <2>5. CASE /\ gate' = "free" /\ other' = NoSession
             /\ UNCHANGED <<up, routeVars, promptVars, claimVars, reply, uiVars>>
    <3>1. GateTypes'
      BY <2>1, <2>5 DEF GateTypes
    <3> QED
      BY <1>0, <2>2, <2>3, <2>5, <3>1, TypePartsNext
  <2> QED
    BY <1>3, <2>4, <2>5 DEF Deleted
<1>4. CASE Opened
  <2>1. PICK s \in Sessions :
           /\ instance' = [instance EXCEPT ![s] = IF home[s] = "open" THEN @ ELSE @ + 1]
           /\ home' = [home EXCEPT ![s] = "open"]
           /\ current' = s
    BY <1>4 DEF Opened
  <2>2. /\ at' = "stable" /\ epoch' = 0 /\ accepting' = FALSE
        /\ active' = NoMarker /\ gate' = "first" /\ other' = NoSession
        /\ UNCHANGED <<run, runOf, stopped, ask, askRun, down, up, stops, gen,
                       inputs, ended, shown, claimVars, deleted, reply, uiVars,
                       moves>>
    BY <1>4 DEF Opened
  <2>3. instance' \in [Sessions -> Nat]
    BY <2>1 DEF HostTypes
  <2>4. HostTypes'
    BY <2>1, <2>2, <2>3 DEF HostTypes
  <2>5. LinkTypes' /\ RouteTypes' /\ GateTypes' /\ UiTypes'
    BY <2>1, <2>2 DEF LinkTypes, RouteTypes, GateTypes, UiTypes
  <2>6. PromptTypes'
    BY <2>2 DEF PromptTypes
  <2>7. ClaimTypes'
    BY <2>2, ClaimsKept
  <2> QED
    BY <2>4, <2>5, <2>6, <2>7, TypePartsNext
<1>5. CASE Refused
  <2>1. UNCHANGED <<hostVars, down, stops, deleted, moves>>
    BY <1>5 DEF Refused
  <2>2. HostTypes' /\ LinkTypes'
    BY <2>1 DEF HostTypes, LinkTypes
  <2>3. CASE FailTransition
    <3>1. /\ RouteTypes' /\ PromptTypes' /\ ClaimTypes' /\ UiTypes'
          /\ gate' = "free" /\ other' = NoSession /\ reply' = reply
      BY <2>3, FailTypes
    <3>2. GateTypes'
      BY <2>1, <3>1 DEF GateTypes
    <3> QED
      BY <2>2, <3>1, <3>2, TypePartsNext
  <2>4. CASE /\ gate' = "free" /\ other' = NoSession
             /\ UNCHANGED <<up, routeVars, promptVars, claimVars, reply, uiVars>>
    <3>1. GateTypes'
      BY <2>1, <2>4 DEF GateTypes
    <3> QED
      BY <1>0, <2>2, <2>4, <3>1, TypePartsNext
  <2> QED
    BY <1>5, <2>3, <2>4 DEF Refused
<1>6. CASE SnapshotRead
  <2>1. /\ reply' = [instance |-> instance[current], run |-> ActiveRequest(current)]
        /\ gate' = "apply" /\ gate \in {"first", "poll"}
        /\ UNCHANGED <<hostVars, down, up, stops, routeVars, promptVars,
                       claimVars, deleted, other, uiVars, moves>>
    BY <1>6 DEF SnapshotRead
  <2>2. current \in Sessions
    BY <2>1 DEF RouteOK
  <2>3. ActiveRequest(current) \in Runs \cup {NoRun}
    BY DEF ActiveRequest, Executing
  <2>4. instance[current] \in Nat
    BY <2>2 DEF HostTypes
  <2>5. GateTypes'
    BY <2>1, <2>3, <2>4 DEF GateTypes
  <2>6. HostTypes' /\ LinkTypes'
    BY <2>1 DEF HostTypes, LinkTypes
  <2> QED
    BY <1>0, <2>1, <2>5, <2>6, TypePartsNext
<1>7. CASE SnapshotApplied
  <2>1. /\ gate = "apply" /\ gate' = "free" /\ reply' = NoReply
        /\ UNCHANGED <<hostVars, down, stops, routeVars, deleted, other, uiVars,
               moves>>
    BY <1>7 DEF SnapshotApplied
  <2>2. current \in Sessions /\ reply.instance \in Nat
    BY <2>1 DEF RouteOK, GateTypes
  <2>3. HostTypes' /\ LinkTypes' /\ RouteTypes' /\ UiTypes'
    BY <2>1 DEF HostTypes, LinkTypes, RouteTypes, UiTypes
  <2>4. GateTypes'
    BY <2>1 DEF GateTypes, NoReply
  <2>5. PICK k : k = Bind(inputs[current], reply.instance)
    OBVIOUS
  <2>6. k \in Known
    BY <2>2, <2>5, InputTypes
  <2>7. CASE reply.run # NoRun
    <3>1. reply.run \in Runs
      BY <2>7 DEF GateTypes
    <3>2. Open(k, current, reply.instance, reply.run)
      BY <1>7, <2>5, <2>7 DEF SnapshotApplied
    <3>3. PromptTypes' /\ ClaimTypes'
      BY <2>2, <2>6, <3>1, <3>2, OpenTypes
    <3> QED
      BY <2>3, <2>4, <3>3, TypePartsNext
  <2>8. CASE reply.run = NoRun
    <3>1. /\ inputs' = [inputs EXCEPT ![current] = k]
          /\ UNCHANGED <<up, claimVars, epoch, accepting, active, ended, shown>>
      BY <1>7, <2>5, <2>8 DEF SnapshotApplied
    <3>2. inputs' \in [Sessions -> Known]
      BY <2>6, <3>1 DEF PromptTypes
    <3>3. PromptTypes'
      BY <3>1, <3>2 DEF PromptTypes
    <3>4. ClaimTypes'
      BY <3>1, ClaimsKept
    <3> QED
      BY <2>3, <2>4, <3>3, <3>4, TypePartsNext
  <2> QED
    BY <2>7, <2>8
<1>8. CASE SnapshotFailed
  <2>1. UNCHANGED <<hostVars, down, stops, deleted, reply, moves>>
    BY <1>8 DEF SnapshotFailed
  <2>2. HostTypes' /\ LinkTypes'
    BY <2>1 DEF HostTypes, LinkTypes
  <2>3. CASE gate = "first"
    <3>1. /\ at' = "none" /\ current' = NoSession
          /\ active' = NoMarker /\ accepting' = FALSE
          /\ shown' = "idle" /\ popup' = NoAsk
          /\ Settle(pending)
          /\ gate' = "close" /\ other' = current
          /\ UNCHANGED <<gen, epoch, inputs, ended, replies>>
      BY <1>8, <2>3 DEF SnapshotFailed
    <3>2. ClaimTypes'
      <4>1. pending \in SUBSET pending
        OBVIOUS
      <4> QED
        BY <3>1, <4>1, SettleFacts
    <3>3. RouteTypes' /\ GateTypes' /\ UiTypes'
      BY <2>1, <3>1 DEF RouteTypes, GateTypes, UiTypes
    <3>4. PromptTypes'
      BY <3>1 DEF PromptTypes
    <3> QED
      BY <2>2, <3>2, <3>3, <3>4, TypePartsNext
  <2>4. CASE gate = "poll"
    <3>1. /\ gate' = "free"
          /\ UNCHANGED <<up, routeVars, promptVars, claimVars, other, uiVars>>
      BY <1>8, <2>4 DEF SnapshotFailed
    <3>2. GateTypes'
      BY <2>1, <3>1 DEF GateTypes
    <3> QED
      BY <1>0, <2>2, <3>1, <3>2, TypePartsNext
  <2> QED
    BY <1>8, <2>3, <2>4 DEF SnapshotFailed
<1> QED
  BY <1>1, <1>2, <1>3, <1>4, <1>5, <1>6, <1>7, <1>8

\* Every step keeps the types.
LEMMA TypeStep ==
  ASSUME TypeOK, RouteOK, HostOK, SentOK, DownOK, ReplyOK, [Next]_vars
  PROVE  TypeOK'
<1>1. /\ HostTypes /\ LinkTypes /\ RouteTypes /\ PromptTypes /\ ClaimTypes
      /\ GateTypes /\ UiTypes
  BY TypeParts
<1>2. CASE UNCHANGED vars
  BY <1>2 DEF vars, hostVars, clientVars, routeVars, promptVars, claimVars,
              gateVars, uiVars, TypeOK, pending
<1> QED
  BY <1>1, <1>2, HostTypeStep, PumpTypeStep, UiTypeStep, OperationTypeStep,
     GateTypeStep DEF Next

\* All that is pending belongs to the open prompt, so that closing it or opening
\* another leaves nothing.
LEMMA OwnedIsAll ==
  ASSUME ClaimTypes, OwnedByOpenPrompt, Settle(Owned)
  PROVE  pending' = {}
<1>1. Owned = pending
  BY DEF Owned, OwnedByOpenPrompt
<1>2. Owned \in SUBSET pending
  BY <1>1
<1>3. pending' = pending \ Owned
  BY <1>2, SettleFacts
<1> QED
  BY <1>1, <1>3

RouteAndOwners == RouteOK /\ OwnedByOpenPrompt

\* Where nothing is pending, no owner can be stale.
LEMMA NobodyOwns ==
  ASSUME RouteOK', pending' = {}
  PROVE  RouteAndOwners'
BY DEF RouteAndOwners, OwnedByOpenPrompt

\* A step that leaves the route and the owners alone.
LEMMA RouteKept ==
  ASSUME RouteOK, OwnedByOpenPrompt,
         UNCHANGED <<routeVars, deleted, gate, other, accepting, active, epoch,
             owner>>
  PROVE  RouteAndOwners'
BY DEF RouteOK, OwnedByOpenPrompt, RouteAndOwners, routeVars, pending

\* A prompt that opens owns nothing yet.
LEMMA RouteOpen ==
  ASSUME ClaimTypes, RouteOK, OwnedByOpenPrompt, NEW k, NEW s, NEW i, NEW r,
         Open(k, s, i, r), UNCHANGED <<routeVars, deleted, other>>,
         gate' = gate \/ (gate = "apply" /\ gate' = "free")
  PROVE  RouteAndOwners'
<1>1. CASE MayOpen(k, s, i, r)
  <2>1. /\ Settle(Owned)
        /\ active' = [session |-> s, gen |-> gen, epoch |-> epoch + 1, run |-> r]
        /\ epoch' = epoch + 1 /\ accepting' = TRUE
    BY <1>1 DEF Open
  <2>2. at = "stable" /\ current = s
    BY <1>1 DEF MayOpen
  <2>3. RouteOK'
    BY <2>1, <2>2 DEF RouteOK, routeVars
  <2> QED
    BY <2>1, <2>3, OwnedIsAll, NobodyOwns
<1>2. CASE ~MayOpen(k, s, i, r)
  <2>1. UNCHANGED <<up, claimVars, epoch, accepting, active, ended, shown>>
    BY <1>2 DEF Open
  <2> QED
    BY <2>1 DEF RouteOK, OwnedByOpenPrompt, RouteAndOwners, routeVars,
       pending, claimVars
<1> QED
  BY <1>1, <1>2

\* A prompt that closes owns nothing any more.
LEMMA RouteCloseActive ==
  ASSUME ClaimTypes, PromptTypes, RouteOK, OwnedByOpenPrompt, CloseActive,
         UNCHANGED <<routeVars, deleted, gate, other, epoch>>
  PROVE  RouteAndOwners'
<1>1. /\ active' = NoMarker /\ Settle(Owned)
      /\ accepting' = (accepting /\ ~(/\ current = active.session
                                    /\ gen = active.gen
                                    /\ epoch = active.epoch))
  BY DEF CloseActive
<1>2. ~accepting'
  BY <1>1 DEF RouteOK, PromptTypes
<1>3. RouteOK'
  BY <1>1, <1>2 DEF RouteOK, routeVars
<1> QED
  BY <1>1, <1>3, OwnedIsAll, NobodyOwns

\* A transition that fails leaves no session and no owner.
LEMMA RouteFail ==
  ASSUME GateTypes, FailTransition, deleted' \subseteq Sessions
  PROVE  RouteAndOwners'
<1>1. pending' = {}
  BY DEF FailTransition, pending
<1>2. RouteOK'
  BY InteractionAssumption DEF FailTransition, RouteOK
<1> QED
  BY <1>1, <1>2, NobodyOwns

\* The pump, the interface and the user.
LEMMA RoutePumpStep ==
  ASSUME HostTypes, LinkTypes, RouteTypes, PromptTypes, ClaimTypes, GateTypes,
         UiTypes, DownOK, HostOK, SentOK, RouteOK, OwnedByOpenPrompt,
         \/ PumpStarted \/ PumpDone \/ PumpAsk \/ ShowAsk \/ ShowEnd
         \/ UserAnswers \/ \E q \in Asks : RespondInteraction(q)
  PROVE  RouteAndOwners'
<1> USE DEF routeVars, gateVars
<1>1. CASE PumpStarted
  <2>1. PICK r \in Runs, s \in Sessions, i \in Nat : Open(inputs[s], s, i, r)
    BY <1>1, PumpStartedIs
  <2>2. UNCHANGED <<routeVars, deleted, gateVars>>
    BY <1>1 DEF PumpStarted, Pump
  <2>3. PICK k : k = inputs[s]
    OBVIOUS
  <2> QED
    BY <2>1, <2>2, <2>3, RouteOpen
<1>2. CASE PumpDone
  <2>1. UNCHANGED <<routeVars, deleted, gateVars, epoch>>
    BY <1>2 DEF PumpDone, Pump
  <2>2. PICK r \in Runs, s \in Sessions :
           \/ Forwards(s, r)
           \/ UNCHANGED <<inputs, ended, active, accepting, shown, up, claimVars>>
    BY <1>2, PumpDoneIs
  <2>3. \/ CloseActive \/ UNCHANGED <<active, accepting, up, claimVars>>
    BY <2>2 DEF Forwards
  <2>4. CASE CloseActive
    BY <2>1, <2>4, RouteCloseActive
  <2>5. CASE UNCHANGED <<active, accepting, up, claimVars>>
    BY <2>1, <2>5, RouteKept DEF claimVars
  <2> QED
    BY <2>3, <2>4, <2>5
<1>3. CASE PumpAsk
  <2>1. UNCHANGED <<routeVars, deleted, gateVars, promptVars>>
    BY <1>3 DEF PumpAsk, Pump
  <2>2. PICK q \in Asks :
           \/ Registers(SessionOf(askRun[q]), q)
           \/ up' = up \cup {q} /\ UNCHANGED claimVars
    BY <1>3, PumpAskIs
  <2>3. CASE Registers(SessionOf(askRun[q]), q)
    <3>1. PICK s : s = SessionOf(askRun[q])
      OBVIOUS
    <3>2. /\ at = "stable" /\ current = s /\ accepting
          /\ owner' = [p \in pending \cup {q} |->
                         IF p = q THEN [session |-> s, gen |-> gen, epoch |-> epoch]
                         ELSE owner[p]]
      BY <2>3, <3>1 DEF Registers
    <3>3. pending' = pending \cup {q}
      BY <3>2 DEF pending
    <3>4. RouteOK'
      BY <2>1 DEF RouteOK, promptVars
    <3>5. OwnedByOpenPrompt'
      BY <2>1, <3>2, <3>3 DEF RouteOK, OwnedByOpenPrompt, promptVars
    <3> QED
      BY <3>4, <3>5 DEF RouteAndOwners
  <2>4. CASE UNCHANGED claimVars
    BY <2>1, <2>4, RouteKept DEF claimVars, promptVars
  <2> QED
    BY <2>2, <2>3, <2>4
<1>4. CASE ShowAsk \/ ShowEnd \/ UserAnswers
  <2>1. UNCHANGED <<routeVars, deleted, gate, other, accepting, active, epoch,
            owner>>
    BY <1>4 DEF ShowAsk, ShowEnd, UserAnswers, Notice, promptVars, claimVars
  <2> QED
    BY <2>1, RouteKept
<1>5. ASSUME NEW q \in Asks, RespondInteraction(q) PROVE RouteAndOwners'
  <2>1. UNCHANGED <<routeVars, deleted, gateVars, promptVars>>
    BY <1>5 DEF RespondInteraction
  <2>2. Settle({q} \cap pending) /\ {q} \cap pending \in SUBSET pending
    BY <1>5 DEF RespondInteraction
  <2>3. pending' \subseteq pending /\ \A p \in pending' : owner'[p] = owner[p]
    BY <2>2, SettleFacts
  <2>4. RouteOK'
    BY <2>1 DEF RouteOK, promptVars
  <2>5. OwnedByOpenPrompt'
    BY <2>1, <2>3 DEF OwnedByOpenPrompt, promptVars
  <2> QED
    BY <2>4, <2>5 DEF RouteAndOwners
<1> QED
  BY <1>1, <1>2, <1>3, <1>4, <1>5

\* The operations that disturb a run.
LEMMA RouteOperationStep ==
  ASSUME RouteTypes, PromptTypes, ClaimTypes, GateTypes, RouteOK,
         OwnedByOpenPrompt,
         \/ Stop \/ NewSession \/ Poll
         \/ \E s \in Sessions : LoadSession(s) \/ DeleteSession(s)
  PROVE  RouteAndOwners'
<1> USE DEF routeVars
<1>0. ASSUME NEW target \in Sessions \cup {NoSession}, BeginTransition(target)
      PROVE  /\ at' = "moving" /\ current' = target
             /\ active' = NoMarker /\ accepting' = FALSE /\ pending' = {}
  <2>1. /\ at' = "moving" /\ current' = target /\ Settle(pending)
        /\ active' = NoMarker /\ accepting' = FALSE
    BY <1>0 DEF BeginTransition
  <2>2. pending \in SUBSET pending
    OBVIOUS
  <2> QED
    BY <2>1, <2>2, SettleFacts
<1>1. CASE Stop
  <2>1. UNCHANGED <<routeVars, deleted, gate, other, epoch>>
    BY <1>1 DEF Stop, Disturb
  <2>2. CloseActive \/ UNCHANGED <<active, accepting, inputs, ended, up, claimVars>>
    BY <1>1 DEF Stop
  <2> QED
    BY <2>1, <2>2, RouteCloseActive, RouteKept DEF claimVars
<1>2. ASSUME NEW target \in Sessions \cup {NoSession}, Move(target),
                 target \notin deleted
      PROVE RouteAndOwners'
  <2>1. /\ gate = "free" /\ BeginTransition(target) /\ other' = current
        /\ gate' = IF current \in {NoSession, target} THEN "open" ELSE "close"
        /\ deleted' = deleted
    BY <1>2 DEF Move, Disturb
  <2>2. RouteOK'
    BY <1>0, <1>2, <2>1 DEF RouteOK, RouteTypes
  <2> QED
    BY <1>0, <2>1, <2>2, NobodyOwns
<1>3. CASE NewSession
  <2>1. NoSession \notin deleted
    BY InteractionAssumption DEF GateTypes
  <2> QED
    BY <1>2, <1>3, <2>1 DEF NewSession
<1>4. ASSUME NEW s \in Sessions, LoadSession(s) PROVE RouteAndOwners'
  BY <1>2, <1>4 DEF LoadSession
<1>5. ASSUME NEW s \in Sessions, DeleteSession(s) PROVE RouteAndOwners'
  <2>1. gate = "free" /\ gate' = "delete" /\ other' = s /\ deleted' = deleted
    BY <1>5 DEF DeleteSession, Disturb
  <2>2. s # NoSession /\ NoSession \notin deleted
    BY InteractionAssumption DEF GateTypes
  <2>3. CASE BeginTransition(NoSession)
    <3>1. RouteOK'
      BY <1>0, <2>1, <2>2, <2>3 DEF RouteOK
    <3> QED
      BY <1>0, <2>3, <3>1, NobodyOwns
  <2>4. CASE ~(at = "stable" /\ current = s)
    <3>1. UNCHANGED <<up, routeVars, promptVars, claimVars>>
      BY <1>5, <2>4 DEF DeleteSession
    <3>2. at \in {"none", "stable"}
      BY <2>1 DEF RouteOK, RouteTypes
    <3>3. current # s
      BY <2>2, <2>4, <3>2 DEF RouteOK
    <3>4. RouteOK'
      BY <2>1, <3>1, <3>2, <3>3 DEF RouteOK, promptVars
    <3>5. OwnedByOpenPrompt'
      BY <3>1 DEF OwnedByOpenPrompt, promptVars, claimVars, pending
    <3> QED
      BY <3>4, <3>5 DEF RouteAndOwners
  <2> QED
    BY <1>5, <2>3, <2>4 DEF DeleteSession
<1>6. CASE Poll
  <2>1. /\ at = "stable" /\ gate' = "poll" /\ deleted' = deleted
        /\ UNCHANGED <<up, routeVars, promptVars, claimVars, other>>
    BY <1>6 DEF Poll, Disturb
  <2>2. RouteOK'
    BY <2>1 DEF RouteOK, promptVars
  <2>3. OwnedByOpenPrompt'
    BY <2>1 DEF OwnedByOpenPrompt, promptVars, claimVars, pending
  <2> QED
    BY <2>2, <2>3 DEF RouteAndOwners
<1> QED
  BY <1>1, <1>3, <1>4, <1>5, <1>6

\* What the holder of the gate waits for.
LEMMA RouteGateStep ==
  ASSUME RouteTypes, PromptTypes, ClaimTypes, GateTypes, RouteOK, HostOK,
         OwnedByOpenPrompt,
         \/ PreClose \/ Closed \/ Deleted \/ Opened \/ Refused
         \/ SnapshotRead \/ SnapshotApplied \/ SnapshotFailed
  PROVE  RouteAndOwners'
<1> USE DEF routeVars
<1>0. ASSUME UNCHANGED <<promptVars, claimVars>>,
                 UNCHANGED routeVars PROVE OwnedByOpenPrompt'
  BY <1>0 DEF OwnedByOpenPrompt, promptVars, claimVars, pending
<1>1. CASE PreClose
  <2>1. /\ gate \in {"close", "delete"}
        /\ gate' = IF gate = "close" THEN "closing" ELSE "deleting"
        /\ UNCHANGED <<routeVars, promptVars, claimVars, deleted, other>>
    BY <1>1 DEF PreClose
  <2>2. RouteOK'
    BY <2>1 DEF RouteOK, promptVars
  <2> QED
    BY <1>0, <2>1, <2>2 DEF RouteAndOwners
<1>2. CASE Closed
  <2>1. /\ gate = "closing"
        /\ gate' = IF at = "moving" THEN "open" ELSE "free"
        /\ UNCHANGED <<routeVars, promptVars, claimVars, deleted>>
    BY <1>2 DEF Closed
  <2>2. RouteOK'
    BY <2>1 DEF RouteOK, promptVars
  <2> QED
    BY <1>0, <2>1, <2>2 DEF RouteAndOwners
<1>3. CASE Deleted
  <2>1. gate = "deleting" /\ deleted' = deleted \cup {other}
    BY <1>3 DEF Deleted
  <2>2. other \in Sessions /\ other # current /\ deleted \subseteq Sessions
    BY <2>1 DEF RouteOK, GateTypes
  <2>3. CASE at = "moving"
    <3>1. FailTransition
      BY <1>3, <2>3 DEF Deleted
    <3> QED
      BY <2>1, <2>2, <3>1, RouteFail
  <2>4. CASE at # "moving"
    <3>1. /\ gate' = "free"
          /\ UNCHANGED <<up, routeVars, promptVars, claimVars>>
      BY <1>3, <2>4 DEF Deleted
    <3>2. RouteOK'
      BY <2>1, <2>2, <2>4, <3>1 DEF RouteOK, promptVars
    <3> QED
      BY <1>0, <3>1, <3>2 DEF RouteAndOwners
  <2> QED
    BY <2>3, <2>4
<1>4. CASE Opened
  <2>1. PICK s \in Sessions :
           /\ IF current = NoSession THEN home[s] = "none" ELSE s = current
           /\ current' = s
    BY <1>4 DEF Opened
  <2>2. /\ gate = "open" /\ at' = "stable" /\ accepting' = FALSE
        /\ active' = NoMarker /\ gate' = "first"
        /\ UNCHANGED <<claimVars, deleted>>
    BY <1>4 DEF Opened
  <2>3. s \notin deleted
    BY <2>1 DEF RouteOK, HostOK
  <2>4. pending = {}
    BY <2>2 DEF RouteOK, OwnedByOpenPrompt
  <2>5. pending' = {}
    BY <2>2, <2>4 DEF claimVars, pending
  <2>6. RouteOK'
    BY <2>1, <2>2, <2>3 DEF RouteOK
  <2> QED
    BY <2>5, <2>6, NobodyOwns
<1>5. CASE Refused
  <2>1. gate \in {"closing", "deleting", "open"} /\ deleted' = deleted
    BY <1>5 DEF Refused
  <2>2. CASE at = "moving"
    <3>1. FailTransition
      BY <1>5, <2>2 DEF Refused
    <3> QED
      BY <2>1, <3>1, RouteFail DEF GateTypes
  <2>3. CASE at # "moving"
    <3>1. /\ gate' = "free"
          /\ UNCHANGED <<up, routeVars, promptVars, claimVars>>
      BY <1>5, <2>3 DEF Refused
    <3>2. RouteOK'
      BY <2>1, <2>3, <3>1 DEF RouteOK, promptVars
    <3> QED
      BY <1>0, <3>1, <3>2 DEF RouteAndOwners
  <2> QED
    BY <2>2, <2>3
<1>6. CASE SnapshotRead
  <2>1. /\ gate \in {"first", "poll"} /\ gate' = "apply"
        /\ UNCHANGED <<routeVars, promptVars, claimVars, deleted, other>>
    BY <1>6 DEF SnapshotRead
  <2>2. RouteOK'
    BY <2>1 DEF RouteOK, promptVars
  <2> QED
    BY <1>0, <2>1, <2>2 DEF RouteAndOwners
<1>7. CASE SnapshotApplied
  <2>1. /\ gate = "apply" /\ gate' = "free"
        /\ UNCHANGED <<routeVars, deleted, other>>
    BY <1>7 DEF SnapshotApplied
  <2>2. PICK k : k = Bind(inputs[current], reply.instance)
    OBVIOUS
  <2>3. PICK s, i, r : s = current /\ i = reply.instance /\ r = reply.run
    OBVIOUS
  <2>4. \/ Open(k, s, i, r)
        \/ UNCHANGED <<up, claimVars, epoch, accepting, active, ended, shown>>
    BY <1>7, <2>2, <2>3 DEF SnapshotApplied
  <2>5. CASE Open(k, s, i, r)
    BY <2>1, <2>5, RouteOpen
  <2>6. CASE UNCHANGED <<up, claimVars, epoch, accepting, active, ended, shown>>
    <3>1. RouteOK'
      BY <2>1, <2>6 DEF RouteOK
    <3>2. OwnedByOpenPrompt'
      BY <2>1, <2>6 DEF OwnedByOpenPrompt, claimVars, pending
    <3> QED
      BY <3>1, <3>2 DEF RouteAndOwners
  <2> QED
    BY <2>4, <2>5, <2>6
<1>8. CASE SnapshotFailed
  <2>1. gate \in {"first", "poll"} /\ deleted' = deleted
    BY <1>8 DEF SnapshotFailed
  <2>2. CASE gate = "first"
    <3>1. /\ at' = "none" /\ current' = NoSession
          /\ active' = NoMarker /\ accepting' = FALSE
          /\ Settle(pending) /\ gate' = "close" /\ other' = current
      BY <1>8, <2>2 DEF SnapshotFailed
    <3>2. pending \in SUBSET pending
      OBVIOUS
    <3>3. pending' = {}
      BY <3>1, <3>2, SettleFacts
    <3>4. NoSession \notin deleted
      BY InteractionAssumption DEF GateTypes
    <3>5. RouteOK'
      BY <2>1, <2>2, <3>1, <3>4 DEF RouteOK
    <3> QED
      BY <3>3, <3>5, NobodyOwns
  <2>3. CASE gate = "poll"
    <3>1. /\ gate' = "free"
          /\ UNCHANGED <<up, routeVars, promptVars, claimVars, other>>
      BY <1>8, <2>3 DEF SnapshotFailed
    <3>2. RouteOK'
      BY <2>1, <2>3, <3>1 DEF RouteOK, promptVars
    <3> QED
      BY <1>0, <3>1, <3>2 DEF RouteAndOwners
  <2> QED
    BY <2>1, <2>2, <2>3
<1> QED
  BY <1>1, <1>2, <1>3, <1>4, <1>5, <1>6, <1>7, <1>8

\* The steps of the host and of the router.
HostMoves ==
  \/ \E r \in Runs : Attach(r) \/ Announce(r) \/ Finish(r) \/ Tell(r) \/ Detach(r)
  \/ \E r \in Runs, q \in Asks : Ask(r, q)
  \/ \E q \in Asks : Expire(q) \/ Dispatch(q)
  \/ \E m \in stops : Cancel(m)

\* They leave the client alone.
LEMMA HostLeavesClient == HostMoves => UNCHANGED clientVars
BY DEF HostMoves, Attach, Announce, Finish, Tell, Detach, Ask, Expire, Dispatch,
       Cancel

\* Every step keeps the route, and owners current.
LEMMA RouteStep ==
  ASSUME TypeOK, RouteOK, HostOK, SentOK, DownOK, OwnedByOpenPrompt, [Next]_vars
  PROVE  RouteOK' /\ OwnedByOpenPrompt'
<1>1. /\ HostTypes /\ LinkTypes /\ RouteTypes /\ PromptTypes /\ ClaimTypes
      /\ GateTypes /\ UiTypes
  BY TypeParts
<1>2. CASE UNCHANGED vars \/ HostMoves
  <2>1. UNCHANGED clientVars
    BY <1>2, HostLeavesClient DEF vars
  <2> QED
    BY <2>1, RouteKept DEF clientVars, routeVars, gateVars, promptVars,
       claimVars,
                           RouteAndOwners
<1> QED
  BY <1>1, <1>2, RoutePumpStep, RouteOperationStep, RouteGateStep
     DEF Next, HostMoves, RouteAndOwners

\* A boundary waits for cancelled runs, run by run.
LEMMA GateWaitsIs ==
  GateWaitsForCancelled <=>
    (gate \in {"closing", "deleting"} =>
       \A r \in Runs : run[r] \in Executes /\ SessionOf(r) = other => r \in stopped)
BY DEF GateWaitsForCancelled, Executing, Executes

\* The same, of the next state.
LEMMA GateWaitsNext ==
  ASSUME gate' \in {"closing", "deleting"} =>
            \A r \in Runs :
               run'[r] \in Executes /\ runOf'[r].session = other' => r \in stopped'
  PROVE  GateWaitsForCancelled'
BY DEF GateWaitsForCancelled, Executing, Executes, SessionOf

HostAndGate == HostOK /\ GateWaitsForCancelled

\* A step of the client that leaves the host alone.
LEMMA HostKept ==
  ASSUME HostOK, GateWaitsForCancelled,
         UNCHANGED <<home, instance, run, runOf, stopped, deleted>>,
         at' = "stable" => at = "stable" /\ current' = current,
         gate' \in {"closing", "deleting"} => gate' = gate /\ other' = other
  PROVE  HostAndGate'
<1>1. HostOK'
  BY DEF HostOK, SessionOf
<1>2. GateWaitsForCancelled'
  BY DEF GateWaitsForCancelled, Executing, SessionOf
<1> QED
  BY <1>1, <1>2 DEF HostAndGate

\* The pump and the interface leave the host alone.
LEMMA HostPumpStep ==
  ASSUME HostOK, GateWaitsForCancelled,
         \/ PumpStarted \/ PumpDone \/ PumpAsk \/ ShowAsk \/ ShowEnd
         \/ UserAnswers \/ \E q \in Asks : RespondInteraction(q)
  PROVE  HostAndGate'
<1>1. UNCHANGED <<hostVars, routeVars, deleted, gate, other>>
  BY DEF PumpStarted, PumpDone, PumpAsk, Pump, ShowAsk, ShowEnd, Notice,
     UserAnswers,
         RespondInteraction, gateVars
<1> QED
  BY <1>1, HostKept DEF hostVars, routeVars

\* So do operations, until they meet the gate.
LEMMA HostOperationStep ==
  ASSUME HostOK, GateWaitsForCancelled,
         \/ Stop \/ NewSession \/ Poll
         \/ \E s \in Sessions : LoadSession(s) \/ DeleteSession(s)
  PROVE  HostAndGate'
<1>1. UNCHANGED <<hostVars, deleted>>
  BY DEF Stop, NewSession, Poll, LoadSession, DeleteSession, Move, Disturb
<1>2. at' = "stable" => at = "stable" /\ current' = current
  BY DEF Stop, NewSession, Poll, LoadSession, DeleteSession, Move,
     BeginTransition, routeVars
<1>3. gate' \in {"closing", "deleting"} => gate' = gate /\ other' = other
  BY DEF Stop, NewSession, Poll, LoadSession, DeleteSession, Move
<1> QED
  BY <1>1, <1>2, <1>3, HostKept DEF hostVars

\* What the holder of the gate does at the host.
LEMMA HostGateStep ==
  ASSUME HostTypes, RouteTypes, GateTypes, RouteOK, HostOK,
         GateWaitsForCancelled,
         \/ PreClose \/ Closed \/ Deleted \/ Opened \/ Refused
         \/ SnapshotRead \/ SnapshotApplied \/ SnapshotFailed
  PROVE  HostAndGate'
<1> USE DEF SessionOf
<1>1. CASE PreClose
  <2>1. /\ gate \in {"close", "delete"}
        /\ gate' = IF gate = "close" THEN "closing" ELSE "deleting"
        /\ home' = [home EXCEPT ![other] = IF @ = "open" THEN "closing" ELSE @]
        /\ stopped' = stopped \cup Executing(other)
        /\ UNCHANGED <<instance, run, runOf, routeVars, deleted, other>>
    BY <1>1 DEF PreClose, Frozen
  <2>2. other \in Sessions /\ (at = "stable" => other # current)
    BY <2>1 DEF RouteOK
  <2>3. HostOK'
    BY <2>1, <2>2 DEF HostOK, HostTypes, RouteOK, routeVars
  <2>4. GateWaitsForCancelled'
    BY <2>1 DEF GateWaitsForCancelled, Executing
  <2> QED
    BY <2>3, <2>4 DEF HostAndGate
<1>2. CASE Closed
  <2>1. /\ gate = "closing" /\ Executing(other) = {}
        /\ gate' \in {"open", "free"}
        /\ home' = [home EXCEPT ![other] = "closed"]
        /\ UNCHANGED <<instance, run, runOf, stopped, routeVars, deleted>>
    BY <1>2 DEF Closed
  <2>2. other \in Sessions /\ at # "stable"
    BY <2>1 DEF RouteOK
  <2>3. \A r \in Runs : run[r] \in Executes => runOf[r].session # other
    BY <2>1 DEF Executing, Executes
  <2>4. HostOK'
    BY <2>1, <2>2, <2>3 DEF HostOK, HostTypes, routeVars
  <2>5. GateWaitsForCancelled'
    BY <2>1 DEF GateWaitsForCancelled
  <2> QED
    BY <2>4, <2>5 DEF HostAndGate
<1>3. CASE Deleted
  <2>1. /\ gate = "deleting" /\ Executing(other) = {}
        /\ home' = [home EXCEPT ![other] = "closed"]
        /\ UNCHANGED <<instance, run, runOf, stopped>>
        /\ deleted' = deleted \cup {other}
    BY <1>3 DEF Deleted
  <2>2. other \in Sessions /\ other # current
    BY <2>1 DEF RouteOK
  <2>3. \A r \in Runs : run[r] \in Executes => runOf[r].session # other
    BY <2>1 DEF Executing, Executes
  <2>4. gate' = "free" /\ (at' = "stable" => at = "stable" /\ current' = current)
    BY <1>3 DEF Deleted, FailTransition, routeVars
  <2>5. HostOK'
    BY <2>1, <2>2, <2>3, <2>4 DEF HostOK, HostTypes, RouteOK
  <2>6. GateWaitsForCancelled'
    BY <2>4 DEF GateWaitsForCancelled
  <2> QED
    BY <2>5, <2>6 DEF HostAndGate
<1>4. CASE Opened
  <2>1. PICK s \in Sessions :
           /\ IF current = NoSession
              THEN home[s] = "none"
              ELSE /\ s = current /\ home[s] \in {"open", "closed"}
                   /\ Executing(s) = {}
           /\ instance' = [instance EXCEPT ![s] = IF home[s] = "open" THEN @ ELSE @ + 1]
           /\ home' = [home EXCEPT ![s] = "open"]
           /\ current' = s
    BY <1>4 DEF Opened
  <2>2. at' = "stable" /\ gate' = "first" /\ UNCHANGED <<run, runOf, stopped,
            deleted>>
    BY <1>4 DEF Opened
  <2>3. \A r \in Runs : run[r] \in Executes => runOf[r].session # s
    BY <2>1 DEF Executing, Executes, HostOK
  <2>4. /\ instance[s] \in Nat /\ instance'[s] \in Nat /\
               instance'[s] >= instance[s]
        /\ instance'[s] > 0
        /\ \A x \in Sessions \ {s} : instance'[x] = instance[x] /\
               home'[x] = home[x]
        /\ home'[s] = "open"
    BY <2>1 DEF HostTypes, HostOK
  <2>5. ASSUME NEW r \in Runs, run[r] # "unused"
        PROVE  /\ runOf[r].session \in Sessions
               /\ runOf[r].instance \in 1..instance'[runOf[r].session]
               /\ run[r] \in Executes =>
                    /\ runOf[r].instance = instance'[runOf[r].session]
                    /\ home'[runOf[r].session] \in {"open", "closing"}
    <3>1. CASE runOf[r].session = s
      <4>1. runOf[r].instance \in 1..instance[s]
        BY <2>5, <3>1 DEF HostOK
      <4> QED
        BY <2>3, <2>4, <3>1, <4>1
    <3>2. CASE runOf[r].session # s
      BY <2>4, <2>5, <3>2 DEF HostOK
    <3> QED
      BY <3>1, <3>2
  <2>6. HostOK'
    BY <2>1, <2>2, <2>4, <2>5 DEF HostOK
  <2>7. GateWaitsForCancelled'
    BY <2>2 DEF GateWaitsForCancelled
  <2> QED
    BY <2>6, <2>7 DEF HostAndGate
<1>5. CASE Refused
  <2>1. UNCHANGED <<hostVars, deleted>> /\ gate' = "free"
    BY <1>5 DEF Refused, FailTransition
  <2>2. at' = "stable" => at = "stable" /\ current' = current
    BY <1>5 DEF Refused, FailTransition, routeVars
  <2> QED
    BY <2>1, <2>2, HostKept DEF hostVars
<1>6. CASE SnapshotRead
  BY <1>6, HostKept DEF SnapshotRead, hostVars, routeVars
<1>7. CASE SnapshotApplied
  BY <1>7, HostKept DEF SnapshotApplied, hostVars, routeVars
<1>8. CASE SnapshotFailed
  <2>1. UNCHANGED <<hostVars, deleted>> /\ gate' \in {"close", "free"}
    BY <1>8 DEF SnapshotFailed
  <2>2. at' = "stable" => at = "stable" /\ current' = current
    BY <1>8 DEF SnapshotFailed, routeVars
  <2> QED
    BY <2>1, <2>2, HostKept DEF hostVars
<1> QED
  BY <1>1, <1>2, <1>3, <1>4, <1>5, <1>6, <1>7, <1>8

\* What the host does by itself.
LEMMA HostMovesStep ==
  ASSUME HostTypes, RouteTypes, HostOK, GateWaitsForCancelled, HostMoves
  PROVE  HostAndGate'
<1> USE DEF SessionOf, Executes
<1>0. UNCHANGED <<home, instance, deleted, at, current, gate, other>>
  BY HostLeavesClient DEF HostMoves, Attach, Announce, Finish, Tell, Detach,
     Ask,
     Expire, Dispatch, Cancel, clientVars, routeVars, gateVars
<1>1. ASSUME NEW r \in Runs, Attach(r) PROVE HostAndGate'
  <2>1. /\ run[r] = "unused" /\ run' = [run EXCEPT ![r] = "attached"]
        /\ stopped' = stopped
    BY <1>1 DEF Attach, First
  <2>2. PICK s \in Sessions :
          /\ home[s] = "open" /\ Executing(s) = {}
          /\ runOf' = [runOf EXCEPT ![r] = [session |-> s,
                 instance |-> instance[s]]]
    BY <1>1 DEF Attach
  <2>3. \A p \in Runs : run[p] \in Executes => runOf[p].session # s
    BY <2>2 DEF Executing
  <2>4. /\ run'[r] = "attached" /\ runOf'[r].session = s
        /\ runOf'[r].instance = instance[s]
        /\ \A p \in Runs \ {r} : run'[p] = run[p] /\ runOf'[p] = runOf[p]
    BY <2>1, <2>2 DEF HostTypes
  <2>5. instance[s] \in 1..instance[s]
    BY <2>2 DEF HostOK, HostTypes
  <2>6. HostOK'
    BY <1>0, <2>2, <2>3, <2>4, <2>5 DEF HostOK
  <2>7. gate \in {"closing", "deleting"} => s # other
    BY <2>2 DEF HostOK
  <2>8. GateWaitsForCancelled'
    BY <1>0, <2>1, <2>4, <2>7, GateWaitsIs, GateWaitsNext
  <2> QED
    BY <2>6, <2>8 DEF HostAndGate
<1>2. ASSUME runOf' = runOf,
             \A p \in Runs : run'[p] \in Executes => run[p] \in Executes,
             \A p \in Runs : run'[p] # "unused" => run[p] # "unused",
             \A p \in Runs : p \in stopped /\ run'[p] \in Executes => p \in stopped'
      PROVE  HostAndGate'
  <2>1. HostOK'
    BY <1>0, <1>2 DEF HostOK
  <2>2. GateWaitsForCancelled'
    BY <1>0, <1>2, GateWaitsIs, GateWaitsNext
  <2> QED
    BY <2>1, <2>2 DEF HostAndGate
<1>3. ASSUME NEW r \in Runs, Announce(r) \/ Finish(r) \/ Tell(r) \/ Detach(r)
      PROVE  HostAndGate'
  <2>1. runOf' = runOf
    BY <1>3 DEF Announce, Finish, Tell, Detach
  <2>2. /\ run[r] \notin {"unused", "closed"} /\ run'[r] # "unused"
        /\ run'[r] \in Executes => run[r] \in Executes
        /\ \A p \in Runs \ {r} : run'[p] = run[p]
    BY <1>3 DEF Announce, Finish, Tell, Detach, HostTypes
  <2>3. \A p \in Runs : p \in stopped /\ run'[p] \in Executes => p \in stopped'
    BY <1>3 DEF Announce, Finish, Tell, Detach, HostTypes
  <2> QED
    BY <1>2, <2>1, <2>2, <2>3
<1>4. CASE \/ \E r \in Runs, q \in Asks : Ask(r, q)
           \/ \E q \in Asks : Expire(q) \/ Dispatch(q)
  <2>1. UNCHANGED <<run, runOf, stopped>>
    BY <1>4 DEF Ask, Expire, Dispatch
  <2> QED
    BY <1>2, <2>1
<1>5. ASSUME NEW m \in stops, Cancel(m) PROVE HostAndGate'
  <2>1. UNCHANGED <<run, runOf>> /\ stopped \subseteq stopped'
    BY <1>5 DEF Cancel
  <2> QED
    BY <1>2, <2>1
<1> QED
  BY <1>1, <1>3, <1>4, <1>5 DEF HostMoves

\* Every step keeps the host, and boundaries waiting for cancelled runs.
LEMMA HostStep ==
  ASSUME TypeOK, RouteOK, HostOK, GateWaitsForCancelled, [Next]_vars
  PROVE  HostOK' /\ GateWaitsForCancelled'
<1>1. /\ HostTypes /\ LinkTypes /\ RouteTypes /\ PromptTypes /\ ClaimTypes
      /\ GateTypes /\ UiTypes
  BY TypeParts
<1>2. CASE UNCHANGED vars
  <2>1. UNCHANGED <<home, instance, run, runOf, stopped, deleted, at, current,
            gate, other>>
    BY <1>2 DEF vars, hostVars, clientVars, routeVars, gateVars
  <2> QED
    BY <2>1, HostKept DEF HostAndGate
<1> QED
  BY <1>1, <1>2, HostMovesStep, HostPumpStep, HostOperationStep, HostGateStep
     DEF Next, HostMoves, HostAndGate

\* A step of the client that claims requests and registers none.
Claims ==
  /\ UNCHANGED <<ask, askRun, run, runOf>>
  /\ \/ down' = down
     \/ down # <<>> /\ down' = Tail(down) /\ Head(down).kind # "ask"
  /\ pending' \subseteq pending /\ up' = up \cup (pending \ pending')
  /\ \A n \in DOMAIN notices : n \in DOMAIN notices' /\ notices'[n] = notices[n]
  /\ \A n \in DOMAIN notices' :
       \/ n \in DOMAIN notices /\ notices'[n] = notices[n]
       \/ notices'[n].kind = "end" /\ notices'[n].of \in pending \ pending'
  /\ popup' \in {popup, NoAsk}
  /\ \A q \in pending' : popup = q => popup' = q \/ q \in replies'
  /\ \A q \in pending' : q \in replies => q \in replies'
  /\ pending' # {} => current' = current

\* No request is taken from the pump.
Unhandled ==
  \/ down' = down
  \/ down # <<>> /\ down' = Tail(down) /\ Head(down).kind # "ask"

\* Claiming some requests, or all of them at a boundary, or none.
LEMMA SettleClaims ==
  ASSUME ClaimTypes, NEW Q \in SUBSET pending, Settle(Q), Unhandled,
         UNCHANGED <<ask, askRun, run, runOf>>,
         \/ UNCHANGED <<popup, replies, current>>
         \/ Q = pending /\ popup' \in {popup, NoAsk}
  PROVE  Claims
<1>1. /\ pending' = pending \ Q /\ up' = up \cup Q
      /\ \A n \in DOMAIN notices : n \in DOMAIN notices' /\ notices'[n] = notices[n]
      /\ \A n \in DOMAIN notices' :
           \/ n \in DOMAIN notices /\ notices'[n] = notices[n]
           \/ notices'[n].kind = "end" /\ notices'[n].of \in Q
  BY SettleFacts
<1>2. pending \ pending' = Q /\ pending' \subseteq pending
  BY <1>1
<1>3. CASE UNCHANGED <<popup, replies, current>>
  BY <1>1, <1>2, <1>3 DEF Claims, Unhandled
<1>4. CASE Q = pending /\ popup' \in {popup, NoAsk}
  <2>1. pending' = {}
    BY <1>1, <1>4
  <2> QED
    BY <1>1, <1>2, <1>4, <2>1 DEF Claims, Unhandled
<1> QED
  BY <1>3, <1>4

\* A step that claims nothing.
LEMMA NothingClaimed ==
  ASSUME ClaimTypes, Unhandled,
         UNCHANGED <<ask, askRun, run, runOf, up, owner, notices>>,
         \/ UNCHANGED <<popup, replies, current>>
         \/ pending = {} /\ popup' \in {popup, NoAsk}
  PROVE  Claims
<1>1. pending' = pending /\ pending \ pending' = {} /\ up' = up \cup {}
  BY DEF pending
<1> QED
  BY <1>1 DEF Claims, Unhandled

\* Opening a run claims what an earlier one left.
LEMMA OpenClaims ==
  ASSUME ClaimTypes, NEW k, NEW s, NEW i, NEW r, Open(k, s, i, r), Unhandled,
         UNCHANGED <<ask, askRun, run, runOf, popup, replies, current>>
  PROVE  Claims
<1>1. CASE Settle(Owned)
  BY <1>1, OwnedPart, SettleClaims
<1>2. CASE UNCHANGED <<up, claimVars>>
  BY <1>2, NothingClaimed DEF claimVars
<1> QED
  BY <1>1, <1>2 DEF Open

\* The start and the end of a run claim requests.
LEMMA PumpClaims ==
  ASSUME HostTypes, LinkTypes, ClaimTypes, DownOK, HostOK,
         PumpStarted \/ PumpDone
  PROVE  Claims
<1>1. CASE PumpStarted
  <2>1. PICK r \in Runs, s \in Sessions, i \in Nat : Open(inputs[s], s, i, r)
    BY <1>1, PumpStartedIs
  <2>2. PICK k : k = inputs[s]
    OBVIOUS
  <2>3. Pump("started")
    BY <1>1 DEF PumpStarted
  <2>4. UNCHANGED <<ask, askRun, run, runOf, popup, replies, current>> /\ Unhandled
    BY <2>3 DEF Pump, Unhandled, hostVars, uiVars, routeVars
  <2> QED
    BY <2>1, <2>2, <2>4, OpenClaims
<1>2. CASE PumpDone
  <2>1. Pump("done")
    BY <1>2 DEF PumpDone
  <2>2. UNCHANGED <<ask, askRun, run, runOf, popup, replies, current>> /\ Unhandled
    BY <2>1 DEF Pump, Unhandled, hostVars, uiVars, routeVars
  <2>3. PICK r \in Runs, s \in Sessions :
           \/ Forwards(s, r)
           \/ UNCHANGED <<inputs, ended, active, accepting, shown, up, claimVars>>
    BY <1>2, PumpDoneIs
  <2>4. Settle(Owned) \/ UNCHANGED <<up, claimVars>>
    BY <2>3 DEF Forwards, CloseActive
  <2>5. CASE Settle(Owned)
    BY <2>2, <2>5, OwnedPart, SettleClaims
  <2>6. CASE UNCHANGED <<up, claimVars>>
    BY <2>2, <2>6, NothingClaimed DEF claimVars
  <2> QED
    BY <2>4, <2>5, <2>6
<1> QED
  BY <1>1, <1>2

\* So does the answer of the user.
LEMMA UserClaims ==
  ASSUME ClaimTypes, UserAnswers \/ \E q \in Asks : RespondInteraction(q)
  PROVE  Claims
<1>1. CASE UserAnswers
  <2>1. /\ UNCHANGED <<ask, askRun, run, runOf, up, owner, notices, current, down>>
        /\ replies' = replies \cup {popup} /\ popup' = NoAsk
    BY <1>1 DEF UserAnswers, hostVars, claimVars, routeVars
  <2>2. pending' = pending /\ up' = up \cup (pending \ pending')
    BY <2>1 DEF pending
  <2> QED
    BY <2>1, <2>2 DEF Claims
<1>2. ASSUME NEW q \in Asks, RespondInteraction(q) PROVE Claims
  <2>1. /\ UNCHANGED <<ask, askRun, run, runOf, current, down, popup>>
        /\ replies' = replies \ {q}
    BY <1>2 DEF RespondInteraction, hostVars, routeVars
  <2>2. PICK Q \in SUBSET pending : Q = {q} \cap pending
    OBVIOUS
  <2>3. Settle(Q)
    BY <1>2, <2>2 DEF RespondInteraction
  <2>4. /\ pending' = pending \ Q /\ up' = up \cup Q
        /\ \A n \in DOMAIN notices : n \in DOMAIN notices' /\
               notices'[n] = notices[n]
        /\ \A n \in DOMAIN notices' :
             \/ n \in DOMAIN notices /\ notices'[n] = notices[n]
             \/ notices'[n].kind = "end" /\ notices'[n].of \in Q
    BY <2>3, SettleFacts
  <2>5. pending \ pending' = Q /\ pending' \subseteq pending /\ q \notin pending'
    BY <2>2, <2>4
  <2> QED
    BY <2>1, <2>4, <2>5 DEF Claims
<1> QED
  BY <1>1, <1>2

\* So does a transition.
LEMMA BeginClaims ==
  ASSUME ClaimTypes, NEW target, BeginTransition(target),
         UNCHANGED <<hostVars, down>>
  PROVE  Claims
<1>1. Settle(pending) /\ pending \in SUBSET pending /\ popup' = NoAsk
  BY DEF BeginTransition
<1>2. PICK Q : Q = pending
  OBVIOUS
<1>3. UNCHANGED <<ask, askRun, run, runOf>> /\ Unhandled
  BY DEF hostVars, Unhandled
<1> QED
  BY <1>1, <1>2, <1>3, SettleClaims

\* A transition that fails has nothing left to claim.
LEMMA FailClaims ==
  ASSUME ClaimTypes, RouteOK, OwnedByOpenPrompt, at = "moving", FailTransition,
         UNCHANGED <<ask, askRun, run, runOf, down>>
  PROVE  Claims
<1>1. pending = {}
  BY DEF RouteOK, OwnedByOpenPrompt
<1>2. pending' = {} /\ up' = up /\ notices' = notices /\ popup' = NoAsk
  BY DEF FailTransition, pending
<1> QED
  BY <1>1, <1>2 DEF Claims

\* Operations claim requests.
LEMMA OperationClaims ==
  ASSUME ClaimTypes,
         \/ Stop \/ NewSession \/ Poll
         \/ \E s \in Sessions : LoadSession(s) \/ DeleteSession(s)
  PROVE  Claims
<1>1. Disturb
  BY DEF Stop, NewSession, Poll, LoadSession, DeleteSession, Move
<1>2. UNCHANGED <<hostVars, down, ask, askRun, run, runOf>> /\ Unhandled
  BY <1>1 DEF Disturb, hostVars, Unhandled
<1>3. CASE \E target : BeginTransition(target)
  BY <1>2, <1>3, BeginClaims
<1>4. CASE UNCHANGED <<up, routeVars, claimVars, uiVars>>
  BY <1>2, <1>4, NothingClaimed DEF routeVars, claimVars, uiVars
<1>5. CASE Stop
  <2>1. UNCHANGED <<popup, replies, current>>
    BY <1>5 DEF Stop, routeVars, uiVars
  <2>2. Settle(Owned) \/ UNCHANGED <<up, claimVars>>
    BY <1>5 DEF Stop, CloseActive
  <2>3. CASE Settle(Owned)
    BY <1>2, <2>1, <2>3, OwnedPart, SettleClaims
  <2>4. CASE UNCHANGED <<up, claimVars>>
    BY <1>2, <2>1, <2>4, NothingClaimed DEF claimVars
  <2> QED
    BY <2>2, <2>3, <2>4
<1> QED
  BY <1>3, <1>4, <1>5 DEF Stop, NewSession, Poll, LoadSession, DeleteSession,
     Move

\* So do the steps of the holder of the gate.
LEMMA GateClaims ==
  ASSUME ClaimTypes, RouteOK, OwnedByOpenPrompt,
         \/ PreClose \/ Closed \/ Deleted \/ Opened \/ Refused
         \/ SnapshotRead \/ SnapshotApplied \/ SnapshotFailed
  PROVE  Claims
<1>1. UNCHANGED <<ask, askRun, run, runOf, down>> /\ Unhandled
  BY DEF PreClose, Closed, Deleted, Opened, Refused, SnapshotRead,
     SnapshotApplied,
     SnapshotFailed, hostVars, Unhandled
<1>2. CASE PreClose \/ Closed \/ SnapshotRead
  <2>1. UNCHANGED <<up, owner, notices, popup, replies, current>>
    BY <1>2 DEF PreClose, Closed, SnapshotRead, routeVars, claimVars, uiVars
  <2> QED
    BY <1>1, <2>1, NothingClaimed
<1>3. CASE Deleted \/ Refused
  <2>1. CASE at = "moving"
    <3>1. FailTransition
      BY <1>3, <2>1 DEF Deleted, Refused
    <3> QED
      BY <1>1, <2>1, <3>1, FailClaims
  <2>2. CASE at # "moving"
    <3>1. UNCHANGED <<up, owner, notices, popup, replies, current>>
      BY <1>3, <2>2 DEF Deleted, Refused, routeVars, claimVars, uiVars
    <3> QED
      BY <1>1, <3>1, NothingClaimed
  <2> QED
    BY <2>1, <2>2
<1>4. CASE Opened
  <2>1. UNCHANGED <<up, owner, notices, popup, replies>> /\ gate = "open"
    BY <1>4 DEF Opened, claimVars, uiVars
  <2>2. pending = {}
    BY <2>1 DEF RouteOK, OwnedByOpenPrompt
  <2> QED
    BY <1>1, <2>1, <2>2, NothingClaimed
<1>5. CASE SnapshotApplied
  <2>1. UNCHANGED <<popup, replies, current>>
    BY <1>5 DEF SnapshotApplied, routeVars, uiVars
  <2>2. PICK k, s, i, r :
           /\ k = Bind(inputs[current], reply.instance)
           /\ s = current /\ i = reply.instance /\ r = reply.run
    OBVIOUS
  <2>3. Open(k, s, i, r) \/ UNCHANGED <<up, claimVars>>
    BY <1>5, <2>2 DEF SnapshotApplied
  <2>4. CASE Open(k, s, i, r)
    BY <1>1, <2>1, <2>4, OpenClaims
  <2>5. CASE UNCHANGED <<up, claimVars>>
    BY <1>1, <2>1, <2>5, NothingClaimed DEF claimVars
  <2> QED
    BY <2>3, <2>4, <2>5
<1>6. CASE SnapshotFailed
  <2>1. CASE gate = "first"
    <3>1. Settle(pending) /\ pending \in SUBSET pending /\ popup' = NoAsk
      BY <1>6, <2>1 DEF SnapshotFailed
    <3>2. PICK Q : Q = pending
      OBVIOUS
    <3> QED
      BY <1>1, <3>1, <3>2, SettleClaims
  <2>2. CASE gate # "first"
    <3>1. UNCHANGED <<up, owner, notices, popup, replies, current>>
      BY <1>6, <2>2 DEF SnapshotFailed, routeVars, claimVars, uiVars
    <3> QED
      BY <1>1, <3>1, NothingClaimed
  <2> QED
    BY <2>1, <2>2
<1> QED
  BY <1>2, <1>3, <1>4, <1>5, <1>6

\* A step of the host that sends no request.
Withdraws ==
  /\ UNCHANGED <<askRun, owner, notices, popup, replies, current>>
  /\ \A q \in Asks : \/ ask'[q] = ask[q]
                     \/ ask[q] = "waiting" /\ ask'[q] \in {"answered", "dropped"}
  /\ up' \subseteq up
  /\ \A q \in up \ up' : ask'[q] # "waiting"
  /\ \/ down' = down
     \/ \E kind \in {"started", "done"}, r \in Runs : down' = Append(down,
            Message(kind, r))

\* What the host does to requests, but for sending one.
LEMMA HostWithdraws ==
  ASSUME HostTypes,
         \/ \E r \in Runs : Attach(r) \/ Announce(r) \/ Finish(r) \/ Tell(r)
                             \/ Detach(r)
         \/ \E q \in Asks : Expire(q) \/ Dispatch(q)
         \/ \E m \in stops : Cancel(m)
  PROVE  Withdraws
<1> USE DEF clientVars, claimVars, uiVars, routeVars
<1>1. ASSUME NEW r \in Runs, Attach(r) PROVE Withdraws
  BY <1>1 DEF Attach, Withdraws
<1>2. ASSUME NEW r \in Runs, Announce(r) PROVE Withdraws
  BY <1>2 DEF Announce, Withdraws
<1>3. ASSUME NEW r \in Runs, Finish(r) PROVE Withdraws
  <2>1. \A q \in Asks :
         \/ ask'[q] = ask[q]
         \/ ask[q] = "waiting" /\ ask'[q] \in {"answered", "dropped"}
    BY <1>3 DEF Finish, Waiting
  <2> QED
    BY <1>3, <2>1 DEF Finish, Withdraws
<1>4. ASSUME NEW r \in Runs, Tell(r) PROVE Withdraws
  BY <1>4 DEF Tell, Withdraws
<1>5. ASSUME NEW r \in Runs, Detach(r) PROVE Withdraws
  BY <1>5 DEF Detach, Withdraws
<1>6. ASSUME NEW q \in Asks, Expire(q) PROVE Withdraws
  <2>1. ask' = [ask EXCEPT ![q] = "dropped"] /\ ask[q] = "waiting"
    BY <1>6 DEF Expire
  <2>2. \A p \in Asks :
         \/ ask'[p] = ask[p]
         \/ ask[p] = "waiting" /\ ask'[p] \in {"answered", "dropped"}
    BY <2>1 DEF HostTypes
  <2> QED
    BY <1>6, <2>2 DEF Expire, Withdraws
<1>7. ASSUME NEW q \in Asks, Dispatch(q) PROVE Withdraws
  <2>1. /\ ask' = [ask EXCEPT ![q] = IF @ = "waiting" THEN "answered" ELSE @]
        /\ up' = up \ {q}
    BY <1>7 DEF Dispatch
  <2>2. \A p \in Asks :
         \/ ask'[p] = ask[p]
         \/ ask[p] = "waiting" /\ ask'[p] \in {"answered", "dropped"}
    BY <2>1 DEF HostTypes
  <2>3. ask'[q] # "waiting"
    BY <2>1 DEF HostTypes
  <2> QED
    BY <1>7, <2>1, <2>2, <2>3 DEF Dispatch, Withdraws
<1>8. ASSUME NEW m \in stops, Cancel(m) PROVE Withdraws
  BY <1>8 DEF Cancel, Withdraws
<1> QED
  BY <1>1, <1>2, <1>3, <1>4, <1>5, <1>6, <1>7, <1>8

\* What any step does to the requests.
LEMMA RequestSteps ==
  ASSUME TypeOK, RouteOK, HostOK, OwnedByOpenPrompt, DownOK, [Next]_vars
  PROVE  \/ Withdraws \/ Claims \/ \E r \in Runs, q \in Asks : Ask(r, q)
         \/ PumpAsk \/ ShowAsk \/ ShowEnd
<1>1. /\ HostTypes /\ LinkTypes /\ RouteTypes /\ PromptTypes /\ ClaimTypes
      /\ GateTypes /\ UiTypes
  BY TypeParts
<1>2. CASE UNCHANGED vars
  BY <1>2 DEF vars, hostVars, clientVars, routeVars, claimVars, uiVars,
     Withdraws
<1> QED
  BY <1>1, <1>2, HostWithdraws, PumpClaims, UserClaims, OperationClaims,
     GateClaims
     DEF Next, HostMoves

\* The asks that were not withdrawn still wait; none is sent.
LEMMA WithdrawnAsks ==
  ASSUME Withdraws
  PROVE  \A q \in Asks :
           /\ ask'[q] = "unused" <=> ask[q] = "unused"
           /\ ask'[q] = "waiting" => ask[q] = "waiting"
BY DEF Withdraws

\* The next request is newer than any that was sent.
LEMMA AskIs ==
  ASSUME HostTypes, AskersOK, NEW r \in Runs, NEW q \in Asks, Ask(r, q)
  PROVE  /\ ask[q] = "unused" /\ ask'[q] = "waiting" /\ askRun'[q] = r
         /\ \A p \in Asks \ {q} : ask'[p] = ask[p] /\ askRun'[p] = askRun[p]
         /\ \A p \in Asks : ask[p] # "unused" => p < q
         /\ \A p \in Asks : q < p => ask[p] = "unused"
         /\ \A p \in Asks : p < q => ask[p] # "unused"
<1>1. /\ ask' = [ask EXCEPT ![q] = "waiting"] /\ askRun' = [askRun EXCEPT ![q] = r]
      /\ ask[q] = "unused" /\ \A p \in DOMAIN ask : p < q => ask[p] # "unused"
  BY DEF Ask, First
<1>2. /\ ask'[q] = "waiting" /\ askRun'[q] = r
      /\ \A p \in Asks \ {q} : ask'[p] = ask[p] /\ askRun'[p] = askRun[p]
      /\ \A p \in Asks : p < q => ask[p] # "unused"
  BY <1>1 DEF HostTypes
<1>3. \A p \in Asks : q < p => ask[p] = "unused"
  BY <1>1 DEF AskersOK
<1>4. \A p \in Asks : ask[p] # "unused" => p < q
  BY <1>1, <1>3 DEF Asks
<1> QED
  BY <1>1, <1>2, <1>3, <1>4

\* The host keeps the order of requests, one at a time for each run.
LEMMA AskersHostStep ==
  ASSUME HostTypes, RouteTypes, ClaimTypes, HostOK, AskersOK, SentOK, HostMoves
  PROVE  AskersOK'
<1> USE DEF SessionOf
<1>0. pending' = pending /\ current' = current
  BY HostLeavesClient DEF clientVars, claimVars, routeVars, pending
<1>1. ASSUME NEW r \in Runs, NEW q \in Asks, Ask(r, q) PROVE AskersOK'
  <2>1. /\ ask[q] = "unused" /\ ask'[q] = "waiting" /\ askRun'[q] = r
        /\ \A p \in Asks \ {q} : ask'[p] = ask[p] /\ askRun'[p] = askRun[p]
        /\ \A p \in Asks : ask[p] # "unused" => p < q
        /\ \A p \in Asks : q < p => ask[p] = "unused"
        /\ \A p \in Asks : p < q => ask[p] # "unused"
    BY <1>1, AskIs
  <2>2. run[r] = "running" /\ Waiting(r) = {} /\ UNCHANGED <<run, runOf>>
    BY <1>1 DEF Ask
  <2>3. ASSUME NEW p \in Asks, ask[p] = "waiting"
        PROVE  runOf[askRun[p]].session # runOf[r].session
    <3>1. askRun[p] \in Runs /\ run[askRun[p]] = "running"
      BY <2>3 DEF AskersOK
    <3>2. askRun[p] # r
      BY <2>2, <2>3 DEF Waiting
    <3> QED
      BY <2>2, <3>1, <3>2 DEF HostOK, Executes
  <2>4. q \notin pending
    BY <2>1 DEF SentOK
  <2>5. \A p \in Asks, x \in Asks :
          ask'[p] = "unused" /\ p < x => ask'[x] = "unused"
    BY <2>1 DEF AskersOK, Asks
  <2>6. \A p \in Asks : ask'[p] # "unused" =>
          askRun'[p] \in Runs /\ run[askRun'[p]] \notin {"unused", "attached"}
    BY <2>1, <2>2 DEF AskersOK
  <2>7. \A p \in Asks : ask'[p] = "waiting" => run[askRun'[p]] = "running"
    BY <2>1, <2>2 DEF AskersOK
  <2>8. ASSUME NEW p \in Asks, NEW x \in Asks,
               ask'[p] = "waiting", p < x, ask'[x] # "unused"
        PROVE  runOf[askRun'[p]].session # runOf[askRun'[x]].session
    <3>1. CASE x = q
      <4>1. p # q
        BY <2>8, <3>1 DEF Asks
      <4> QED
        BY <2>1, <2>3, <2>8, <3>1, <4>1
    <3>2. CASE x # q /\ p # q
      BY <2>1, <2>8, <3>2 DEF AskersOK
    <3>3. CASE x # q /\ p = q
      BY <2>1, <2>8, <3>3
    <3> QED
      BY <3>1, <3>2, <3>3
  <2>9. \A p \in pending : askRun'[p] = askRun[p]
    BY <2>1, <2>4, <1>1 DEF Ask, HostTypes
  <2> QED
    BY <1>0, <2>2, <2>5, <2>6, <2>7, <2>8, <2>9 DEF AskersOK
<1>2. ASSUME Withdraws, runOf' = runOf,
             \A p \in Runs : run[p] \notin {"unused", "attached"} =>
                            run'[p] \notin {"unused", "attached"},
             \A q \in Asks : ask'[q] = "waiting" => run'[askRun[q]] = "running"
      PROVE  AskersOK'
  <2>1. askRun' = askRun
    BY <1>2 DEF Withdraws
  <2> QED
    BY <1>0, <1>2, <2>1, WithdrawnAsks DEF AskersOK
<1>3. ASSUME NEW r \in Runs, Attach(r) PROVE AskersOK'
  <2>1. /\ run[r] = "unused" /\ run' = [run EXCEPT ![r] = "attached"]
        /\ UNCHANGED <<ask, askRun>>
    BY <1>3 DEF Attach, First
  <2>2. \A p \in Runs \ {r} : run'[p] = run[p] /\ runOf'[p] = runOf[p]
    BY <1>3 DEF Attach, HostTypes
  <2>3. \A q \in Asks : ask[q] # "unused" => askRun[q] \in Runs \ {r}
    BY <2>1 DEF AskersOK
  <2>4. \A q \in pending : askRun[q] \in Runs \ {r}
    BY <2>3 DEF SentOK, ClaimTypes
  <2> QED
    BY <1>0, <2>1, <2>2, <2>3, <2>4 DEF AskersOK
<1>4. ASSUME NEW r \in Runs, Announce(r) \/ Tell(r) \/ Detach(r) PROVE AskersOK'
  <2>1. Withdraws
    BY <1>4, HostWithdraws
  <2>2. /\ runOf' = runOf /\ ask' = ask /\ run[r] # "running"
        /\ run'[r] \notin {"unused", "attached"}
        /\ \A p \in Runs \ {r} : run'[p] = run[p]
    BY <1>4 DEF Announce, Tell, Detach, HostTypes
  <2>3. \A q \in Asks : ask'[q] = "waiting" => run'[askRun[q]] = "running"
    BY <2>2 DEF AskersOK
  <2> QED
    BY <1>2, <2>1, <2>2, <2>3
<1>5. ASSUME NEW r \in Runs, Finish(r) PROVE AskersOK'
  <2>1. Withdraws
    BY <1>5, HostWithdraws
  <2>2. /\ runOf' = runOf
        /\ run'[r] \notin {"unused", "attached"}
        /\ \A p \in Runs \ {r} : run'[p] = run[p]
    BY <1>5 DEF Finish, HostTypes
  <2>3. ask' = [q \in Asks |-> IF q \in Waiting(r) THEN "dropped" ELSE ask[q]]
    BY <1>5 DEF Finish
  <2>4. \A q \in Asks : ask'[q] = "waiting" => ask[q] = "waiting" /\ askRun[q] # r
    BY <2>3 DEF Waiting
  <2>5. \A q \in Asks : ask'[q] = "waiting" => run'[askRun[q]] = "running"
    BY <2>2, <2>4 DEF AskersOK
  <2> QED
    BY <1>2, <2>1, <2>2, <2>5
<1>6. ASSUME \/ \E q \in Asks : Expire(q) \/ Dispatch(q)
             \/ \E m \in stops : Cancel(m)
      PROVE  AskersOK'
  <2>1. UNCHANGED <<run, runOf>>
    BY <1>6 DEF Expire, Dispatch, Cancel
  <2>2. Withdraws
    BY <1>6, HostWithdraws
  <2>3. \A q \in Asks : ask'[q] = "waiting" => run'[askRun[q]] = "running"
    BY <2>1, <2>2, WithdrawnAsks DEF AskersOK
  <2> QED
    BY <1>2, <2>1, <2>2, <2>3
<1> QED
  BY <1>1, <1>3, <1>4, <1>5, <1>6 DEF HostMoves

\* A step of the client does too.
LEMMA AskersKept ==
  ASSUME AskersOK, UNCHANGED <<ask, askRun, run, runOf>>,
         \A q \in pending' : runOf[askRun[q]].session = current'
  PROVE  AskersOK'
BY DEF AskersOK, SessionOf

\* Every step does.
LEMMA AskersStep ==
  ASSUME TypeOK, RouteOK, HostOK, OwnedByOpenPrompt, DownOK, AskersOK, SentOK,
         [Next]_vars
  PROVE  AskersOK'
<1>1. /\ HostTypes /\ LinkTypes /\ RouteTypes /\ PromptTypes /\ ClaimTypes
      /\ GateTypes /\ UiTypes
  BY TypeParts
<1>0. \A q \in pending : runOf[askRun[q]].session = current
  BY DEF AskersOK, SessionOf
<1>2. CASE UNCHANGED vars
  <2>1. UNCHANGED <<ask, askRun, run, runOf, owner, current>>
    BY <1>2 DEF vars, hostVars, clientVars, claimVars, routeVars
  <2>2. pending' = pending
    BY <2>1 DEF pending
  <2> QED
    BY <1>0, <2>1, <2>2, AskersKept
<1>3. CASE HostMoves
  BY <1>1, <1>3, AskersHostStep
<1>4. CASE Claims
  <2>1. UNCHANGED <<ask, askRun, run, runOf>> /\ pending' \subseteq pending
        /\ (pending' # {} => current' = current)
    BY <1>4 DEF Claims
  <2> QED
    BY <1>0, <2>1, AskersKept
<1>5. CASE PumpAsk
  <2>1. UNCHANGED <<ask, askRun, run, runOf, current>>
    BY <1>5 DEF PumpAsk, Pump, hostVars, routeVars
  <2>2. PICK q \in Asks :
           \/ Registers(SessionOf(askRun[q]), q)
           \/ up' = up \cup {q} /\ UNCHANGED claimVars
    BY <1>1, <1>5, PumpAskIs
  <2>3. CASE Registers(SessionOf(askRun[q]), q)
    <3>1. PICK s : s = SessionOf(askRun[q])
      OBVIOUS
    <3>2. current = s /\ pending' = pending \cup {q}
      BY <2>3, <3>1 DEF Registers, pending
    <3> QED
      BY <1>0, <2>1, <3>1, <3>2, AskersKept DEF SessionOf
  <2>4. CASE UNCHANGED claimVars
    <3>1. pending' = pending
      BY <2>4 DEF claimVars, pending
    <3> QED
      BY <1>0, <2>1, <3>1, AskersKept
  <2> QED
    BY <2>2, <2>3, <2>4
<1>6. CASE ShowAsk \/ ShowEnd
  <2>1. UNCHANGED <<ask, askRun, run, runOf, owner, current>>
    BY <1>6 DEF ShowAsk, ShowEnd, Notice, hostVars, routeVars
  <2>2. pending' = pending
    BY <2>1 DEF pending
  <2> QED
    BY <1>0, <2>1, <2>2, AskersKept
<1> QED
  BY <1>1, <1>2, <1>3, <1>4, <1>5, <1>6, PumpClaims, UserClaims,
     OperationClaims,
     GateClaims DEF Next, HostMoves

\* Asks that are on their way stay in their places while the host sends.
LEMMA DownWithdraws ==
  ASSUME LinkTypes, Withdraws
  PROVE  /\ \A n \in DOMAIN down : n \in DOMAIN down' /\ down'[n] = down[n]
         /\ \A n \in DOMAIN down' :
              \/ n \in DOMAIN down /\ down'[n] = down[n]
              \/ down'[n].kind # "ask"
<1>1. CASE down' = down
  BY <1>1
<1>2. CASE down' # down
  <2>1. PICK kind \in {"started", "done"}, r \in Runs :
           down' = Append(down, Message(kind, r))
    BY <1>2 DEF Withdraws
  <2>2. Message(kind, r) \in Downs /\ down \in Seq(Downs) /\
            Message(kind, r).kind # "ask"
    BY DEF Message, Downs, LinkTypes
  <2> HIDE DEF Message
  <2>3. PICK m : m = Message(kind, r)
    OBVIOUS
  <2>4. /\ \A n \in DOMAIN down : n \in DOMAIN down' /\ down'[n] = down[n]
        /\ \A n \in DOMAIN down' : (n \in DOMAIN down /\ down'[n] = down[n]) \/
               down'[n] = m
    BY <2>1, <2>2, <2>3, AppendIn
  <2> QED
    BY <2>2, <2>3, <2>4
<1> QED
  BY <1>1, <1>2

\* Handling a notification moves the others up.
LEMMA DownMoves ==
  ASSUME LinkTypes, down # <<>>, down' = Tail(down)
  PROVE  /\ \A n \in DOMAIN down' : n \in Nat /\ n > 0 /\
                n + 1 \in DOMAIN down /\ down'[n] = down[n + 1]
         /\ \A n \in DOMAIN down : n # 1 => \E m \in DOMAIN down' :
                down'[m] = down[n]
         /\ 1 \in DOMAIN down /\ down[1] = Head(down)
<1>1. down \in Seq(Downs)
  BY DEF LinkTypes
<1> QED
  BY <1>1, TailIn

\* Showing a notice moves the others up.
LEMMA NoticesMove ==
  ASSUME ClaimTypes, notices # <<>>, notices' = Tail(notices)
  PROVE  /\ \A n \in DOMAIN notices' :
              n \in Nat /\ n > 0 /\ n + 1 \in DOMAIN notices /\
                  notices'[n] = notices[n + 1]
         /\ \A n \in DOMAIN notices :
              n # 1 => \E m \in DOMAIN notices' : notices'[m] = notices[n]
         /\ 1 \in DOMAIN notices /\ notices[1] = Head(notices)
<1>1. notices \in Seq(Notices)
  BY DEF ClaimTypes
<1> QED
  BY <1>1, TailIn

\* Requests on their way stay in order behind what the pump handles.
LEMMA DownUnhandled ==
  ASSUME LinkTypes, Unhandled
  PROVE  \E d \in {0, 1} :
           /\ \A n \in DOMAIN down' : n \in Nat /\ n + d \in DOMAIN down /\
                  down'[n] = down[n + d]
           /\ \A n \in DOMAIN down :
                down[n].kind = "ask" => \E m \in DOMAIN down' : down'[m] = down[n]
<1>1. CASE down' = down
  <2>1. \A n \in DOMAIN down : n \in Nat /\ n + 0 = n
    BY DEF LinkTypes
  <2> QED
    BY <1>1, <2>1
<1>2. CASE down # <<>> /\ down' = Tail(down) /\ Head(down).kind # "ask"
  BY <1>2, DownMoves
<1> QED
  BY <1>1, <1>2 DEF Unhandled

\* The same requests are on their way.
LEMMA DownAsks ==
  ASSUME LinkTypes, Withdraws \/ Unhandled
  PROVE  \A q \in Asks : InDown("ask", q)' <=> InDown("ask", q)
<1>0. \A q \in Asks : Message("ask", q).kind = "ask"
  BY DEF Message
<1> HIDE DEF Message
<1>1. CASE Withdraws
  BY <1>0, <1>1, DownWithdraws DEF InDown
<1>2. CASE Unhandled
  BY <1>0, <1>2, DownUnhandled DEF InDown
<1> QED
  BY <1>1, <1>2

\* A request that is sent comes behind the others.
LEMMA DownAsk ==
  ASSUME LinkTypes, NEW r \in Runs, NEW q \in Asks, Ask(r, q)
  PROVE  /\ \A n \in DOMAIN down : n \in DOMAIN down' /\ down'[n] = down[n]
         /\ \A n \in DOMAIN down' :
              \/ n \in DOMAIN down /\ down'[n] = down[n]
              \/ down'[n] = Message("ask", q) /\ \A m \in DOMAIN down : m < n
         /\ InDown("ask", q)'
<1>1. down \in Seq(Downs) /\ Message("ask", q) \in Downs
  BY DEF LinkTypes, Message, Downs
<1>2. down' = Append(down, Message("ask", q))
  BY DEF Ask
<1> HIDE DEF Message
<1>3. PICK m : m = Message("ask", q)
  OBVIOUS
<1>4. /\ \A n \in DOMAIN down : n \in DOMAIN down' /\ down'[n] = down[n]
      /\ \A n \in DOMAIN down' :
           \/ n \in DOMAIN down /\ down'[n] = down[n]
           \/ down'[n] = m /\ \A x \in DOMAIN down : x < n
      /\ \E n \in DOMAIN down' : down'[n] = m
  BY <1>1, <1>2, <1>3, AppendIn
<1>5. InDown("ask", q)'
  BY <1>3, <1>4 DEF InDown
<1> QED
  BY <1>3, <1>4, <1>5

\* What is handled was sent once.
LEMMA DownPumpAsk ==
  ASSUME LinkTypes, OrderOK, NEW q \in Asks, down # <<>>, down' = Tail(down),
         Head(down) = Message("ask", q)
  PROVE  /\ \A p \in Asks : InDown("ask", p)' <=> InDown("ask", p) /\ p # q
         /\ InDown("ask", q)
         /\ \A n \in DOMAIN down' : down'[n].kind = "ask" => q < down'[n].of
<1>1. /\ \A n \in DOMAIN down' : n \in Nat /\ n > 0 /\ n + 1 \in DOMAIN down /\
             down'[n] = down[n + 1]
      /\ \A n \in DOMAIN down : n # 1 => \E m \in DOMAIN down' : down'[m] = down[n]
      /\ 1 \in DOMAIN down /\ down[1] = Message("ask", q)
  BY DownMoves
<1>0. \A p \in Asks : Message("ask", p).kind = "ask" /\ Message("ask", p).of = p
  BY DEF Message
<1> HIDE DEF Message
<1>2. \A n \in DOMAIN down' : down'[n].kind = "ask" => q < down'[n].of
  <2>1. \A n \in DOMAIN down' : 1 < n + 1
    BY <1>1
  <2> QED
    BY <1>0, <1>1, <2>1 DEF OrderOK
<1>3. InDown("ask", q)
  BY <1>1 DEF InDown
<1>4. ~ InDown("ask", q)'
  <2>1. ~ (q < q)
    BY DEF Asks
  <2> QED
    BY <1>0, <1>2, <2>1 DEF InDown
<1>5. ASSUME NEW p \in Asks, p # q
      PROVE  InDown("ask", p)' <=> InDown("ask", p)
  <2>1. Message("ask", p) # Message("ask", q)
    BY <1>0, <1>5
  <2> QED
    BY <1>1, <2>1 DEF InDown
<1> QED
  BY <1>2, <1>3, <1>4, <1>5

\* A request that is registered is told behind what was told before.
LEMMA NoticesAsk ==
  ASSUME ClaimTypes, NEW s, NEW q \in Asks, Registers(s, q)
  PROVE  /\ pending' = pending \cup {q} /\ up' = up
         /\ \A n \in DOMAIN notices : n \in DOMAIN notices' /\
                notices'[n] = notices[n]
         /\ \A n \in DOMAIN notices' :
              \/ n \in DOMAIN notices /\ notices'[n] = notices[n]
              \/ notices'[n] = Message("ask", q) /\ \A m \in DOMAIN notices : m < n
         /\ InNotices("ask", q)'
<1>1. notices \in Seq(Notices) /\ Message("ask", q) \in Notices
  BY DEF ClaimTypes, Message, Notices
<1>2. notices' = Append(notices, Message("ask", q)) /\ up' = up
  BY DEF Registers
<1>3. pending' = pending \cup {q}
  BY DEF Registers, pending
<1> HIDE DEF Message
<1>4. PICK m : m = Message("ask", q)
  OBVIOUS
<1>5. /\ \A n \in DOMAIN notices : n \in DOMAIN notices' /\ notices'[n] = notices[n]
      /\ \A n \in DOMAIN notices' :
           \/ n \in DOMAIN notices /\ notices'[n] = notices[n]
           \/ notices'[n] = m /\ \A x \in DOMAIN notices : x < n
      /\ \E n \in DOMAIN notices' : notices'[n] = m
  BY <1>1, <1>2, <1>4, AppendIn
<1>6. InNotices("ask", q)'
  BY <1>4, <1>5 DEF InNotices
<1> QED
  BY <1>2, <1>3, <1>4, <1>5, <1>6

\* A notice names a request.
LEMMA NoticeTypes ==
  ASSUME ClaimTypes
  PROVE  \A n \in DOMAIN notices : notices[n] \in Notices /\ notices[n].of \in Asks
<1>1. notices \in Seq(Notices)
  BY DEF ClaimTypes
<1>2. \A n \in DOMAIN notices : notices[n] \in Notices
  BY <1>1
<1> QED
  BY <1>2 DEF Notices

\* The fields of a notice.
LEMMA AskMessage ==
  \A q \in Asks :
    /\ Message("ask", q).kind = "ask" /\ Message("ask", q).of = q
    /\ Message("end", q).kind = "end" /\ Message("end", q).of = q
BY DEF Message

\* Every step speaks of requests that were sent.
LEMMA SentStep ==
  ASSUME TypeOK, RouteOK, HostOK, OwnedByOpenPrompt, DownOK, AskersOK, SentOK,
         [Next]_vars
  PROVE  SentOK'
<1>0. /\ HostTypes /\ LinkTypes /\ RouteTypes /\ PromptTypes /\ ClaimTypes
      /\ GateTypes /\ UiTypes
  BY TypeParts
<1>1. CASE Withdraws
  <2>1. UNCHANGED <<owner, notices, popup>> /\ up' \subseteq up
    BY <1>1 DEF Withdraws
  <2>2. pending' = pending
    BY <2>1 DEF pending
  <2>3. \A n \in DOMAIN notices : notices[n].of \in Asks
    BY <1>0, NoticeTypes
  <2>4. \A n \in DOMAIN down' : down'[n].kind = "ask" =>
            n \in DOMAIN down /\ down'[n] = down[n]
    BY <1>0, <1>1, DownWithdraws
  <2>5. \A q \in Asks : ask[q] # "unused" => ask'[q] # "unused"
    BY <1>1, WithdrawnAsks
  <2>6. pending \cup up \subseteq Asks /\ popup \in Asks \cup {NoAsk}
    BY <1>0 DEF ClaimTypes, UiTypes
  <2> QED
    BY <2>1, <2>2, <2>3, <2>4, <2>5, <2>6 DEF SentOK
<1>2. CASE Claims
  <2>1. /\ ask' = ask /\ pending' \cup up' \subseteq pending \cup up /\ Unhandled
        /\ popup' \in {popup, NoAsk}
        /\ \A n \in DOMAIN notices' :
             \/ n \in DOMAIN notices /\ notices'[n] = notices[n]
             \/ notices'[n].kind = "end" /\ notices'[n].of \in pending \ pending'
    BY <1>2 DEF Claims, Unhandled
  <2>2. \A n \in DOMAIN down' : \E m \in DOMAIN down : down'[n] = down[m]
    BY <1>0, <2>1, DownUnhandled
  <2> QED
    BY <2>1, <2>2 DEF SentOK
<1>3. ASSUME NEW r \in Runs, NEW q \in Asks, Ask(r, q) PROVE SentOK'
  <2>1. UNCHANGED <<owner, notices, popup, up>>
    BY <1>3 DEF Ask, clientVars, claimVars, uiVars
  <2>2. pending' = pending
    BY <2>1 DEF pending
  <2>3. \A p \in Asks : ask[p] # "unused" => ask'[p] # "unused"
    BY <1>0, <1>3, AskIs
  <2>4. ask'[q] # "unused"
    BY <1>0, <1>3, AskIs
  <2>5. \A n \in DOMAIN down' :
           \/ n \in DOMAIN down /\ down'[n] = down[n]
           \/ down'[n] = Message("ask", q)
    BY <1>0, <1>3, DownAsk
  <2>6. \A n \in DOMAIN notices : notices[n].of \in Asks
    BY <1>0, NoticeTypes
  <2>7. pending \cup up \subseteq Asks /\ popup \in Asks \cup {NoAsk}
    BY <1>0 DEF ClaimTypes, UiTypes
  <2>8. \A n \in DOMAIN down' : down'[n].kind = "ask" =>
          down'[n].of \in Asks /\ ask'[down'[n].of] # "unused"
    BY <2>3, <2>4, <2>5, AskMessage DEF SentOK
  <2> QED
    BY <2>1, <2>2, <2>3, <2>6, <2>7, <2>8 DEF SentOK
<1>4. CASE PumpAsk
  <2>1. ask' = ask /\ popup' = popup /\ down # <<>> /\ down' = Tail(down)
    BY <1>4 DEF PumpAsk, Pump, hostVars, uiVars
  <2>2. PICK q \in Asks :
           /\ ask[q] # "unused"
           /\ \/ Registers(SessionOf(askRun[q]), q)
              \/ up' = up \cup {q} /\ UNCHANGED claimVars
    BY <1>0, <1>4, PumpAskIs
  <2>3. \A n \in DOMAIN down' : \E m \in DOMAIN down : down'[n] = down[m]
    BY <1>0, <2>1, DownMoves
  <2>4. /\ pending' \cup up' \subseteq pending \cup up \cup {q}
        /\ \A n \in DOMAIN notices' :
             \/ n \in DOMAIN notices /\ notices'[n] = notices[n]
             \/ notices'[n] = Message("ask", q)
    <3>1. CASE Registers(SessionOf(askRun[q]), q)
      <4>1. PICK s : s = SessionOf(askRun[q])
        OBVIOUS
      <4> QED
        BY <1>0, <3>1, <4>1, NoticesAsk
    <3>2. CASE up' = up \cup {q} /\ UNCHANGED claimVars
      BY <3>2 DEF claimVars, pending
    <3> QED
      BY <2>2, <3>1, <3>2
  <2> QED
    BY <2>1, <2>2, <2>3, <2>4, AskMessage DEF SentOK
<1>5. CASE ShowAsk \/ ShowEnd
  <2>1. UNCHANGED <<ask, down, up, owner>> /\ notices # <<>> /\
            notices' = Tail(notices)
    BY <1>5 DEF ShowAsk, ShowEnd, Notice, hostVars
  <2>2. popup' \in {popup, NoAsk, Head(notices).of}
    BY <1>5 DEF ShowAsk, ShowEnd
  <2>3. /\ \A n \in DOMAIN notices' : \E m \in DOMAIN notices :
               notices'[n] = notices[m]
        /\ 1 \in DOMAIN notices /\ notices[1] = Head(notices)
    BY <1>0, <2>1, NoticesMove
  <2>4. pending' = pending
    BY <2>1 DEF pending
  <2> QED
    BY <2>1, <2>2, <2>3, <2>4 DEF SentOK
<1> QED
  BY <1>1, <1>2, <1>3, <1>4, <1>5, RequestSteps

\* Every step keeps the order of requests.
LEMMA OrderStep ==
  ASSUME TypeOK, RouteOK, HostOK, OwnedByOpenPrompt, DownOK, AskersOK, SentOK,
         OrderOK,
         [Next]_vars
  PROVE  OrderOK'
<1>0. /\ HostTypes /\ LinkTypes /\ RouteTypes /\ PromptTypes /\ ClaimTypes
      /\ GateTypes /\ UiTypes
  BY TypeParts
<1>1. CASE Withdraws
  <2>1. UNCHANGED <<notices, popup>>
    BY <1>1 DEF Withdraws
  <2>2. \A n \in DOMAIN down' : down'[n].kind = "ask" =>
            n \in DOMAIN down /\ down'[n] = down[n]
    BY <1>0, <1>1, DownWithdraws
  <2> QED
    BY <2>1, <2>2 DEF OrderOK
<1>2. CASE Claims
  <2>1. /\ Unhandled /\ popup' \in {popup, NoAsk}
        /\ \A n \in DOMAIN notices' : notices'[n].kind = "ask" =>
             n \in DOMAIN notices /\ notices'[n] = notices[n]
    BY <1>2 DEF Claims, Unhandled
  <2>2. PICK d \in {0, 1} :
           \A n \in DOMAIN down' : n \in Nat /\ n + d \in DOMAIN down /\
               down'[n] = down[n + d]
    BY <1>0, <2>1, DownUnhandled
  <2>3. \A m \in DOMAIN down', n \in DOMAIN down' : m < n => m + d < n + d
    BY <2>2
  <2>4. \A m \in DOMAIN down', n \in DOMAIN down' :
          m < n /\ down'[m].kind = "ask" /\ down'[n].kind = "ask" =>
            down'[m].of < down'[n].of
    BY <2>2, <2>3 DEF OrderOK
  <2>5. \A m \in DOMAIN notices', n \in DOMAIN down' :
          notices'[m].kind = "ask" /\ down'[n].kind = "ask" =>
            notices'[m].of < down'[n].of
    BY <2>1, <2>2 DEF OrderOK
  <2>6. \A m \in DOMAIN notices', n \in DOMAIN notices' :
          m < n /\ notices'[m].kind = "ask" /\ notices'[n].kind = "ask" =>
            notices'[m].of < notices'[n].of
    BY <2>1 DEF OrderOK
  <2>7. CASE popup' = popup
    <3>1. \A n \in DOMAIN down' : down'[n].kind = "ask" => popup < down'[n].of
      BY <2>2 DEF OrderOK
    <3>2. \A n \in DOMAIN notices' : notices'[n].kind = "ask" =>
              popup < notices'[n].of
      BY <2>1 DEF OrderOK
    <3> QED
      BY <2>4, <2>5, <2>6, <2>7, <3>1, <3>2 DEF OrderOK
  <2>8. CASE popup' = NoAsk
    <3>1. \A q \in Asks : NoAsk < q
      BY DEF Asks, NoAsk
    <3>2. \A n \in DOMAIN down' : down'[n].kind = "ask" => down'[n].of \in Asks
      BY <2>2 DEF SentOK
    <3>3. \A n \in DOMAIN notices' : notices'[n].kind = "ask" =>
              notices'[n].of \in Asks
      BY <1>0, <2>1, NoticeTypes
    <3> QED
      BY <2>4, <2>5, <2>6, <2>8, <3>1, <3>2, <3>3 DEF OrderOK
  <2> QED
    BY <2>1, <2>7, <2>8
<1>3. ASSUME NEW r \in Runs, NEW q \in Asks, Ask(r, q) PROVE OrderOK'
  <2>1. UNCHANGED <<notices, popup>>
    BY <1>3 DEF Ask, clientVars, claimVars, uiVars
  <2>2. \A p \in Asks : ask[p] # "unused" => p < q
    BY <1>0, <1>3, AskIs
  <2>3. \A n \in DOMAIN down' :
           \/ n \in DOMAIN down /\ down'[n] = down[n]
           \/ down'[n] = Message("ask", q) /\ \A m \in DOMAIN down : m < n
    BY <1>0, <1>3, DownAsk
  <2>4. \A n \in DOMAIN notices : notices[n].of < q
    BY <1>0, <2>2, NoticeTypes DEF SentOK
  <2>5. popup < q
    BY <1>0, <2>2 DEF SentOK, UiTypes, NoAsk, Asks
  <2>6. \A n \in DOMAIN down : down[n].kind = "ask" => down[n].of < q
    BY <2>2 DEF SentOK
  <2>7. \A n \in DOMAIN down' : n \in Nat
    <3>1. down' \in Seq(Downs)
      BY <1>0, <1>3, Sent DEF Ask
    <3> QED
      BY <3>1
  <2>8. ASSUME NEW m \in DOMAIN down', NEW n \in DOMAIN down',
               m < n, down'[m].kind = "ask", down'[n].kind = "ask"
        PROVE  down'[m].of < down'[n].of
    <3>1. CASE n \in DOMAIN down /\ m \in DOMAIN down
      <4>1. \A x \in DOMAIN down : down'[x] = down[x]
        BY <1>0, <1>3, DownAsk
      <4> QED
        BY <2>8, <3>1, <4>1 DEF OrderOK
    <3>2. CASE n \notin DOMAIN down /\ m \in DOMAIN down
      BY <1>0, <1>3, <2>3, <2>6, <2>8, <3>2, DownAsk, AskMessage
    <3>3. CASE m \notin DOMAIN down
      <4>1. n \notin DOMAIN down
        <5>1. n \in DOMAIN down => n < m
          BY <2>3, <3>3
        <5> QED
          BY <2>7, <2>8, <5>1
      <4>2. n \in DOMAIN down' /\ m \in DOMAIN down'
        OBVIOUS
      <4>3. m = n
        <5>1. down \in Seq(Downs) /\ Message("ask", q) \in Downs
          BY <1>0 DEF LinkTypes, Message, Downs
        <5>2. down' = Append(down, Message("ask", q))
          BY <1>3 DEF Ask
        <5>3. PICK x : x = Message("ask", q)
          OBVIOUS
        <5>4. DOMAIN down' = 1..(Len(down) + 1) /\ DOMAIN down = 1..Len(down) /\
                  Len(down) \in Nat
          BY <5>1, <5>2, <5>3
        <5> QED
          BY <3>3, <4>1, <5>4
      <4> QED
        BY <2>7, <2>8, <4>3
    <3> QED
      BY <3>1, <3>2, <3>3
  <2>9. \A m \in DOMAIN notices, n \in DOMAIN down' :
          notices[m].kind = "ask" /\ down'[n].kind = "ask" =>
              notices[m].of < down'[n].of
    BY <2>3, <2>4, AskMessage DEF OrderOK
  <2>10. \A n \in DOMAIN down' : down'[n].kind = "ask" => popup < down'[n].of
    BY <2>3, <2>5, AskMessage DEF OrderOK
  <2> QED
    BY <2>1, <2>8, <2>9, <2>10 DEF OrderOK
<1>4. CASE PumpAsk
  <2>1. popup' = popup /\ down # <<>> /\ down' = Tail(down)
    BY <1>4 DEF PumpAsk, Pump, uiVars
  <2>2. PICK q \in Asks :
           /\ Head(down) = Message("ask", q) /\ 1 \in DOMAIN down /\
                  down[1] = Head(down)
           /\ \/ Registers(SessionOf(askRun[q]), q)
              \/ up' = up \cup {q} /\ UNCHANGED claimVars
    BY <1>0, <1>4, PumpAskIs
  <2>3. \A n \in DOMAIN down' : n \in Nat /\ n > 0 /\ n + 1 \in DOMAIN down /\
            down'[n] = down[n + 1]
    BY <1>0, <2>1, DownMoves
  <2>4. \A n \in DOMAIN down' : down'[n].kind = "ask" => q < down'[n].of
    BY <1>0, <2>1, <2>2, DownPumpAsk
  <2>5. \A m \in DOMAIN down', n \in DOMAIN down' : m < n => m + 1 < n + 1
    BY <2>3
  <2>6. \A m \in DOMAIN down', n \in DOMAIN down' :
          m < n /\ down'[m].kind = "ask" /\ down'[n].kind = "ask" =>
            down'[m].of < down'[n].of
    BY <2>3, <2>5 DEF OrderOK
  <2>7. /\ popup < q
        /\ \A n \in DOMAIN notices : notices[n].kind = "ask" => notices[n].of < q
    BY <2>2, AskMessage DEF OrderOK
  <2>8. \A n \in DOMAIN notices' :
           \/ n \in DOMAIN notices /\ notices'[n] = notices[n]
           \/ notices'[n] = Message("ask", q) /\ \A m \in DOMAIN notices : m < n
    <3>1. CASE Registers(SessionOf(askRun[q]), q)
      <4>1. PICK s : s = SessionOf(askRun[q])
        OBVIOUS
      <4> QED
        BY <1>0, <3>1, <4>1, NoticesAsk
    <3>2. CASE UNCHANGED claimVars
      BY <3>2 DEF claimVars
    <3> QED
      BY <2>2, <3>1, <3>2
  <2>9. \A m \in DOMAIN notices', n \in DOMAIN notices' :
          m \in Nat /\ n \in Nat /\ (m \notin DOMAIN notices /\
              n \notin DOMAIN notices => m = n)
    <3>1. CASE notices' = notices
      <4>1. notices \in Seq(Notices)
        BY <1>0 DEF ClaimTypes
      <4> QED
        BY <3>1, <4>1
    <3>2. CASE notices' = Append(notices, Message("ask", q))
      <4>1. notices \in Seq(Notices) /\ Message("ask", q) \in Notices
        BY <1>0 DEF ClaimTypes, Message, Notices
      <4>2. PICK x : x = Message("ask", q)
        OBVIOUS
      <4>3. DOMAIN notices' = 1..(Len(notices) + 1) /\
                DOMAIN notices = 1..Len(notices) /\ Len(notices) \in Nat
        BY <3>2, <4>1, <4>2
      <4> QED
        BY <4>3
    <3> QED
      BY <2>2, <3>1, <3>2 DEF Registers, claimVars
  <2>10. ASSUME NEW m \in DOMAIN notices', NEW n \in DOMAIN notices',
                m < n, notices'[m].kind = "ask", notices'[n].kind = "ask"
         PROVE  notices'[m].of < notices'[n].of
    <3>1. CASE m \in DOMAIN notices /\ n \in DOMAIN notices
      <4>1. ~ (m < m) /\ ~ (n < n)
        BY <2>9
      <4>2. notices'[m] = notices[m] /\ notices'[n] = notices[n]
        BY <2>8, <3>1, <4>1
      <4> QED
        BY <2>10, <3>1, <4>2 DEF OrderOK
    <3>2. CASE m \in DOMAIN notices /\ n \notin DOMAIN notices
      <4>1. notices'[n] = Message("ask", q) /\ m < n
        BY <2>8, <3>2
      <4>2. notices'[m] = notices[m]
        <5>1. ~ (m < m)
          BY <2>9
        <5> QED
          BY <2>8, <3>2, <5>1
      <4> QED
        BY <2>7, <2>10, <3>2, <4>1, <4>2, AskMessage
    <3>3. CASE m \notin DOMAIN notices
      <4>1. n \in DOMAIN notices => n < m
        BY <2>8, <3>3
      <4>2. n \notin DOMAIN notices
        BY <2>9, <2>10, <4>1
      <4> QED
        BY <2>9, <2>10, <3>3, <4>2
    <3> QED
      BY <3>1, <3>2, <3>3
  <2>11. \A m \in DOMAIN notices', n \in DOMAIN down' :
          notices'[m].kind = "ask" /\ down'[n].kind = "ask" =>
              notices'[m].of < down'[n].of
    BY <2>3, <2>4, <2>8, AskMessage DEF OrderOK
  <2>12. \A n \in DOMAIN notices' : notices'[n].kind = "ask" =>
             popup < notices'[n].of
    BY <2>7, <2>8, AskMessage DEF OrderOK
  <2>13. \A n \in DOMAIN down' : down'[n].kind = "ask" => popup < down'[n].of
    BY <2>3 DEF OrderOK
  <2> QED
    BY <2>1, <2>6, <2>10, <2>11, <2>12, <2>13 DEF OrderOK
<1>5. CASE ShowAsk \/ ShowEnd
  <2>1. down' = down /\ notices # <<>> /\ notices' = Tail(notices)
    BY <1>5 DEF ShowAsk, ShowEnd, Notice
  <2>2. popup' \in {popup, NoAsk} \/ (popup' = Head(notices).of /\
            Head(notices).kind = "ask")
    BY <1>5 DEF ShowAsk, ShowEnd, Notice
  <2>3. /\ \A n \in DOMAIN notices' :
              n \in Nat /\ n > 0 /\ n + 1 \in DOMAIN notices /\
                  notices'[n] = notices[n + 1]
        /\ 1 \in DOMAIN notices /\ notices[1] = Head(notices)
    BY <1>0, <2>1, NoticesMove
  <2>4. \A m \in DOMAIN notices', n \in DOMAIN notices' : m < n => m + 1 < n + 1
    BY <2>3
  <2>5. \A m \in DOMAIN notices', n \in DOMAIN notices' :
          m < n /\ notices'[m].kind = "ask" /\ notices'[n].kind = "ask" =>
            notices'[m].of < notices'[n].of
    BY <2>3, <2>4 DEF OrderOK
  <2>6. \A m \in DOMAIN notices', n \in DOMAIN down :
          notices'[m].kind = "ask" /\ down[n].kind = "ask" =>
              notices'[m].of < down[n].of
    BY <2>3 DEF OrderOK
  <2>7. /\ \A n \in DOMAIN notices' : notices'[n].kind = "ask" =>
               popup' < notices'[n].of
        /\ \A n \in DOMAIN down : down[n].kind = "ask" => popup' < down[n].of
    <3>1. CASE popup' = popup
      BY <2>3, <3>1 DEF OrderOK
    <3>2. CASE popup' = NoAsk
      <4>1. \A q \in Asks : NoAsk < q
        BY DEF Asks, NoAsk
      <4>2. \A n \in DOMAIN notices' : notices'[n].of \in Asks
        BY <1>0, <2>3, NoticeTypes
      <4> QED
        BY <3>2, <4>1, <4>2 DEF SentOK
    <3>3. CASE popup' = notices[1].of /\ notices[1].kind = "ask"
      <4>1. \A n \in DOMAIN notices' : 1 < n + 1
        BY <2>3
      <4> QED
        BY <2>3, <3>3, <4>1 DEF OrderOK
    <3> QED
      BY <2>2, <2>3, <3>1, <3>2, <3>3
  <2> QED
    BY <2>1, <2>5, <2>6, <2>7 DEF OrderOK
<1> QED
  BY <1>1, <1>2, <1>3, <1>4, <1>5, RequestSteps

\* Every step keeps that an end is told of a request without an owner.
LEMMA EndsStep ==
  ASSUME TypeOK, RouteOK, HostOK, OwnedByOpenPrompt, DownOK, AskersOK, SentOK,
         OrderOK,
         EndsOK, RequestHasOneTaker, [Next]_vars
  PROVE  EndsOK'
<1>0. /\ HostTypes /\ LinkTypes /\ RouteTypes /\ PromptTypes /\ ClaimTypes
      /\ GateTypes /\ UiTypes
  BY TypeParts
<1>1. CASE Withdraws
  <2>1. notices' = notices /\ pending' = pending
    BY <1>1 DEF Withdraws, pending
  <2>2. \A q \in Asks : InDown("ask", q)' <=> InDown("ask", q)
    BY <1>0, <1>1, DownAsks
  <2>3. \A q \in Asks : InNotices("end", q)' <=> InNotices("end", q)
    BY <2>1 DEF InNotices
  <2> QED
    BY <2>1, <2>2, <2>3 DEF EndsOK
<1>2. CASE Claims
  <2>1. /\ Unhandled /\ pending' \subseteq pending
        /\ \A n \in DOMAIN notices' :
             \/ n \in DOMAIN notices /\ notices'[n] = notices[n]
             \/ notices'[n].kind = "end" /\ notices'[n].of \in pending \ pending'
    BY <1>2 DEF Claims, Unhandled
  <2>2. \A q \in Asks : InDown("ask", q)' <=> InDown("ask", q)
    BY <1>0, <2>1, DownAsks
  <2>3. \A q \in Asks : InNotices("end", q)' => InNotices("end", q) \/
            q \in pending \ pending'
    BY <2>1, AskMessage DEF InNotices
  <2> QED
    BY <2>1, <2>2, <2>3 DEF EndsOK, RequestHasOneTaker
<1>3. ASSUME NEW r \in Runs, NEW q \in Asks, Ask(r, q) PROVE EndsOK'
  <2>1. notices' = notices /\ pending' = pending
    BY <1>3 DEF Ask, clientVars, claimVars, pending
  <2>2. ASSUME NEW p \in Asks, p # q PROVE InDown("ask", p)' => InDown("ask", p)
    <3>1. Message("ask", p) # Message("ask", q)
      BY <2>2, AskMessage
    <3>2. \A n \in DOMAIN down' :
             \/ n \in DOMAIN down /\ down'[n] = down[n]
             \/ down'[n] = Message("ask", q)
      BY <1>0, <1>3, DownAsk
    <3> HIDE DEF Message
    <3> QED
      BY <3>1, <3>2 DEF InDown
  <2>3. ~ InNotices("end", q)
    <3>1. ask[q] = "unused"
      BY <1>0, <1>3, AskIs
    <3> QED
      BY <3>1, AskMessage DEF SentOK, InNotices
  <2>4. \A p \in Asks : InNotices("end", p)' <=> InNotices("end", p)
    BY <2>1 DEF InNotices
  <2> QED
    BY <2>1, <2>2, <2>3, <2>4 DEF EndsOK
<1>4. CASE PumpAsk
  <2>1. down # <<>> /\ down' = Tail(down)
    BY <1>4 DEF PumpAsk, Pump
  <2>2. PICK q \in Asks :
           /\ Head(down) = Message("ask", q)
           /\ \/ Registers(SessionOf(askRun[q]), q)
              \/ up' = up \cup {q} /\ UNCHANGED claimVars
    BY <1>0, <1>4, PumpAskIs
  <2>3. /\ \A p \in Asks : InDown("ask", p)' <=> InDown("ask", p) /\ p # q
        /\ InDown("ask", q)
    BY <1>0, <2>1, <2>2, DownPumpAsk
  <2>4. /\ pending' \subseteq pending \cup {q}
        /\ \A p \in Asks : InNotices("end", p)' => InNotices("end", p)
    <3>1. CASE Registers(SessionOf(askRun[q]), q)
      <4>1. PICK s : s = SessionOf(askRun[q])
        OBVIOUS
      <4>2. /\ pending' = pending \cup {q}
            /\ \A n \in DOMAIN notices' :
                 \/ n \in DOMAIN notices /\ notices'[n] = notices[n]
                 \/ notices'[n] = Message("ask", q)
        BY <1>0, <3>1, <4>1, NoticesAsk
      <4>3. \A p \in Asks : Message("end", p) # Message("ask", q)
        <5>1. \A p \in Asks : Message("end", p).kind # Message("ask", q).kind
          BY AskMessage
        <5> QED
          BY <5>1
      <4> HIDE DEF Message
      <4> QED
        BY <4>2, <4>3 DEF InNotices
    <3>2. CASE UNCHANGED claimVars
      BY <3>2 DEF claimVars, pending, InNotices
    <3> QED
      BY <2>2, <3>1, <3>2
  <2> QED
    BY <2>3, <2>4 DEF EndsOK
<1>5. CASE ShowAsk \/ ShowEnd
  <2>1. down' = down /\ owner' = owner /\ notices # <<>> /\ notices' = Tail(notices)
    BY <1>5 DEF ShowAsk, ShowEnd, Notice
  <2>2. \A n \in DOMAIN notices' : \E m \in DOMAIN notices :
            notices'[n] = notices[m]
    BY <1>0, <2>1, NoticesMove
  <2>3. \A p \in Asks : InNotices("end", p)' => InNotices("end", p)
    BY <2>2 DEF InNotices
  <2>4. pending' = pending /\ \A p \in Asks : InDown("ask", p)' <=> InDown("ask", p)
    BY <2>1 DEF pending, InDown
  <2> QED
    BY <2>3, <2>4 DEF EndsOK
<1> QED
  BY <1>1, <1>2, <1>3, <1>4, <1>5, RequestSteps

\* The request that is shown while another one is owned and waited for is not
\* owned by the same prompt, or it is the same.
LEMMA ShownReplaces ==
  ASSUME HostTypes, UiTypes, ClaimTypes, AskersOK, SentOK, OrderOK,
         notices # <<>>,
         Head(notices).kind = "ask", Head(notices).of \in pending,
         NEW q \in Asks, q \in pending, ask[q] = "waiting", popup = q
  PROVE  FALSE
<1>1. 1 \in DOMAIN notices /\ notices[1] = Head(notices)
  <2>1. notices \in Seq(Notices)
    BY DEF ClaimTypes
  <2> QED
    BY <2>1, TailIn
<1>2. PICK p \in Asks : p = Head(notices).of
  BY DEF ClaimTypes
<1>3. q < p /\ ask[p] # "unused"
  BY <1>1, <1>2 DEF OrderOK, SentOK
<1>4. SessionOf(askRun[q]) # SessionOf(askRun[p])
  BY <1>3 DEF AskersOK
<1> QED
  BY <1>2, <1>4 DEF AskersOK

\* Every step keeps each request with one taker.
LEMMA TakerStep ==
  ASSUME TypeOK, RouteOK, HostOK, OwnedByOpenPrompt, DownOK, AskersOK, SentOK,
         OrderOK,
         EndsOK, RequestHasOneTaker, [Next]_vars
  PROVE  RequestHasOneTaker'
<1>0. /\ HostTypes /\ LinkTypes /\ RouteTypes /\ PromptTypes /\ ClaimTypes
      /\ GateTypes /\ UiTypes
  BY TypeParts
<1>1. CASE Withdraws
  <2>1. /\ notices' = notices /\ pending' = pending /\ popup' = popup /\
               replies' = replies
        /\ up' \subseteq up /\ \A q \in up \ up' : ask'[q] # "waiting"
    BY <1>1 DEF Withdraws, pending
  <2>2. \A q \in Asks : InDown("ask", q)' <=> InDown("ask", q)
    BY <1>0, <1>1, DownAsks
  <2>3. \A q \in Asks : InNotices("ask", q)' <=> InNotices("ask", q)
    BY <2>1 DEF InNotices
  <2>4. \A q \in Asks : ask'[q] = "waiting" => ask[q] = "waiting"
    BY <1>1, WithdrawnAsks
  <2> QED
    BY <2>1, <2>2, <2>3, <2>4 DEF RequestHasOneTaker
<1>2. CASE Claims
  <2>1. /\ Unhandled /\ pending' \subseteq pending /\ ask' = ask
        /\ up' = up \cup (pending \ pending')
        /\ \A n \in DOMAIN notices : n \in DOMAIN notices' /\
               notices'[n] = notices[n]
        /\ \A q \in pending' : popup = q => popup' = q \/ q \in replies'
        /\ \A q \in pending' : q \in replies => q \in replies'
    BY <1>2 DEF Claims, Unhandled
  <2>2. \A q \in Asks : InDown("ask", q)' <=> InDown("ask", q)
    BY <1>0, <2>1, DownAsks
  <2>3. \A q \in Asks : InNotices("ask", q) => InNotices("ask", q)'
    BY <2>1 DEF InNotices
  <2> QED
    BY <2>1, <2>2, <2>3 DEF RequestHasOneTaker
<1>3. ASSUME NEW r \in Runs, NEW q \in Asks, Ask(r, q) PROVE RequestHasOneTaker'
  <2>1. UNCHANGED <<notices, popup, replies, up>> /\ pending' = pending
    BY <1>3 DEF Ask, clientVars, claimVars, uiVars, pending
  <2>2. ASSUME NEW p \in Asks, p # q PROVE InDown("ask", p)' <=> InDown("ask", p)
    <3>1. Message("ask", p) # Message("ask", q)
      BY <2>2, AskMessage
    <3>2. /\ \A n \in DOMAIN down : n \in DOMAIN down' /\ down'[n] = down[n]
          /\ \A n \in DOMAIN down' :
               \/ n \in DOMAIN down /\ down'[n] = down[n]
               \/ down'[n] = Message("ask", q)
      BY <1>0, <1>3, DownAsk
    <3> HIDE DEF Message
    <3> QED
      BY <3>1, <3>2 DEF InDown
  <2>3. InDown("ask", q)'
    BY <1>0, <1>3, DownAsk
  <2>4. /\ ask[q] = "unused"
        /\ \A p \in Asks \ {q} : ask'[p] = ask[p]
    BY <1>0, <1>3, AskIs
  <2>5. q \notin pending \cup up
    BY <2>4 DEF SentOK
  <2>6. \A p \in Asks : InNotices("ask", p)' <=> InNotices("ask", p)
    BY <2>1 DEF InNotices
  <2> QED
    BY <2>1, <2>2, <2>3, <2>4, <2>5, <2>6 DEF RequestHasOneTaker
<1>4. CASE PumpAsk
  <2>1. UNCHANGED <<ask, popup, replies>> /\ down # <<>> /\ down' = Tail(down)
    BY <1>4 DEF PumpAsk, Pump, hostVars, uiVars
  <2>2. PICK q \in Asks :
           /\ Head(down) = Message("ask", q)
           /\ \/ Registers(SessionOf(askRun[q]), q)
              \/ up' = up \cup {q} /\ UNCHANGED claimVars
    BY <1>0, <1>4, PumpAskIs
  <2>3. /\ \A p \in Asks : InDown("ask", p)' <=> InDown("ask", p) /\ p # q
        /\ InDown("ask", q)
    BY <1>0, <2>1, <2>2, DownPumpAsk
  <2>4. q \notin pending \cup up
    BY <2>3 DEF RequestHasOneTaker
  <2>5. CASE Registers(SessionOf(askRun[q]), q)
    <3>1. PICK s : s = SessionOf(askRun[q])
      OBVIOUS
    <3>2. /\ pending' = pending \cup {q} /\ up' = up
          /\ \A n \in DOMAIN notices : n \in DOMAIN notices' /\
                 notices'[n] = notices[n]
          /\ InNotices("ask", q)'
      BY <1>0, <2>5, <3>1, NoticesAsk
    <3>3. \A p \in Asks : InNotices("ask", p) => InNotices("ask", p)'
      BY <3>2 DEF InNotices
    <3> QED
      BY <2>1, <2>3, <2>4, <3>2, <3>3 DEF RequestHasOneTaker
  <2>6. CASE up' = up \cup {q} /\ UNCHANGED claimVars
    <3>1. pending' = pending /\ \A p \in Asks : InNotices("ask", p) =>
              InNotices("ask", p)'
      BY <2>6 DEF claimVars, pending, InNotices
    <3> QED
      BY <2>1, <2>3, <2>4, <2>6, <3>1 DEF RequestHasOneTaker
  <2> QED
    BY <2>2, <2>5, <2>6
<1>5. CASE ShowAsk \/ ShowEnd
  <2>1. /\ UNCHANGED <<down, up, owner, ask, replies>>
        /\ notices # <<>> /\ notices' = Tail(notices)
    BY <1>5 DEF ShowAsk, ShowEnd, Notice, hostVars
  <2>2. /\ \A n \in DOMAIN notices :
              n # 1 => \E m \in DOMAIN notices' : notices'[m] = notices[n]
        /\ 1 \in DOMAIN notices /\ notices[1] = Head(notices)
    BY <1>0, <2>1, NoticesMove
  <2>3. pending' = pending /\ \A p \in Asks : InDown("ask", p)' <=> InDown("ask", p)
    BY <2>1 DEF pending, InDown
  <2>4. \A p \in Asks : InNotices("ask", p) =>
           \/ InNotices("ask", p)'
           \/ Head(notices) = Message("ask", p)
    BY <2>2 DEF InNotices
  <2>5. ASSUME NEW p \in Asks, ask[p] = "waiting", p \in pending
        PROVE  InNotices("ask", p)' \/ popup' = p \/ p \in replies
    <3>1. CASE InNotices("ask", p)
      <4>1. CASE Head(notices) = Message("ask", p)
        <5>1. Head(notices).kind = "ask" /\ Head(notices).of = p
          BY <4>1, AskMessage
        <5>2. ShowAsk
          BY <1>5, <5>1 DEF ShowEnd, Notice
        <5> QED
          BY <2>5, <5>1, <5>2 DEF ShowAsk
      <4> QED
        BY <2>4, <3>1, <4>1
    <3>2. CASE popup = p
      <4>1. CASE ShowAsk
        <5>1. Head(notices).kind = "ask"
          BY <4>1 DEF ShowAsk, Notice
        <5>2. Head(notices).of \notin pending
          BY <1>0, <2>1, <2>5, <3>2, <5>1, ShownReplaces
        <5> QED
          BY <3>2, <4>1, <5>2 DEF ShowAsk
      <4>2. CASE ShowEnd
        <5>1. Head(notices).kind = "end" /\ Head(notices) \in Notices
          <6>1. notices \in Seq(Notices)
            BY <1>0 DEF ClaimTypes
          <6> QED
            BY <4>2, <6>1, <2>1, TailIn DEF ShowEnd, Notice
        <5>2. Head(notices).of # p
          <6>1. SUFFICES ASSUME Head(notices).of = p PROVE FALSE
            OBVIOUS
          <6>2. notices[1] = Message("end", p)
            BY <2>2, <5>1, <6>1 DEF Notices, Message
          <6> QED
            BY <2>2, <2>5, <6>2 DEF InNotices, EndsOK
        <5> QED
          BY <3>2, <4>2, <5>2 DEF ShowEnd
      <4> QED
        BY <1>5, <4>1, <4>2
    <3> QED
      BY <2>5, <3>1, <3>2 DEF RequestHasOneTaker
  <2> QED
    BY <2>1, <2>3, <2>5 DEF RequestHasOneTaker
<1> QED
  BY <1>1, <1>2, <1>3, <1>4, <1>5, RequestSteps

-----------------------------------------------------------------------------
(* The runs as the client knows them                                       *)

\* How the host moves a run on, and what it says of it.
RunMoves(r) ==
  \/ run'[r] = run[r]
  \/ run[r] = "unused" /\ run'[r] = "attached"
  \/ /\ run[r] = "attached" /\ run'[r] = "running"
     /\ down' = Append(down, Message("started", r))
  \/ run[r] = "attached" /\ run'[r] = "left"
  \/ run[r] = "running" /\ run'[r] = "over"
  \/ /\ <<run[r], run'[r]>> \in {<<"over", "told">>, <<"left", "closed">>}
     /\ down' = Append(down, Message("done", r))
  \/ <<run[r], run'[r]>> \in {<<"over", "left">>, <<"told", "closed">>}

DownGrows ==
  \/ down' = down
  \/ \E r \in Runs : /\ run[r] = "attached" /\ run'[r] = "running"
                     /\ down' = Append(down, Message("started", r))
  \/ \E r \in Runs : /\ run[r] \in {"over", "left"}
                     /\ run'[r] \in {"told", "closed"}
                     /\ down' = Append(down, Message("done", r))
  \/ \E q \in Asks : down' = Append(down, Message("ask", q))

\* What a step of the host does to the runs and sends of them.
LEMMA RunProgress ==
  ASSUME HostTypes, HostMoves
  PROVE  /\ UNCHANGED <<home, instance>>
         /\ DownGrows
         /\ \A r \in Runs : RunMoves(r) /\ (run[r] # "unused" =>
                runOf'[r] = runOf[r])
<1>1. ASSUME NEW p \in Runs, Attach(p)
      PROVE  /\ UNCHANGED <<home, instance>> /\ DownGrows
             /\ \A r \in Runs : RunMoves(r) /\ (run[r] # "unused" =>
                    runOf'[r] = runOf[r])
  BY <1>1 DEF Attach, First, HostTypes, DownGrows, RunMoves
<1>2. ASSUME NEW p \in Runs, Announce(p)
      PROVE  /\ UNCHANGED <<home, instance>> /\ DownGrows
             /\ \A r \in Runs : RunMoves(r) /\ (run[r] # "unused" =>
                    runOf'[r] = runOf[r])
  BY <1>2 DEF Announce, HostTypes, DownGrows, RunMoves
<1>3. ASSUME NEW p \in Runs, Finish(p)
      PROVE  /\ UNCHANGED <<home, instance>> /\ DownGrows
             /\ \A r \in Runs : RunMoves(r) /\ (run[r] # "unused" =>
                    runOf'[r] = runOf[r])
  BY <1>3 DEF Finish, HostTypes, DownGrows, RunMoves
<1>4. ASSUME NEW p \in Runs, Tell(p)
      PROVE  /\ UNCHANGED <<home, instance>> /\ DownGrows
             /\ \A r \in Runs : RunMoves(r) /\ (run[r] # "unused" =>
                    runOf'[r] = runOf[r])
  BY <1>4 DEF Tell, HostTypes, DownGrows, RunMoves
<1>5. ASSUME NEW p \in Runs, Detach(p)
      PROVE  /\ UNCHANGED <<home, instance>> /\ DownGrows
             /\ \A r \in Runs : RunMoves(r) /\ (run[r] # "unused" =>
                    runOf'[r] = runOf[r])
  BY <1>5 DEF Detach, HostTypes, DownGrows, RunMoves
<1>6. ASSUME \/ \E r \in Runs, q \in Asks : Ask(r, q)
             \/ \E q \in Asks : Expire(q) \/ Dispatch(q)
             \/ \E m \in stops : Cancel(m)
      PROVE  /\ UNCHANGED <<home, instance>> /\ DownGrows
             /\ \A r \in Runs : RunMoves(r) /\ (run[r] # "unused" =>
                    runOf'[r] = runOf[r])
  <2>1. UNCHANGED <<home, instance, run, runOf>> /\ DownGrows
    BY <1>6 DEF Ask, Expire, Dispatch, Cancel, DownGrows
  <2> QED
    BY <2>1 DEF RunMoves
<1> QED
  BY <1>1, <1>2, <1>3, <1>4, <1>5, <1>6 DEF HostMoves

\* The fields of a notification.
LEMMA RunMessage ==
  /\ \A kind, i : Message(kind, i).kind = kind /\ Message(kind, i).of = i
  /\ \A kind \in {"started", "done"}, r \in Runs : Message(kind, r) \in Downs
  /\ \A q \in Asks : Message("ask", q) \in Downs
BY DEF Message, Downs

\* What the host sends comes behind the rest.
LEMMA Sends1 ==
  ASSUME LinkTypes, NEW m \in Downs, down' = Append(down, m)
  PROVE  /\ \A n \in DOMAIN down : n \in DOMAIN down' /\ down'[n] = down[n]
         /\ \A n \in DOMAIN down' :
              \/ n \in DOMAIN down /\ down'[n] = down[n]
              \/ down'[n] = m /\ \A x \in DOMAIN down : x < n
         /\ \E n \in DOMAIN down' : down'[n] = m
<1>1. down \in Seq(Downs)
  BY DEF LinkTypes
<1> QED
  BY <1>1, AppendIn

\* What is on its way after a step of the host.
LEMMA InDownGrows ==
  ASSUME LinkTypes, DownGrows
  PROVE  \A r \in Runs :
           /\ InDown("started", r) => InDown("started", r)'
           /\ InDown("done", r) => InDown("done", r)'
           /\ InDown("started", r)' => InDown("started", r) \/ run[r] = "attached"
<1>1. CASE down' = down
  BY <1>1 DEF InDown
<1>2. ASSUME NEW p \in Runs, run[p] = "attached", down' = Append(down,
                 Message("started", p))
      PROVE  \A r \in Runs :
               /\ InDown("started", r) => InDown("started", r)'
               /\ InDown("done", r) => InDown("done", r)'
               /\ InDown("started", r)' => InDown("started", r) \/
                      run[r] = "attached"
  <2>1. PICK m \in Downs : m = Message("started", p)
    BY RunMessage
  <2>2. /\ \A n \in DOMAIN down : n \in DOMAIN down' /\ down'[n] = down[n]
        /\ \A n \in DOMAIN down' : (n \in DOMAIN down /\ down'[n] = down[n]) \/
               down'[n] = m
    BY <1>2, <2>1, Sends1
  <2>3. \A r \in Runs : m = Message("started", r) => r = p
    BY <2>1, RunMessage
  <2> QED
    BY <1>2, <2>2, <2>3 DEF InDown
<1>3. ASSUME NEW m \in Downs, m.kind # "started", down' = Append(down, m)
      PROVE  \A r \in Runs :
               /\ InDown("started", r) => InDown("started", r)'
               /\ InDown("done", r) => InDown("done", r)'
               /\ InDown("started", r)' => InDown("started", r)
  <2>1. /\ \A n \in DOMAIN down : n \in DOMAIN down' /\ down'[n] = down[n]
        /\ \A n \in DOMAIN down' : (n \in DOMAIN down /\ down'[n] = down[n]) \/
               down'[n] = m
    BY <1>3, Sends1
  <2>2. \A r \in Runs : m # Message("started", r)
    BY <1>3, RunMessage
  <2> QED
    BY <2>1, <2>2 DEF InDown
<1>4. ASSUME NEW p \in Runs, down' = Append(down, Message("done", p))
      PROVE  \A r \in Runs :
               /\ InDown("started", r) => InDown("started", r)'
               /\ InDown("done", r) => InDown("done", r)'
               /\ InDown("started", r)' => InDown("started", r)
  <2>1. Message("done", p) \in Downs /\ Message("done", p).kind # "started"
    BY RunMessage
  <2> QED
    BY <1>3, <1>4, <2>1
<1>5. ASSUME NEW q \in Asks, down' = Append(down, Message("ask", q))
      PROVE  \A r \in Runs :
               /\ InDown("started", r) => InDown("started", r)'
               /\ InDown("done", r) => InDown("done", r)'
               /\ InDown("started", r)' => InDown("started", r)
  <2>1. Message("ask", q) \in Downs /\ Message("ask", q).kind # "started"
    BY RunMessage
  <2> QED
    BY <1>3, <1>5, <2>1
<1> QED
  BY <1>1, <1>2, <1>4, <1>5 DEF DownGrows

\* What was sent is on its way.
LEMMA Appended ==
  ASSUME LinkTypes, NEW kind, NEW i, Message(kind, i) \in Downs,
         down' = Append(down, Message(kind, i))
  PROVE  InDown(kind, i)'
<1>1. \E n \in DOMAIN down' : down'[n] = Message(kind, i)
  BY Sends1
<1> QED
  BY <1>1 DEF InDown

\* What a step of the host does to a run and to what is on its way of it.
LEMMA HostFacts ==
  ASSUME HostTypes, LinkTypes, HostMoves, NEW r \in Runs
  PROVE  /\ UNCHANGED <<home, instance>>
         /\ run[r] # "unused" => run'[r] # "unused" /\ runOf'[r] = runOf[r]
         /\ InDown("started", r) => InDown("started", r)'
         /\ InDown("done", r) => InDown("done", r)'
         /\ InDown("started", r)' => InDown("started", r) \/ run[r] = "attached"
         /\ run'[r] \in {"running", "over", "told"} =>
              run[r] \in {"running", "over", "told"} \/ InDown("started", r)'
         /\ run'[r] = "told" => run[r] = "told" \/ InDown("done", r)'
         /\ run[r] \in {"told", "left", "closed"} =>
                run'[r] \in {"told", "left", "closed"}
         /\ run[r] \in {"left", "closed"} => run'[r] \in {"left", "closed"}
         /\ run[r] \in {"told", "closed"} => run'[r] \in {"told", "closed"}
         /\ run[r] \notin {"unused", "attached"} =>
                run'[r] \notin {"unused", "attached"}
         /\ Outstanding(r) => Outstanding(r)'
<1>1. /\ UNCHANGED <<home, instance>>
      /\ DownGrows
      /\ RunMoves(r) /\ (run[r] # "unused" => runOf'[r] = runOf[r])
  BY RunProgress
<1>2. /\ InDown("started", r) => InDown("started", r)'
      /\ InDown("done", r) => InDown("done", r)'
      /\ InDown("started", r)' => InDown("started", r) \/ run[r] = "attached"
  BY <1>1, InDownGrows
<1>3. /\ down' = Append(down, Message("started", r)) => InDown("started", r)'
      /\ down' = Append(down, Message("done", r)) => InDown("done", r)'
  BY Appended, RunMessage
<1>4. /\ run[r] # "unused" => run'[r] # "unused" /\ runOf'[r] = runOf[r]
      /\ run'[r] \in {"running", "over", "told"} =>
           run[r] \in {"running", "over", "told"} \/ InDown("started", r)'
      /\ run'[r] = "told" => run[r] = "told" \/ InDown("done", r)'
      /\ run[r] \in {"told", "left", "closed"} => run'[r] \in {"told", "left",
             "closed"}
      /\ run[r] \in {"left", "closed"} => run'[r] \in {"left", "closed"}
      /\ run[r] \in {"told", "closed"} => run'[r] \in {"told", "closed"}
      /\ run[r] \notin {"unused", "attached"} => run'[r] \notin {"unused",
             "attached"}
  BY <1>1, <1>3 DEF RunMoves
<1>5. Outstanding(r) => Outstanding(r)'
  BY <1>1, <1>2, <1>3 DEF RunMoves, Outstanding
<1> QED
  BY <1>1, <1>2, <1>4, <1>5

\* What the pump handles is on its way no more, the rest still is.
LEMMA InDownMoves ==
  ASSUME LinkTypes, down # <<>>, down' = Tail(down), NEW kind, NEW i
  PROVE  /\ InDown(kind, i)' => InDown(kind, i)
         /\ InDown(kind, i) => InDown(kind, i)' \/ Head(down) = Message(kind, i)
<1>1. /\ \A n \in DOMAIN down' : n + 1 \in DOMAIN down /\ down'[n] = down[n + 1]
      /\ \A n \in DOMAIN down : n # 1 => \E m \in DOMAIN down' : down'[m] = down[n]
      /\ 1 \in DOMAIN down /\ down[1] = Head(down)
  BY DownMoves
<1> HIDE DEF Message
<1> QED
  BY <1>1 DEF InDown

\* What the pump meets was on its way.
LEMMA InDownHead ==
  ASSUME LinkTypes, down # <<>>, NEW kind, NEW i, Head(down) = Message(kind, i)
  PROVE  InDown(kind, i)
<1>1. 1 \in DOMAIN down /\ down[1] = Head(down)
  BY TailIn DEF LinkTypes
<1> QED
  BY <1>1 DEF InDown

\* The end of a run comes behind its start.
LEMMA DoneIsLast ==
  ASSUME LinkTypes, DownOK, NEW r \in Runs, down # <<>>,
         Head(down) = Message("done", r)
  PROVE  /\ ~ InDown("started", r)
         /\ run[r] \in {"told", "closed"}
<1>1. 1 \in DOMAIN down /\ down[1] = Message("done", r) /\
          \A n \in DOMAIN down : n \in Nat /\ (n = 1 \/ 1 < n)
  <2>1. down \in Seq(Downs) /\ 1 \in DOMAIN down /\ down[1] = Head(down)
    BY TailIn DEF LinkTypes
  <2> QED
    BY <2>1
<1>2. \A i : Message("done", r).kind = "done" /\ Message("done", r).of = r
             /\ Message("started", i).kind = "started" /\
                    Message("started", i).of = i
  BY RunMessage
<1> HIDE DEF Message
<1>3. run[r] \in {"told", "closed"}
  BY <1>1, <1>2 DEF DownOK
<1>4. ASSUME InDown("started", r)  PROVE FALSE
  <2>1. PICK n \in DOMAIN down : down[n] = Message("started", r)
    BY <1>4 DEF InDown
  <2>2. n # 1
    BY <1>1, <1>2, <2>1
  <2>3. 1 < n /\ down[1].kind = "done" /\ down[n].kind = "started" /\
            down[1].of = down[n].of
    BY <1>1, <1>2, <2>1, <2>2
  <2> QED
    BY <1>1, <2>1, <2>3 DEF DownOK
<1> QED
  BY <1>3, <1>4

\* A run whose start is on its way has yet to end.
LEMMA StartedIsOutstanding ==
  ASSUME DownOK, NEW r \in Runs, InDown("started", r)
  PROVE  Outstanding(r) /\ run[r] \notin {"unused", "attached"}
<1>1. PICK n \in DOMAIN down : down[n] = Message("started", r)
  BY DEF InDown
<1>2. down[n].kind = "started" /\ down[n].of = r
  BY <1>1, RunMessage
<1> QED
  BY <1>2 DEF DownOK

OutstandingNext(r) ==
  \/ run'[r] \in {"attached", "running", "over", "left"}
  \/ \E m \in DOMAIN down' : down'[m] = Message("done", r)

\* Outstanding, of the next state, for a run that the next state names.
LEMMA OutstandingNextIs == \A r : OutstandingNext(r) <=> Outstanding(r)'
BY DEF OutstandingNext, Outstanding, InDown

\* The order of the notifications of a run, of the next state.
LEMMA DownNext ==
  ASSUME \A n \in DOMAIN down' :
           /\ down'[n].kind # "ask" => down'[n].of \in Runs
           /\ down'[n].kind = "started" =>
                run'[down'[n].of] \notin {"unused", "attached"} /\
                    OutstandingNext(down'[n].of)
           /\ down'[n].kind = "done" => run'[down'[n].of] \in {"told", "closed"},
         \A m \in DOMAIN down', n \in DOMAIN down' :
           m < n /\ down'[m].kind = "done" /\ down'[n].kind = "started" =>
             down'[m].of # down'[n].of
  PROVE  DownOK'
BY DEF DownOK, Outstanding, InDown, OutstandingNext

\* The host sends the notifications of a run in order.
LEMMA DownHostStep ==
  ASSUME HostTypes, LinkTypes, DownOK, HostMoves
  PROVE  DownOK'
<1>1. /\ DownGrows
      /\ \A r \in Runs :
           /\ Outstanding(r) => Outstanding(r)'
           /\ run[r] \in {"told", "closed"} => run'[r] \in {"told", "closed"}
           /\ run[r] \notin {"unused", "attached"} =>
                  run'[r] \notin {"unused", "attached"}
  BY RunProgress, HostFacts
<1>2. /\ \A n \in DOMAIN down : down[n].kind # "ask" => down[n].of \in Runs
      /\ \A n \in DOMAIN down : down[n].kind = "started" =>
           run[down[n].of] \notin {"unused", "attached"} /\ Outstanding(down[n].of)
      /\ \A n \in DOMAIN down : down[n].kind = "done" =>
             run[down[n].of] \in {"told", "closed"}
      /\ \A m \in DOMAIN down, n \in DOMAIN down :
           m < n /\ down[m].kind = "done" /\ down[n].kind = "started" =>
               down[m].of # down[n].of
      /\ \A n \in DOMAIN down : n \in Nat
  BY DEF DownOK, LinkTypes
<1>3. CASE down' = down
  BY <1>1, <1>2, <1>3 DEF DownOK
<1>4. ASSUME NEW m \in Downs, down' = Append(down, m),
             m.kind # "ask" => m.of \in Runs,
             m.kind = "started" => run[m.of] = "attached" /\ run'[m.of] = "running",
             m.kind = "done" => run'[m.of] \in {"told", "closed"}
      PROVE  DownOK'
  <2>1. /\ \A n \in DOMAIN down : n \in DOMAIN down' /\ down'[n] = down[n]
        /\ \A n \in DOMAIN down' :
             \/ n \in DOMAIN down /\ down'[n] = down[n]
             \/ down'[n] = m /\ \A x \in DOMAIN down : x < n
    BY <1>4, Sends1
  <2>2. m.kind = "started" => run'[m.of] \notin {"unused", "attached"} /\
            OutstandingNext(m.of)
    BY <1>4 DEF OutstandingNext
  <2>3. ASSUME NEW n \in DOMAIN down'
        PROVE  /\ down'[n].kind # "ask" => down'[n].of \in Runs
               /\ down'[n].kind = "started" =>
                    run'[down'[n].of] \notin {"unused", "attached"} /\
                        OutstandingNext(down'[n].of)
               /\ down'[n].kind = "done" => run'[down'[n].of] \in {"told", "closed"}
    <3>1. CASE n \in DOMAIN down /\ down'[n] = down[n]
      <4>1. PICK d : d = down[n] /\ d = down'[n]
        BY <3>1
      <4>2. d.kind = "started" => d.of \in Runs /\ Outstanding(d.of) /\
                run[d.of] \notin {"unused", "attached"}
        BY <1>2, <3>1, <4>1
      <4>3. d.kind = "started" => OutstandingNext(d.of) /\
                run'[d.of] \notin {"unused", "attached"}
        BY <1>1, <4>2, OutstandingNextIs
      <4>4. /\ d.kind # "ask" => d.of \in Runs
            /\ d.kind = "done" => run'[d.of] \in {"told", "closed"}
        BY <1>1, <1>2, <3>1, <4>1
      <4> QED
        BY <4>1, <4>3, <4>4
    <3>2. CASE down'[n] = m
      BY <1>4, <2>2, <3>2
    <3> QED
      BY <2>1, <3>1, <3>2
  <2>4. ASSUME NEW j \in DOMAIN down', NEW n \in DOMAIN down', j < n,
               down'[j].kind = "done", down'[n].kind = "started"
        PROVE  down'[j].of # down'[n].of
    <3>1. CASE n \in DOMAIN down /\ down'[n] = down[n]
      <4>1. n \in Nat
        BY <1>2, <3>1
      <4>2. CASE j \in DOMAIN down /\ down'[j] = down[j]
        BY <1>2, <2>4, <3>1, <4>2
      <4>3. CASE \A x \in DOMAIN down : x < j
        <5>1. n < j
          BY <3>1, <4>3
        <5>2. j \in Nat
          BY <1>4 DEF LinkTypes
        <5> QED
          BY <2>4, <4>1, <5>1, <5>2
      <4> QED
        BY <2>1, <4>2, <4>3
    <3>2. CASE down'[n] = m /\ \A x \in DOMAIN down : x < n
      <4>1. CASE j \in DOMAIN down /\ down'[j] = down[j]
        <5>1. run[down[j].of] \in {"told", "closed"}
          BY <1>2, <2>4, <4>1
        <5>2. run[m.of] = "attached"
          BY <1>4, <2>4, <3>2
        <5> QED
          BY <3>2, <4>1, <5>1, <5>2
      <4>2. CASE down'[j] = m
        BY <2>4, <3>2, <4>2
      <4> QED
        BY <2>1, <4>1, <4>2
    <3> QED
      BY <2>1, <3>1, <3>2
  <2> QED
    BY <2>3, <2>4, DownNext
<1>5. ASSUME NEW kind \in {"started", "done"}, NEW r \in Runs
      PROVE  Message(kind, r) \in Downs /\ Message(kind, r).kind = kind /\
                 Message(kind, r).of = r
  BY RunMessage
<1>6. ASSUME NEW q \in Asks
      PROVE  Message("ask", q) \in Downs /\ Message("ask", q).kind = "ask"
  BY RunMessage
<1>7. ASSUME NEW r \in Runs, run[r] = "attached", run'[r] = "running",
                 down' = Append(down, Message("started", r))
      PROVE  DownOK'
  <2>1. PICK m \in Downs : m = Message("started", r) /\ m.kind = "started" /\
            m.of = r
    BY <1>5
  <2> QED
    BY <1>4, <1>7, <2>1
<1>8. ASSUME NEW r \in Runs, run'[r] \in {"told", "closed"},
                 down' = Append(down, Message("done", r))
      PROVE  DownOK'
  <2>1. PICK m \in Downs : m = Message("done", r) /\ m.kind = "done" /\ m.of = r
    BY <1>5
  <2> QED
    BY <1>4, <1>8, <2>1
<1>9. ASSUME NEW q \in Asks, down' = Append(down, Message("ask", q))
      PROVE  DownOK'
  <2>1. PICK m \in Downs : m = Message("ask", q) /\ m.kind = "ask"
    BY <1>6
  <2> QED
    BY <1>4, <1>9, <2>1
<1> QED
  BY <1>1, <1>3, <1>7, <1>8, <1>9 DEF DownGrows

\* The pump handles them in order.
LEMMA DownClientStep ==
  ASSUME LinkTypes, DownOK, UNCHANGED run,
         \/ down' = down
         \/ down # <<>> /\ down' = Tail(down)
  PROVE  DownOK'
<1>1. CASE down' = down
  BY <1>1 DEF DownOK, Outstanding, InDown
<1>2. CASE down # <<>> /\ down' = Tail(down)
  <2>1. /\ \A n \in DOMAIN down' : n \in Nat /\ n > 0 /\
               n + 1 \in DOMAIN down /\ down'[n] = down[n + 1]
        /\ 1 \in DOMAIN down /\ down[1] = Head(down)
    BY <1>2, DownMoves
  <2>2. \A m \in DOMAIN down', n \in DOMAIN down' : m < n => m + 1 < n + 1
    BY <2>1
  <2>3. ASSUME NEW n \in DOMAIN down', down'[n].kind = "started"
        PROVE  OutstandingNext(down'[n].of)
    <3>1. PICK r : r = down'[n].of /\ r = down[n + 1].of
      BY <2>1
    <3>2. r \in Runs /\ down[n + 1].kind = "started"
      BY <2>1, <2>3, <3>1 DEF DownOK
    <3>3. Outstanding(r)
      BY <2>1, <3>1, <3>2 DEF DownOK
    <3>4. CASE run[r] \in {"attached", "running", "over", "left"}
      BY <3>1, <3>4 DEF OutstandingNext
    <3>5. CASE InDown("done", r)
      <4>1. Message("done", r).kind = "done" /\ Message("done", r).of = r
        BY RunMessage
      <4>2. Head(down) # Message("done", r)
        <5>1. 1 < n + 1
          BY <2>1
        <5>2. SUFFICES ASSUME Head(down) = Message("done", r) PROVE FALSE
          OBVIOUS
        <5>3. down[1].kind = "done" /\ down[1].of = r
          BY <2>1, <4>1, <5>2
        <5> QED
          BY <2>1, <3>1, <3>2, <5>1, <5>3 DEF DownOK
      <4>3. InDown("done", r)'
        BY <1>2, <3>5, <4>2, InDownMoves
      <4> QED
        BY <3>1, <4>3 DEF OutstandingNext, InDown
    <3> QED
      BY <3>3, <3>4, <3>5 DEF Outstanding
  <2>4. ASSUME NEW n \in DOMAIN down'
        PROVE  /\ down'[n].kind # "ask" => down'[n].of \in Runs
               /\ down'[n].kind = "started" =>
                      run'[down'[n].of] \notin {"unused", "attached"}
               /\ down'[n].kind = "done" => run'[down'[n].of] \in {"told", "closed"}
    <3>1. PICK x \in DOMAIN down : down'[n] = down[x]
      BY <2>1
    <3>2. /\ down[x].kind # "ask" => down[x].of \in Runs
          /\ down[x].kind = "started" => run[down[x].of] \notin {"unused",
                 "attached"}
          /\ down[x].kind = "done" => run[down[x].of] \in {"told", "closed"}
      BY DEF DownOK
    <3> QED
      BY <3>1, <3>2
  <2>5. ASSUME NEW m \in DOMAIN down', NEW n \in DOMAIN down', m < n,
               down'[m].kind = "done", down'[n].kind = "started"
        PROVE  down'[m].of # down'[n].of
    <3>1. PICK x \in DOMAIN down, y \in DOMAIN down : x < y /\
              down'[m] = down[x] /\ down'[n] = down[y]
      BY <2>1, <2>2, <2>5
    <3>2. down[x].kind = "done" /\ down[y].kind = "started" =>
              down[x].of # down[y].of
      BY <3>1 DEF DownOK
    <3> QED
      BY <2>5, <3>1, <3>2
  <2> QED
    BY <2>3, <2>4, <2>5, DownNext
<1> QED
  BY <1>1, <1>2

\* Every step keeps them in order.
LEMMA DownStep ==
  ASSUME TypeOK, DownOK, [Next]_vars
  PROVE  DownOK'
<1>0. HostTypes /\ LinkTypes
  BY TypeParts
<1>1. CASE HostMoves
  BY <1>0, <1>1, DownHostStep
<1>2. CASE UNCHANGED vars
  BY <1>0, <1>2, DownClientStep DEF vars, hostVars
<1>3. CASE PumpStarted \/ PumpDone \/ PumpAsk
  BY <1>0, <1>3, DownClientStep DEF PumpStarted, PumpDone, PumpAsk, Pump,
     hostVars
<1>4. CASE \/ ShowAsk \/ ShowEnd \/ UserAnswers \/ \E q \in Asks :
                  RespondInteraction(q)
           \/ Stop \/ NewSession \/ Poll
           \/ \E s \in Sessions : LoadSession(s) \/ DeleteSession(s)
  <2>1. UNCHANGED <<run, down>>
    BY <1>4 DEF ShowAsk, ShowEnd, Notice, UserAnswers, RespondInteraction,
       Stop, NewSession,
                Poll, LoadSession, DeleteSession, Move, Disturb, hostVars
  <2> QED
    BY <1>0, <2>1, DownClientStep
<1>5. CASE \/ PreClose \/ Closed \/ Deleted \/ Opened \/ Refused
           \/ SnapshotRead \/ SnapshotApplied \/ SnapshotFailed
  <2>1. UNCHANGED <<run, down>>
    BY <1>5 DEF PreClose, Closed, Deleted, Opened, Refused, SnapshotRead,
       SnapshotApplied,
                SnapshotFailed, hostVars
  <2> QED
    BY <1>0, <2>1, DownClientStep
<1> QED
  BY <1>1, <1>2, <1>3, <1>4, <1>5 DEF Next, HostMoves

\* What the client knows of the runs, together.
Knowledge == InputsOK /\ ReplyOK /\ KnownOK /\ EndedOK /\ NoRevival /\ ShownOK

\* A run stays a run of its instance.
LEMMA SendsKept ==
  ASSUME \A r \in Runs : run[r] # "unused" => run'[r] # "unused" /\
             runOf'[r] = runOf[r],
         NEW r \in Runs, NEW s, NEW i, Sends(r, s, i)
  PROVE  Sends(r, s, i)'
BY DEF Sends

\* What the client knows is not touched by what the host does.
LEMMA InputsHostStep ==
  ASSUME HostTypes, LinkTypes, PromptTypes, InputsOK, HostMoves
  PROVE  InputsOK'
<1>1. /\ UNCHANGED <<home, instance, inputs, at, current, gen, gate, other, active>>
      /\ \A r \in Runs : run[r] # "unused" => run'[r] # "unused" /\
             runOf'[r] = runOf[r]
  <2>1. UNCHANGED clientVars
    BY HostLeavesClient
  <2> QED
    BY <2>1, HostFacts, RunProgress DEF clientVars, routeVars, gateVars,
       promptVars
<1>2. \A s \in Sessions : inputs[s].retired \subseteq Runs /\
          inputs[s].latest \in Runs \cup {NoRun}
  BY DEF PromptTypes, Known
<1>3. ASSUME NEW s \in Sessions
      PROVE  /\ \A r \in inputs[s].retired : Sends(r, s, inputs[s].instance)'
             /\ inputs[s].latest # NoRun => Sends(inputs[s].latest, s,
                    inputs[s].instance)'
  <2>1. /\ \A r \in inputs[s].retired : run[r] # "unused" /\
               runOf[r] = [session |-> s, instance |-> inputs[s].instance]
        /\ inputs[s].latest # NoRun => /\ run[inputs[s].latest] # "unused"
                                       /\ runOf[inputs[s].latest] = [session |-> s, instance |-> inputs[s].instance]
    BY DEF InputsOK, Sends
  <2> QED
    BY <1>1, <1>2, <2>1 DEF Sends
<1> QED
  BY <1>1, <1>3 DEF InputsOK

\* A snapshot that was read stands while the host goes on.
LEMMA ReplyHostStep ==
  ASSUME HostTypes, LinkTypes, GateTypes, ReplyOK, HostMoves
  PROVE  ReplyOK'
<1>1. /\ UNCHANGED <<instance, inputs, current, gate, reply, ended>>
      /\ \A r \in Runs : /\ run[r] # "unused" => run'[r] # "unused" /\
                                runOf'[r] = runOf[r]
                         /\ Outstanding(r) => Outstanding(r)'
  <2>1. UNCHANGED clientVars
    BY HostLeavesClient
  <2> QED
    BY <2>1, HostFacts, RunProgress DEF clientVars, routeVars, gateVars,
       promptVars
<1>2. PICK r \in Runs \cup {NoRun} : r = reply.run
  BY DEF GateTypes
<1>3. r # NoRun => r \in Runs
  BY <1>2
<1>4. gate = "apply" => /\ reply.instance = instance[current]
                        /\ r # NoRun =>
                             /\ run[r] # "unused" /\
                                    runOf[r] = [session |-> current,
                                        instance |-> reply.instance]
                             /\ r \in inputs[current].retired \/
                                    (r \notin ended /\ Outstanding(r))
  BY <1>2 DEF ReplyOK, Sends
<1>5. gate = "apply" => /\ reply.instance = instance[current]
                        /\ r # NoRun =>
                             /\ run'[r] # "unused" /\
                                    runOf'[r] = [session |-> current,
                                        instance |-> reply.instance]
                             /\ r \in inputs[current].retired \/
                                    (r \notin ended /\ Outstanding(r)')
  BY <1>1, <1>3, <1>4
<1>6. reply' = reply /\ reply'.run = r
  BY <1>1, <1>2
<1> QED
  BY <1>1, <1>5, <1>6 DEF ReplyOK, Sends, Outstanding, InDown

\* A run becomes one to be known only behind its start.
LEMMA KnownHostStep ==
  ASSUME HostTypes, LinkTypes, KnownOK, HostMoves
  PROVE  KnownOK'
<1>1. UNCHANGED <<inputs, at, current>>
  BY HostLeavesClient DEF clientVars, routeVars, promptVars
<1>2. ASSUME NEW r \in Runs, at = "stable", runOf'[r].session = current,
             run'[r] \in {"running", "over", "told"}, ~InDown("started", r)'
      PROVE  r = inputs[current].latest \/ r \in inputs[current].retired
  <2>1. run[r] \in {"running", "over", "told"} /\ ~InDown("started", r) /\
            runOf'[r] = runOf[r]
    BY <1>2, HostFacts
  <2> QED
    BY <1>2, <2>1 DEF KnownOK, SessionOf
<1>3. ASSUME NEW r \in Runs, at = "stable", runOf'[r].session = current,
             run'[r] = "told", ~InDown("done", r)'
      PROVE  r \in inputs[current].retired
  <2>1. run[r] = "told" /\ ~InDown("done", r) /\ runOf'[r] = runOf[r]
    BY <1>3, HostFacts
  <2> QED
    BY <1>3, <2>1 DEF KnownOK, SessionOf
<1> QED
  BY <1>1, <1>2, <1>3 DEF KnownOK, SessionOf

\* A run whose end was seen does not start again.
LEMMA EndedHostStep ==
  ASSUME HostTypes, LinkTypes, PromptTypes, EndedOK, HostMoves
  PROVE  EndedOK'
<1>1. UNCHANGED <<inputs, at, current, ended>>
  BY HostLeavesClient DEF clientVars, routeVars, promptVars
<1>2. ASSUME NEW r \in ended
      PROVE  /\ run'[r] # "unused"
             /\ r \in inputs'[runOf'[r].session].retired \/ Past(r)'
  <2>1. r \in Runs /\ run[r] # "unused"
        /\ (r \in inputs[runOf[r].session].retired \/ Past(r))
    BY <1>2 DEF EndedOK, PromptTypes, SessionOf
  <2>2. run'[r] # "unused" /\ runOf'[r] = runOf[r]
    BY <2>1, HostFacts
  <2>3. CASE Past(r)
    <3>1. /\ run[r] \in {"told", "left", "closed"}
          /\ run[r] = "told" => ~(at = "stable" /\ current = runOf[r].session)
          /\ InDown("started", r) =>
                 runOf[r].instance < inputs[runOf[r].session].instance
      BY <2>3 DEF Past, SessionOf
    <3>2. /\ run'[r] \in {"told", "left", "closed"}
          /\ run'[r] = "told" => run[r] = "told"
          /\ InDown("started", r)' => InDown("started", r)
      BY <2>1, <3>1, HostFacts
    <3> QED
      BY <1>1, <2>2, <3>1, <3>2 DEF Past, SessionOf
  <2> QED
    BY <1>1, <2>1, <2>2, <2>3
<1> QED
  BY <1>1, <1>2 DEF EndedOK, SessionOf

\* The run that is shown stays one whose end is still to come.
LEMMA ShownHostStep ==
  ASSUME HostTypes, LinkTypes, RouteTypes, RouteOK, PromptTypes, ShownOK,
         HostMoves
  PROVE  ShownOK'
<1>1. UNCHANGED <<inputs, at, current, shown, instance>>
  BY HostLeavesClient, RunProgress DEF clientVars, routeVars, promptVars
<1>2. ASSUME shown = "run" PROVE ShownOK'
  <2>1. PICK r : r = inputs[current].latest
    OBVIOUS
  <2>2. current \in Sessions /\ r # NoRun /\ Outstanding(r) /\ at = "stable"
        /\ inputs[current].instance = instance[current]
    BY <1>2, <2>1 DEF ShownOK, RouteOK
  <2>3. r \in Runs
    BY <2>1, <2>2 DEF PromptTypes, Known
  <2>4. Outstanding(r)'
    BY <2>2, <2>3, HostFacts
  <2>5. inputs'[current'].latest = r
    BY <1>1, <2>1
  <2> QED
    BY <1>1, <2>2, <2>4, <2>5 DEF ShownOK, Outstanding, InDown
<1> QED
  BY <1>1, <1>2 DEF ShownOK

\* The host keeps what the client knows true.
LEMMA KnowledgeHostStep ==
  ASSUME TypeOK, RouteOK, Knowledge, HostMoves
  PROVE  Knowledge'
<1>1. /\ HostTypes /\ LinkTypes /\ RouteTypes /\ PromptTypes /\ GateTypes
  BY TypeParts
<1>2. UNCHANGED <<active, ended>>
  BY HostLeavesClient DEF clientVars, promptVars
<1> QED
  BY <1>1, <1>2, InputsHostStep, ReplyHostStep, KnownHostStep, EndedHostStep,
     ShownHostStep
     DEF Knowledge, NoRevival

\* Steps of the client that leave what it knows, and the session it shows.
LEMMA KnownKept ==
  ASSUME KnownOK, EndedOK, NoRevival, ShownOK,
         UNCHANGED <<run, runOf, instance, at, current, inputs, ended, active,
             shown>>,
         \A r \in Runs : /\ InDown("started", r)' <=> InDown("started", r)
                         /\ InDown("done", r)' <=> InDown("done", r),
         PromptTypes, RouteTypes, RouteOK
  PROVE  KnownOK' /\ EndedOK' /\ NoRevival' /\ ShownOK'
<1>1. KnownOK'
  BY DEF KnownOK, SessionOf
<1>2. EndedOK'
  BY DEF EndedOK, SessionOf, Past, PromptTypes
<1>3. NoRevival'
  BY DEF NoRevival
<1>4. ShownOK'
  <2>1. PICK r : r = inputs[current].latest
    OBVIOUS
  <2>2. shown = "run" => /\ current \in Sessions /\ r # NoRun /\
                                at = "stable" /\ Outstanding(r)
                         /\ inputs[current].instance = instance[current]
    BY <2>1 DEF ShownOK, RouteOK
  <2>3. shown = "run" => r \in Runs
    BY <2>1, <2>2 DEF PromptTypes, Known
  <2>4. shown = "run" => Outstanding(r)'
    BY <2>2, <2>3 DEF Outstanding
  <2>5. inputs'[current'].latest = r
    BY <2>1
  <2> QED
    BY <2>2, <2>4, <2>5 DEF ShownOK, Outstanding, InDown
<1> QED
  BY <1>1, <1>2, <1>3, <1>4

\* The client leaves its session.
LEMMA KnownLeaves ==
  ASSUME EndedOK, at' # "stable", active' = NoMarker, shown' = "idle",
         UNCHANGED <<run, runOf, down, inputs, ended>>
  PROVE  KnownOK' /\ EndedOK' /\ NoRevival' /\ ShownOK'
BY DEF KnownOK, EndedOK, NoRevival, ShownOK, SessionOf, Past, InDown

\* A session at the host opens for nobody, and what is known of it stands.
LEMMA InputsKept ==
  ASSUME InputsOK, UNCHANGED <<inputs, run, runOf, instance>>,
         \A s \in Sessions : home'[s] = "open" =>
           /\ home[s] = "open"
           /\ \/ current = s /\ gate \in {"first", "apply"}
              \/ other = s /\ gate = "close"
              => \/ current' = s /\ gate' \in {"first", "apply"}
                 \/ other' = s /\ gate' = "close",
         at' = "stable" /\ gate' \notin {"first", "apply"} =>
           /\ at = "stable" /\ gate \notin {"first", "apply"}
           /\ current' = current /\ gen' = gen,
         active' # NoMarker => active' = active /\ current' = current
  PROVE  InputsOK'
<1>1. ASSUME NEW s \in Sessions
      PROVE  /\ inputs'[s].instance <= instance'[s]
             /\ \A r \in inputs'[s].retired : Sends(r, s, inputs[s].instance)
             /\ inputs'[s].latest # NoRun => Sends(inputs[s].latest, s,
                    inputs[s].instance)
             /\ home'[s] = "open" => \/ inputs'[s].instance = instance'[s]
                                     \/ current' = s /\ gate' \in {"first", "apply"}
                                     \/ other' = s /\ gate' = "close"
  BY DEF InputsOK
<1>2. at' = "stable" /\ gate' \notin {"first", "apply"} =>
          inputs'[current'].gen = gen'
  BY DEF InputsOK
<1>3. active' # NoMarker =>
        /\ inputs'[current'].latest = active'.run
        /\ inputs'[current'].instance = instance'[current']
  BY DEF InputsOK
<1> QED
  BY <1>1, <1>2, <1>3 DEF InputsOK, Sends

\* The known run of a session is retired.
Retires ==
  \A s \in Sessions :
    /\ inputs'[s].instance = inputs[s].instance
    /\ inputs'[s].gen = inputs[s].gen
    /\ inputs'[s].latest = inputs[s].latest
    /\ inputs[s].retired \subseteq inputs'[s].retired
    /\ \A r \in inputs'[s].retired \ inputs[s].retired : r # NoRun /\
           r = inputs[s].latest

\* Retire, of a session, keeps the rest.
LEMMA RetireFacts ==
  ASSUME PromptTypes, NEW s \in Sessions, NEW r,
         inputs' = [inputs EXCEPT ![s] = Retire(@, r)]
  PROVE  /\ Retires
         /\ r # NoRun /\ inputs[s].latest = r => r \in inputs'[s].retired
<1>1. inputs[s] \in Known /\ DOMAIN inputs = Sessions
  BY DEF PromptTypes
<1>2. /\ Retire(inputs[s], r).instance = inputs[s].instance
      /\ Retire(inputs[s], r).gen = inputs[s].gen
      /\ Retire(inputs[s], r).latest = inputs[s].latest
      /\ Retire(inputs[s], r).retired = IF r # NoRun /\ inputs[s].latest = r
                                        THEN inputs[s].retired \cup {r} ELSE inputs[s].retired
  BY <1>1 DEF Retire, Known
<1>3. inputs'[s] = Retire(inputs[s], r) /\ \A x \in Sessions : x # s =>
          inputs'[x] = inputs[x]
  BY <1>1
<1>4. ASSUME NEW x \in Sessions
      PROVE  /\ inputs'[x].instance = inputs[x].instance
             /\ inputs'[x].gen = inputs[x].gen
             /\ inputs'[x].latest = inputs[x].latest
             /\ inputs[x].retired \subseteq inputs'[x].retired
             /\ \A p \in inputs'[x].retired \ inputs[x].retired : p # NoRun /\
                    p = inputs[x].latest
  <2>1. CASE x = s
    BY <1>2, <1>3, <2>1
  <2>2. CASE x # s
    BY <1>3, <2>2
  <2> QED
    BY <2>1, <2>2
<1>5. r # NoRun /\ inputs[s].latest = r => r \in inputs'[s].retired
  BY <1>2, <1>3
<1> QED
  BY <1>4, <1>5 DEF Retires

\* Retiring the known run keeps runs with their instance.
LEMMA InputsRetire ==
  ASSUME InputsOK, RouteTypes, RouteOK, Retires,
         UNCHANGED <<home, instance, run, runOf, at, current, gen, gate, other>>,
         active' \in {active, NoMarker}
  PROVE  InputsOK'
<1>1. ASSUME NEW s \in Sessions
      PROVE  /\ inputs'[s].instance <= instance'[s]
             /\ \A r \in inputs'[s].retired : Sends(r, s, inputs[s].instance)
             /\ inputs'[s].latest # NoRun => Sends(inputs[s].latest, s,
                    inputs[s].instance)
             /\ home'[s] = "open" => \/ inputs'[s].instance = instance'[s]
                                     \/ current' = s /\ gate' \in {"first", "apply"}
                                     \/ other' = s /\ gate' = "close"
             /\ inputs'[s].latest = inputs[s].latest
             /\ inputs'[s].instance = inputs[s].instance
  <2>1. ASSUME NEW r \in inputs'[s].retired PROVE Sends(r, s, inputs[s].instance)
    <3>1. CASE r \in inputs[s].retired
      BY <3>1 DEF InputsOK
    <3>2. CASE r \notin inputs[s].retired
      <4>1. r = inputs[s].latest /\ r # NoRun
        BY <2>1, <3>2 DEF Retires
      <4> QED
        BY <4>1 DEF InputsOK
    <3> QED
      BY <3>1, <3>2
  <2> QED
    BY <2>1 DEF InputsOK, Retires
<1>2. at = "stable" => current \in Sessions
  BY DEF RouteOK
<1>3. at' = "stable" /\ gate' \notin {"first", "apply"} =>
          inputs'[current'].gen = gen'
  BY <1>2 DEF InputsOK, Retires
<1>4. active' # NoMarker =>
        /\ inputs'[current'].latest = active'.run
        /\ inputs'[current'].instance = instance'[current']
  BY <1>2 DEF InputsOK, Retires, RouteOK
<1> QED
  BY <1>1, <1>3, <1>4 DEF InputsOK, Sends

\* The pump meets the end of a run: when it is one of the session on screen, it
\* is retired from now on.
LEMMA DoneRetires ==
  ASSUME HostTypes, LinkTypes, PromptTypes, RouteOK, DownOK, KnownOK,
         NEW r \in Runs, NEW s \in Sessions, s = SessionOf(r),
         down # <<>>, Head(down) = Message("done", r),
         \/ Forwards(s, r)
         \/ ~ShouldForward(s, r) /\ UNCHANGED <<inputs, ended, active, shown>>
  PROVE  /\ Retires
         /\ at = "stable" /\ s = current /\ run[r] = "told" =>
                r \in inputs'[current].retired
         /\ s = current /\ inputs[current].latest = r => Forwards(s, r)
<1>0. r # NoRun
  BY DEF Runs, NoRun
<1>1. inputs[s].latest = r => ShouldForward(s, r)
  BY DEF ShouldForward
<1>2. Forwards(s, r) => /\ Retires
                        /\ inputs[s].latest = r => r \in inputs'[s].retired
  BY <1>0, RetireFacts DEF Forwards
<1>3. UNCHANGED inputs => Retires
  BY DEF Retires
<1>4. at = "stable" /\ s = current /\ run[r] = "told" =>
        r = inputs[current].latest \/ r \in inputs[current].retired
  BY DoneIsLast DEF KnownOK
<1>5. Retires
  BY <1>2, <1>3
<1>6. at = "stable" /\ s = current /\ run[r] = "told" =>
          r \in inputs'[current].retired
  BY <1>1, <1>2, <1>4, <1>5 DEF Retires
<1> QED
  BY <1>1, <1>5, <1>6

\* What was seen of older runs stands when a run is retired.
LEMMA EndedRetire ==
  ASSUME HostTypes, PromptTypes, EndedOK, HostOK, Retires,
         UNCHANGED <<run, runOf, at, current>>,
         \A p \in Runs : InDown("started", p)' => InDown("started", p),
         NEW r \in Runs, run[r] # "unused",
         ended' \subseteq ended \cup {r},
         r \in ended' => \/ r \in inputs'[SessionOf(r)].retired
                         \/ /\ run[r] \in {"told", "left", "closed"}
                            /\ run[r] = "told" => ~(at = "stable" /\
                                   current = SessionOf(r))
                            /\ ~ InDown("started", r)'
  PROVE  EndedOK'
<1>1. ASSUME NEW p \in ended'
      PROVE  /\ run'[p] # "unused"
             /\ p \in inputs'[runOf'[p].session].retired \/ Past(p)'
  <2>1. CASE p = r
    BY <1>1, <2>1 DEF Past, SessionOf
  <2>2. CASE p # r
    <3>1. p \in ended /\ p \in Runs /\ run[p] # "unused"
          /\ (p \in inputs[runOf[p].session].retired \/ Past(p))
      BY <1>1, <2>2 DEF EndedOK, PromptTypes, SessionOf
    <3>2. runOf[p].session \in Sessions
      BY <3>1 DEF HostOK, SessionOf
    <3>3. /\ inputs[runOf[p].session].retired \subseteq inputs'[runOf[p].session].retired
          /\ inputs'[runOf[p].session].instance = inputs[runOf[p].session].instance
      BY <3>2 DEF Retires
    <3>4. Past(p) => Past(p)'
      BY <3>1, <3>3 DEF Past, SessionOf
    <3> QED
      BY <3>1, <3>3, <3>4
  <2> QED
    BY <2>1, <2>2
<1> QED
  BY <1>1 DEF EndedOK, SessionOf

\* The end of a run keeps what the client knows true.
LEMMA PumpDoneKnowledge ==
  ASSUME TypeOK, RouteOK, HostOK, DownOK, Knowledge, PumpDone
  PROVE  Knowledge'
<1>1. /\ HostTypes /\ LinkTypes /\ RouteTypes /\ PromptTypes /\ GateTypes
      /\ InputsOK /\ KnownOK /\ EndedOK /\ NoRevival /\ ShownOK
  BY TypeParts DEF Knowledge
<1>2. /\ down # <<>> /\ down' = Tail(down) /\ gate = "free"
      /\ UNCHANGED <<home, instance, run, runOf, at, current, gen, gate, other,
             reply>>
  BY DEF PumpDone, Pump, hostVars, routeVars, gateVars
<1>3. PICK r \in Runs, s \in Sessions :
           /\ Head(down) = Message("done", r)
           /\ run[r] # "unused" /\ s = SessionOf(r)
           /\ \/ Forwards(s, r)
              \/ ~ShouldForward(s, r) /\ UNCHANGED <<inputs, ended, active, shown>>
  BY <1>1, PumpDoneIs
<1>4. /\ Retires
      /\ at = "stable" /\ s = current /\ run[r] = "told" =>
             r \in inputs'[current].retired
      /\ s = current /\ inputs[current].latest = r => Forwards(s, r)
  BY <1>1, <1>2, <1>3, DoneRetires
<1>5. ~ InDown("started", r) /\ run[r] \in {"told", "closed"}
  BY <1>1, <1>2, <1>3, DoneIsLast
<1>6. ASSUME NEW p \in Runs
      PROVE  /\ InDown("started", p)' <=> InDown("started", p)
             /\ InDown("done", p)' => InDown("done", p)
             /\ p # r => (InDown("done", p) => InDown("done", p)')
  <2>1. Message("started", p) # Message("done", r) /\ (p # r =>
            Message("done", p) # Message("done", r))
    BY RunMessage
  <2> QED
    BY <1>1, <1>2, <1>3, <2>1, InDownMoves
<1>7. active' \in {active, NoMarker}
  BY <1>3 DEF Forwards, CloseActive
<1>8. InputsOK'
  BY <1>1, <1>2, <1>4, <1>7, InputsRetire
<1>9. ReplyOK'
  BY <1>2 DEF ReplyOK
<1>10. at = "stable" => current \in Sessions
  BY DEF RouteOK
<1>11. KnownOK'
  <2>1. ASSUME NEW p \in Runs, at = "stable", SessionOf(p) = current,
               run[p] \in {"running", "over", "told"}, ~InDown("started", p)'
        PROVE  p = inputs'[current].latest \/ p \in inputs'[current].retired
    BY <1>1, <1>4, <1>6, <1>10, <2>1 DEF KnownOK, Retires
  <2>2. ASSUME NEW p \in Runs, at = "stable", SessionOf(p) = current,
               run[p] = "told", ~InDown("done", p)'
        PROVE  p \in inputs'[current].retired
    <3>1. CASE p = r
      BY <1>3, <1>4, <2>2, <3>1
    <3>2. CASE p # r
      BY <1>1, <1>4, <1>6, <1>10, <2>2, <3>2 DEF KnownOK, Retires
    <3> QED
      BY <3>1, <3>2
  <2> QED
    BY <1>2, <2>1, <2>2 DEF KnownOK, SessionOf
<1>12. EndedOK'
  <2>1. ended' \subseteq ended \cup {r}
    BY <1>3 DEF Forwards
  <2>2. r \in inputs'[SessionOf(r)].retired
        \/ /\ run[r] \in {"told", "left", "closed"}
           /\ run[r] = "told" => ~(at = "stable" /\ current = SessionOf(r))
           /\ ~ InDown("started", r)'
    BY <1>3, <1>4, <1>5, <1>6
  <2> QED
    BY <1>1, <1>2, <1>3, <1>4, <1>6, <2>1, <2>2, EndedRetire
<1>13. NoRevival'
  <2>1. CASE ended' = ended
    BY <1>1, <1>7, <2>1 DEF NoRevival
  <2>2. CASE Forwards(s, r)
    <3>1. CASE active.session = s /\ active.run = r
      <4>1. active' = NoMarker
        BY <2>2, <3>1 DEF Forwards, CloseActive
      <4> QED
        BY <4>1 DEF NoRevival
    <3>2. CASE ~(active.session = s /\ active.run = r)
      <4>1. active' = active /\ ended' = ended \cup {r}
        BY <2>2, <3>2 DEF Forwards
      <4>2. ASSUME active # NoMarker, active.run = r PROVE FALSE
        <5>1. /\ inputs[current].latest = r /\ active.session = current /\
                     current \in Sessions
          BY <1>1, <4>2 DEF InputsOK, RouteOK
        <5>2. r # NoRun
          BY DEF Runs, NoRun
        <5>4. Sends(inputs[current].latest, current, inputs[current].instance)
          BY <1>1, <5>1, <5>2 DEF InputsOK
        <5>3. runOf[r].session = current
          BY <5>1, <5>4 DEF Sends
        <5> QED
          BY <1>3, <3>2, <4>2, <5>1, <5>3 DEF SessionOf
      <4> QED
        BY <1>1, <4>1, <4>2 DEF NoRevival
    <3> QED
      BY <3>1, <3>2
  <2> QED
    BY <1>3, <2>1, <2>2
<1>14. ShownOK'
  <2>1. SUFFICES ASSUME shown' = "run" PROVE ShownOK'
    BY DEF ShownOK
  <2>2. shown = "run"
    BY <1>3, <2>1 DEF Forwards
  <2>3. PICK p : p = inputs[current].latest
    OBVIOUS
  <2>4. /\ at = "stable" /\ inputs[current].instance = instance[current]
        /\ p # NoRun /\ Outstanding(p) /\ current \in Sessions
    BY <1>1, <1>10, <2>2, <2>3 DEF ShownOK
  <2>5. p \in Runs
    BY <1>1, <2>3, <2>4 DEF PromptTypes, Known
  <2>6. p # r
    <3>1. SUFFICES ASSUME p = r PROVE FALSE
      OBVIOUS
    <3>5. Sends(inputs[current].latest, current, inputs[current].instance)
      BY <1>1, <2>3, <2>4 DEF InputsOK
    <3>2. runOf[r].session = current
      BY <2>3, <3>1, <3>5 DEF Sends
    <3>3. s = current /\ Forwards(s, r)
      BY <1>3, <1>4, <2>3, <3>1, <3>2 DEF SessionOf
    <3>4. current \notin deleted
      BY DEF RouteOK
    <3> QED
      BY <2>1, <2>4, <3>3, <3>4 DEF Forwards
  <2>7. Outstanding(p)'
    BY <1>2, <1>6, <2>4, <2>5, <2>6 DEF Outstanding
  <2>8. /\ inputs'[current].instance = inputs[current].instance
        /\ inputs'[current].latest = p
    BY <1>4, <2>3, <2>4 DEF Retires
  <2> QED
    BY <1>2, <2>4, <2>7, <2>8 DEF ShownOK, Outstanding, InDown
<1> QED
  BY <1>8, <1>9, <1>11, <1>12, <1>13, <1>14 DEF Knowledge

\* So does a stop.
LEMMA StopKnowledge ==
  ASSUME TypeOK, RouteOK, HostOK, Knowledge, Stop
  PROVE  Knowledge'
<1>1. /\ HostTypes /\ LinkTypes /\ RouteTypes /\ PromptTypes /\ GateTypes
      /\ InputsOK /\ KnownOK /\ EndedOK /\ NoRevival /\ ShownOK
  BY TypeParts DEF Knowledge
<1>2. /\ gate = "free" /\ at = "stable"
      /\ UNCHANGED <<home, instance, run, runOf, down, at, current, gen, gate,
             other, reply, shown>>
  BY DEF Stop, Disturb, hostVars, routeVars
<1>3. ReplyOK'
  BY <1>2 DEF ReplyOK
<1>4. CASE active = NoMarker
  <2>1. UNCHANGED <<active, inputs, ended>>
    BY <1>4 DEF Stop
  <2>2. InputsOK'
    BY <1>1, <1>2, <2>1, InputsKept
  <2>3. \A r \in Runs : /\ InDown("started", r)' <=> InDown("started", r)
                        /\ InDown("done", r)' <=> InDown("done", r)
    BY <1>2 DEF InDown
  <2> QED
    BY <1>1, <1>2, <1>3, <2>1, <2>2, <2>3, KnownKept DEF Knowledge
<1>5. CASE active # NoMarker
  <2>1. /\ active' = NoMarker
        /\ inputs' = [inputs EXCEPT ![active.session] = Retire(@, active.run)]
        /\ ended' = ended \cup {active.run}
    BY <1>5 DEF Stop, CloseActive
  <2>2. /\ active.session = current /\ current \in Sessions
        /\ active.run \in Runs /\ active.run # NoRun
        /\ inputs[current].latest = active.run
    BY <1>1, <1>5 DEF RouteOK, InputsOK, PromptTypes, Runs, NoRun
  <2>3. PICK r \in Runs : r = active.run /\ r # NoRun
    BY <2>2
  <2>4. /\ Retires
        /\ r \in inputs'[current].retired
    <3>1. PICK c \in Sessions : c = current
      BY <2>2
    <3>2. inputs' = [inputs EXCEPT ![c] = Retire(@, r)]
      BY <2>1, <2>2, <2>3, <3>1
    <3>3. /\ Retires
          /\ r # NoRun /\ inputs[c].latest = r => r \in inputs'[c].retired
      BY <1>1, <3>2, RetireFacts
    <3>4. inputs[c].latest = r /\ r # NoRun
      BY <2>2, <2>3, <3>1
    <3>5. r \in inputs'[c].retired
      BY <3>3, <3>4
    <3> QED
      BY <3>1, <3>3, <3>5
  <2>5. run[r] # "unused" /\ SessionOf(r) = current
    <3>1. Sends(inputs[current].latest, current, inputs[current].instance)
      BY <1>1, <2>2 DEF InputsOK
    <3>2. Sends(r, current, inputs[current].instance)
      BY <2>2, <2>3, <3>1
    <3> QED
      BY <3>2 DEF Sends, SessionOf
  <2>6. InputsOK'
    BY <1>1, <1>2, <2>1, <2>4, InputsRetire
  <2>7. KnownOK'
    BY <1>1, <1>2, <2>2, <2>4 DEF KnownOK, Retires, SessionOf, InDown
  <2>8. EndedOK'
    <3>1. \A p \in Runs : InDown("started", p)' => InDown("started", p)
      BY <1>2 DEF InDown
    <3>2. r \in inputs'[SessionOf(r)].retired
      BY <2>4, <2>5
    <3> QED
      BY <1>1, <1>2, <2>1, <2>3, <2>4, <2>5, <3>1, <3>2, EndedRetire
  <2>9. NoRevival'
    BY <2>1 DEF NoRevival
  <2>10. ShownOK'
    BY <1>1, <1>2, <2>2, <2>4 DEF ShownOK, Retires, Outstanding, InDown
  <2> QED
    BY <1>3, <2>6, <2>7, <2>8, <2>9, <2>10 DEF Knowledge
<1> QED
  BY <1>4, <1>5

\* The invariant in parts.
LEMMA KnowledgeParts ==
  ASSUME TypeOK, Knowledge
  PROVE  /\ HostTypes /\ LinkTypes /\ RouteTypes /\ PromptTypes /\ GateTypes
         /\ InputsOK /\ ReplyOK /\ KnownOK /\ EndedOK /\ NoRevival /\ ShownOK
BY TypeParts DEF Knowledge

\* Requests, notices and answers say nothing of the runs.
LEMMA QuietKnowledge ==
  ASSUME TypeOK, RouteOK, SentOK, Knowledge,
         \/ PumpAsk \/ ShowAsk \/ ShowEnd \/ UserAnswers
         \/ \E q \in Asks : RespondInteraction(q)
  PROVE  Knowledge'
<1>1. /\ HostTypes /\ LinkTypes /\ RouteTypes /\ PromptTypes /\ GateTypes
      /\ InputsOK /\ ReplyOK /\ KnownOK /\ EndedOK /\ NoRevival /\ ShownOK
  BY KnowledgeParts
<1>2. UNCHANGED <<home, instance, run, runOf, at, current, gen, gate, other, reply,
                  inputs, ended, active, shown>>
  BY DEF PumpAsk, Pump, ShowAsk, ShowEnd, Notice, UserAnswers,
     RespondInteraction,
         hostVars, routeVars, gateVars, promptVars
<1>3. InputsOK'
  BY <1>1, <1>2, InputsKept
<1>4. ReplyOK'
  <2>1. CASE PumpAsk
    <3>1. gate' # "apply"
      BY <2>1 DEF PumpAsk, Pump, gateVars
    <3> QED
      BY <3>1 DEF ReplyOK
  <2>2. CASE ~ PumpAsk
    <3>1. down' = down
      BY <2>2 DEF ShowAsk, ShowEnd, Notice, UserAnswers, RespondInteraction
    <3> QED
      BY <1>1, <1>2, <3>1 DEF ReplyOK, Sends, Outstanding, InDown
  <2> QED
    BY <2>1, <2>2
<1>5. \A r \in Runs : /\ InDown("started", r)' <=> InDown("started", r)
                      /\ InDown("done", r)' <=> InDown("done", r)
  <2>1. CASE PumpAsk
    <3>1. PICK q \in Asks : down # <<>> /\ Head(down) = Message("ask", q)
      BY <1>1, <2>1, PumpAskIs
    <3>2. down' = Tail(down)
      BY <2>1 DEF PumpAsk, Pump
    <3>3. \A r \in Runs : /\ Message("started", r) # Message("ask", q)
                          /\ Message("done", r) # Message("ask", q)
      BY RunMessage
    <3> QED
      BY <1>1, <3>1, <3>2, <3>3, InDownMoves
  <2>2. CASE ~ PumpAsk
    <3>1. down' = down
      BY <2>2 DEF ShowAsk, ShowEnd, Notice, UserAnswers, RespondInteraction
    <3> QED
      BY <3>1 DEF InDown
  <2> QED
    BY <2>1, <2>2
<1> QED
  BY <1>1, <1>2, <1>3, <1>4, <1>5, KnownKept DEF Knowledge

\* Leaving the session on screen.
LEMMA LeavesKnowledge ==
  ASSUME TypeOK, RouteOK, Knowledge,
         at' # "stable", active' = NoMarker, shown' = "idle", gate' # "apply",
         UNCHANGED <<run, runOf, down, inputs, ended, instance>>,
         \A s \in Sessions : home'[s] = "open" =>
           /\ home[s] = "open"
           /\ \/ current = s /\ gate \in {"first", "apply"}
              \/ other = s /\ gate = "close"
              => other' = s /\ gate' = "close"
  PROVE  Knowledge'
<1>1. /\ InputsOK /\ EndedOK
  BY DEF Knowledge
<1>2. InputsOK'
  BY <1>1, InputsKept
<1>3. ReplyOK'
  BY DEF ReplyOK
<1>4. KnownOK' /\ EndedOK' /\ NoRevival' /\ ShownOK'
  BY <1>1, KnownLeaves
<1> QED
  BY <1>2, <1>3, <1>4 DEF Knowledge

\* The holder of the gate goes on, in the same session.
LEMMA GateKnowledge ==
  ASSUME TypeOK, RouteOK, Knowledge,
         UNCHANGED <<run, runOf, down, inputs, ended, instance, at, current,
             gen, active, shown>>,
         gate \notin {"first", "apply"}, gate' # "apply",
         \A s \in Sessions : home'[s] = "open" =>
           /\ home[s] = "open"
           /\ ~ (other = s /\ gate = "close")
  PROVE  Knowledge'
<1>1. /\ HostTypes /\ LinkTypes /\ RouteTypes /\ PromptTypes /\ GateTypes
      /\ InputsOK /\ ReplyOK /\ KnownOK /\ EndedOK /\ NoRevival /\ ShownOK
  BY KnowledgeParts
<1>2. InputsOK'
  BY <1>1, InputsKept
<1>3. ReplyOK'
  BY DEF ReplyOK
<1>4. \A r \in Runs : /\ InDown("started", r)' <=> InDown("started", r)
                      /\ InDown("done", r)' <=> InDown("done", r)
  BY DEF InDown
<1> QED
  BY <1>1, <1>2, <1>3, <1>4, KnownKept DEF Knowledge

\* So do the operations of the client.
LEMMA OperationKnowledge ==
  ASSUME TypeOK, RouteOK, HostOK, Knowledge,
         \/ Stop \/ NewSession \/ Poll
         \/ \E s \in Sessions : LoadSession(s) \/ DeleteSession(s)
  PROVE  Knowledge'
<1>1. ASSUME NEW target, BeginTransition(target), Disturb, gate' # "apply"
      PROVE  Knowledge'
  <2>1. /\ gate = "free" /\ at' = "moving" /\ active' = NoMarker /\ shown' = "idle"
        /\ UNCHANGED <<run, runOf, down, inputs, ended, instance, home>>
    BY <1>1 DEF Disturb, BeginTransition, hostVars
  <2> QED
    BY <1>1, <2>1, LeavesKnowledge
<1>2. CASE NewSession
  <2>1. BeginTransition(NoSession) /\ Disturb /\ gate' # "apply"
    BY <1>2 DEF NewSession, Move
  <2> QED
    BY <1>1, <2>1
<1>3. ASSUME NEW s \in Sessions, LoadSession(s) PROVE Knowledge'
  <2>1. BeginTransition(s) /\ Disturb /\ gate' # "apply"
    BY <1>3 DEF LoadSession, Move
  <2> QED
    BY <1>1, <2>1
<1>4. ASSUME NEW s \in Sessions, DeleteSession(s) PROVE Knowledge'
  <2>1. CASE at = "stable" /\ current = s
    <3>1. BeginTransition(NoSession) /\ Disturb /\ gate' # "apply"
      BY <1>4, <2>1 DEF DeleteSession
    <3> QED
      BY <1>1, <3>1
  <2>2. CASE ~(at = "stable" /\ current = s)
    <3>1. /\ gate = "free" /\ gate' = "delete"
          /\ UNCHANGED <<run, runOf, down, inputs, ended, instance, home, at,
                 current, gen,
                         active, shown>>
      BY <1>4, <2>2 DEF DeleteSession, Disturb, hostVars, routeVars, promptVars
    <3> QED
      BY <3>1, GateKnowledge
  <2> QED
    BY <2>1, <2>2
<1>5. CASE Poll
  <2>1. /\ gate = "free" /\ gate' = "poll"
        /\ UNCHANGED <<run, runOf, down, inputs, ended, instance, home, at,
               current, gen,
                       active, shown>>
    BY <1>5 DEF Poll, Disturb, hostVars, routeVars, promptVars
  <2> QED
    BY <2>1, GateKnowledge
<1> QED
  BY <1>2, <1>3, <1>4, <1>5, StopKnowledge

\* So do the steps of a boundary at the host.
LEMMA BoundaryKnowledge ==
  ASSUME TypeOK, RouteOK, HostOK, Knowledge,
         PreClose \/ Closed \/ Deleted \/ Refused \/ SnapshotFailed
  PROVE  Knowledge'
<1>1. /\ HostTypes /\ LinkTypes /\ RouteTypes /\ PromptTypes /\ GateTypes
  BY KnowledgeParts
<1>2. CASE PreClose
  <2>1. /\ gate \in {"close", "delete"} /\ gate' \in {"closing", "deleting"}
        /\ UNCHANGED <<run, runOf, down, inputs, ended, instance, at, current, gen,
                       active, shown>>
        /\ home' = Frozen(other)
    BY <1>2 DEF PreClose, routeVars, promptVars
  <2>2. \A s \in Sessions : home'[s] = "open" => home[s] = "open" /\ s # other
    BY <1>1, <2>1 DEF HostTypes, Frozen
  <2> QED
    BY <2>1, <2>2, GateKnowledge
<1>3. CASE Closed
  <2>1. /\ gate = "closing" /\ gate' \in {"open", "free"}
        /\ UNCHANGED <<run, runOf, down, inputs, ended, instance, at, current, gen,
                       active, shown>>
        /\ home' = [home EXCEPT ![other] = "closed"]
    BY <1>3 DEF Closed, routeVars, promptVars
  <2>2. \A s \in Sessions : home'[s] = "open" => home[s] = "open"
    BY <1>1, <2>1 DEF HostTypes
  <2> QED
    BY <2>1, <2>2, GateKnowledge
<1>4. CASE Deleted
  <2>1. /\ gate = "deleting" /\ home' = [home EXCEPT ![other] = "closed"]
        /\ UNCHANGED <<run, runOf, down, instance>>
    BY <1>4 DEF Deleted
  <2>2. \A s \in Sessions : home'[s] = "open" => home[s] = "open"
    BY <1>1, <2>1 DEF HostTypes
  <2>3. CASE at = "moving"
    <3>1. /\ at' # "stable" /\ active' = NoMarker /\ shown' = "idle" /\
                 gate' # "apply"
          /\ UNCHANGED <<inputs, ended>>
      BY <1>4, <2>3 DEF Deleted, FailTransition
    <3> QED
      BY <2>1, <2>2, <3>1, LeavesKnowledge
  <2>4. CASE at # "moving"
    <3>1. /\ gate' = "free"
          /\ UNCHANGED <<inputs, ended, at, current, gen, active, shown>>
      BY <1>4, <2>4 DEF Deleted, routeVars, promptVars
    <3> QED
      BY <2>1, <2>2, <3>1, GateKnowledge
  <2> QED
    BY <2>3, <2>4
<1>5. CASE Refused
  <2>1. /\ gate \in {"closing", "deleting", "open"}
        /\ UNCHANGED <<run, runOf, down, instance, home>>
    BY <1>5 DEF Refused, hostVars
  <2>3. CASE at = "moving"
    <3>1. /\ at' # "stable" /\ active' = NoMarker /\ shown' = "idle" /\
                 gate' # "apply"
          /\ UNCHANGED <<inputs, ended>>
      BY <1>5, <2>3 DEF Refused, FailTransition
    <3> QED
      BY <2>1, <3>1, LeavesKnowledge
  <2>4. CASE at # "moving"
    <3>1. /\ gate' = "free"
          /\ UNCHANGED <<inputs, ended, at, current, gen, active, shown>>
      BY <1>5, <2>4 DEF Refused, routeVars, promptVars
    <3> QED
      BY <2>1, <3>1, GateKnowledge
  <2> QED
    BY <2>3, <2>4
<1>6. CASE SnapshotFailed
  <2>1. UNCHANGED <<run, runOf, down, instance, home>>
    BY <1>6 DEF SnapshotFailed, hostVars
  <2>2. CASE gate = "first"
    <3>1. /\ at' # "stable" /\ active' = NoMarker /\ shown' = "idle"
          /\ gate' = "close" /\ other' = current
          /\ UNCHANGED <<inputs, ended>>
      BY <1>6, <2>2 DEF SnapshotFailed
    <3> QED
      BY <2>1, <2>2, <3>1, LeavesKnowledge
  <2>3. CASE gate # "first"
    <3>1. /\ gate = "poll" /\ gate' = "free"
          /\ UNCHANGED <<inputs, ended, at, current, gen, active, shown>>
      BY <1>6, <2>3 DEF SnapshotFailed, routeVars, promptVars
    <3> QED
      BY <2>1, <3>1, GateKnowledge
  <2> QED
    BY <2>2, <2>3
<1> QED
  BY <1>2, <1>3, <1>4, <1>5, <1>6

\* A snapshot names a run that the client has retired, or that is still to end.
LEMMA ReadKnowledge ==
  ASSUME TypeOK, RouteOK, HostOK, Knowledge, SnapshotRead
  PROVE  Knowledge'
<1>1. /\ HostTypes /\ LinkTypes /\ RouteTypes /\ PromptTypes /\ GateTypes
      /\ InputsOK /\ ReplyOK /\ KnownOK /\ EndedOK /\ NoRevival /\ ShownOK
  BY KnowledgeParts
<1>2. /\ gate \in {"first", "poll"} /\ gate' = "apply" /\ at = "stable" /\
             current \in Sessions
      /\ reply' = [instance |-> instance[current], run |-> ActiveRequest(current)]
      /\ UNCHANGED <<home, instance, run, runOf, down, at, current, gen, other,
                     inputs, ended, active, shown>>
  BY DEF SnapshotRead, RouteOK, hostVars, routeVars, promptVars
<1>3. InputsOK'
  BY <1>1, <1>2, InputsKept
<1>4. \A r \in Runs : /\ InDown("started", r)' <=> InDown("started", r)
                      /\ InDown("done", r)' <=> InDown("done", r)
  BY <1>2 DEF InDown
<1>5. KnownOK' /\ EndedOK' /\ NoRevival' /\ ShownOK'
  BY <1>1, <1>2, <1>4, KnownKept
<1>6. ReplyOK'
  <2>1. CASE Executing(current) = {}
    <3>1. reply'.instance = instance[current] /\ reply'.run = NoRun
      BY <1>2, <2>1 DEF ActiveRequest
    <3> QED
      BY <1>2, <3>1 DEF ReplyOK
  <2>2. CASE Executing(current) # {}
    <3>1. PICK r : r = ActiveRequest(current)
      OBVIOUS
    <3>2. r \in Executing(current)
      BY <2>2, <3>1 DEF ActiveRequest
    <3>3. /\ r \in Runs /\ runOf[r].session = current
          /\ run[r] \in {"attached", "running", "over", "told"}
      BY <3>2 DEF Executing, SessionOf
    <3>4. runOf[r].instance = instance[current]
      BY <3>3 DEF HostOK, SessionOf, Executes
    <3>5. runOf[r] = [session |-> current, instance |-> instance[current]]
      BY <1>1, <3>3, <3>4 DEF HostTypes
    <3>6. Sends(r, current, instance[current])
      BY <3>3, <3>5 DEF Sends
    <3>7. run[r] = "told" /\ ~InDown("done", r) => r \in inputs[current].retired
      BY <1>1, <1>2, <3>3 DEF KnownOK, SessionOf
    <3>8. r \in ended => r \in inputs[current].retired
      BY <1>1, <1>2, <3>3 DEF EndedOK, Past, SessionOf
    <3>9. r \in inputs[current].retired \/ (r \notin ended /\ Outstanding(r))
      BY <3>3, <3>7, <3>8 DEF Outstanding
    <3>10. reply'.instance = instance[current] /\ reply'.run = r
      BY <1>2, <3>1
    <3> QED
      BY <1>2, <3>6, <3>9, <3>10 DEF ReplyOK, Sends, Outstanding, InDown
  <2> QED
    BY <2>1, <2>2
<1> QED
  BY <1>3, <1>5, <1>6 DEF Knowledge

\* A session opens only once no run holds its prompt lock.
LEMMA OpenedKnowledge ==
  ASSUME TypeOK, RouteOK, HostOK, Knowledge, Opened
  PROVE  Knowledge'
<1>1. /\ HostTypes /\ LinkTypes /\ RouteTypes /\ PromptTypes /\ GateTypes
      /\ InputsOK /\ ReplyOK /\ KnownOK /\ EndedOK /\ NoRevival /\ ShownOK
  BY KnowledgeParts
<1>2. PICK s \in Sessions :
          /\ home[s] = "none" \/ Executing(s) = {}
          /\ instance' = [instance EXCEPT ![s] = IF home[s] = "open" THEN @ ELSE @ + 1]
          /\ home' = [home EXCEPT ![s] = "open"]
          /\ current' = s
  BY DEF Opened
<1>3. /\ gate = "open" /\ gate' = "first" /\ at' = "stable" /\ active' = NoMarker
      /\ at = "moving"
      /\ UNCHANGED <<run, runOf, down, inputs, ended, shown>>
  BY DEF Opened, RouteOK
<1>4. \A r \in Runs : runOf[r].session = s =>
         run[r] \notin {"attached", "running", "over", "told"}
  <2>1. CASE home[s] = "none"
    <3>1. instance[s] = 0
      BY <2>1 DEF HostOK
    <3>2. \A r \in Runs : run[r] # "unused" => runOf[r].session # s
      BY <3>1 DEF HostOK, SessionOf
    <3> QED
      BY <3>2
  <2>2. CASE Executing(s) = {}
    BY <2>2 DEF Executing, SessionOf
  <2> QED
    BY <1>2, <2>1, <2>2
<1>5. \A x \in Sessions : /\ instance'[x] >= instance[x] /\
                                 instance'[x] \in Nat /\ instance[x] \in Nat
                          /\ inputs[x].instance \in Nat
                          /\ x # s => instance'[x] = instance[x] /\
                                 home'[x] = home[x]
  BY <1>1, <1>2 DEF HostTypes, PromptTypes, Known
<1>6. InputsOK'
  <2>1. ASSUME NEW x \in Sessions
        PROVE  /\ inputs'[x].instance <= instance'[x]
               /\ \A r \in inputs'[x].retired : Sends(r, x, inputs[x].instance)
               /\ inputs'[x].latest # NoRun => Sends(inputs[x].latest, x,
                      inputs[x].instance)
               /\ home'[x] = "open" => \/ inputs'[x].instance = instance'[x]
                                       \/ current' = x /\
                                              gate' \in {"first", "apply"}
                                       \/ other' = x /\ gate' = "close"
    <3>1. inputs[x].instance <= instance[x]
      BY <1>1 DEF InputsOK
    <3>2. inputs[x].instance <= instance'[x]
      BY <1>5, <3>1
    <3>3. x # s /\ home[x] = "open" => inputs[x].instance = instance[x]
      BY <1>1, <1>3 DEF InputsOK, RouteOK
    <3> QED
      BY <1>1, <1>2, <1>3, <1>5, <3>2, <3>3 DEF InputsOK
  <2> QED
    BY <1>3, <2>1 DEF InputsOK, Sends
<1>7. ReplyOK'
  BY <1>3 DEF ReplyOK
<1>8. KnownOK'
  BY <1>2, <1>3, <1>4 DEF KnownOK, SessionOf
<1>9. EndedOK'
  BY <1>1, <1>2, <1>3, <1>4 DEF EndedOK, Past, SessionOf, InDown, PromptTypes
<1>10. NoRevival'
  BY <1>3 DEF NoRevival
<1>11. ShownOK'
  BY <1>1, <1>3 DEF ShownOK
<1> QED
  BY <1>6, <1>7, <1>8, <1>9, <1>10, <1>11 DEF Knowledge

\* k is what the client knows of the instance that is open.
Rebinds(k) ==
  /\ k.instance = instance[current] /\ k.gen = gen
  /\ \A p \in k.retired : Sends(p, current, instance[current])
  /\ k.latest # NoRun => Sends(k.latest, current, instance[current])
  /\ \/ k.latest = inputs[current].latest /\ k.retired = inputs[current].retired
     \/ inputs[current].instance < instance[current]

\* Binding to the open instance keeps what is known of it alone.
LEMMA BindRebinds ==
  ASSUME HostTypes, PromptTypes, RouteTypes, RouteOK, HostOK, InputsOK,
         at = "stable"
  PROVE  Rebinds(Bind(inputs[current], instance[current]))
<1>1. PICK c \in Sessions, b \in Known, i \in Nat :
         c = current /\ b = inputs[current] /\ i = instance[current] /\ i > 0
  <2>1. current \in Sessions
    BY DEF RouteOK
  <2>2. inputs[current] \in Known /\ instance[current] \in Nat
    BY <2>1 DEF PromptTypes, HostTypes
  <2>3. instance[current] > 0
    BY <2>1 DEF HostOK
  <2> QED
    BY <2>1, <2>2, <2>3
<1>2. /\ b.instance <= i /\ b.instance \in Nat
      /\ \A p \in b.retired : Sends(p, c, b.instance)
      /\ b.latest # NoRun => Sends(b.latest, c, b.instance)
  <2>1. /\ inputs[c].instance <= instance[c]
        /\ \A p \in inputs[c].retired : Sends(p, c, inputs[c].instance)
        /\ inputs[c].latest # NoRun => Sends(inputs[c].latest, c,
               inputs[c].instance)
    BY DEF InputsOK
  <2>2. b = inputs[c] /\ i = instance[c]
    BY <1>1
  <2> QED
    BY <2>1, <2>2 DEF Known
<1>3. b.retired \subseteq Runs /\ b.latest \in Runs \cup {NoRun}
  BY DEF Known
<1>4. ASSUME NEW p \in Runs, Sends(p, c, 0) PROVE FALSE
  <2>1. run[p] # "unused" /\ runOf[p].instance = 0 /\ runOf[p].session = c
    BY <1>4 DEF Sends
  <2>2. runOf[p].instance \in 1..instance[c]
    BY <2>1 DEF HostOK, SessionOf
  <2> QED
    BY <1>1, <2>1, <2>2
<1>5. CASE b.instance \in {0, i}
  <2>1. /\ Bind(b, i).instance = i /\ Bind(b, i).gen = gen
        /\ Bind(b, i).latest = b.latest /\ Bind(b, i).retired = b.retired
    BY <1>5 DEF Bind, Known
  <2>2. /\ \A p \in b.retired : Sends(p, c, i)
        /\ b.latest # NoRun => Sends(b.latest, c, i)
    <3>1. CASE b.instance = i
      BY <1>2, <3>1
    <3>2. CASE b.instance = 0
      BY <1>2, <1>3, <1>4, <3>2
    <3> QED
      BY <1>5, <3>1, <3>2
  <2> QED
    BY <1>1, <2>1, <2>2 DEF Rebinds
<1>6. CASE b.instance \notin {0, i}
  <2>1. /\ Bind(b, i).instance = i /\ Bind(b, i).gen = gen
        /\ Bind(b, i).latest = NoRun /\ Bind(b, i).retired = {}
    BY <1>6 DEF Bind, Unbound
  <2>2. b.instance < i
    BY <1>2, <1>6
  <2> QED
    BY <1>1, <2>1, <2>2 DEF Rebinds
<1> QED
  BY <1>5, <1>6

Updated(k, r) == IF r = NoRun THEN k ELSE Supersede(k, r)

\* Supersede retires the run it replaces and no other.
LEMMA UpdatedFacts ==
  ASSUME NEW k \in Known, NEW r \in Runs \cup {NoRun}
  PROVE  /\ Updated(k, r).instance = k.instance /\ Updated(k, r).gen = k.gen
         /\ Updated(k, r).latest = IF r = NoRun THEN k.latest ELSE r
         /\ k.retired \subseteq Updated(k, r).retired
         /\ \A p \in Updated(k, r).retired \ k.retired : p = k.latest /\ p # NoRun
         /\ r # NoRun => k.latest \in {NoRun, r} \cup Updated(k, r).retired
BY DEF Known, Updated, Supersede

\* What the client knows of the session on screen is brought up to date: for
\* a run that becomes the active one, or for a snapshot that names none.
Updates(k, r) ==
  /\ at = "stable" /\ k \in Known /\ r \in Runs \cup {NoRun} /\ Rebinds(k)
  /\ inputs' = [inputs EXCEPT ![current] = Updated(k, r)]
  /\ IF r = NoRun
     THEN UNCHANGED <<active, ended, shown>>
     ELSE /\ Sends(r, current, instance[current]) /\ r \notin ended /\
                 Outstanding(r)'
          /\ active'.run = r /\ shown' = "run"
          /\ ended' = ended \cup ({active.run, k.latest} \ {NoRun, r})
  /\ gate \in {"free", "apply"} /\ gate' = "free"
  /\ UNCHANGED <<run, runOf, instance, home, at, current, gen, other>>
  /\ \A p \in Runs : /\ InDown("started", p)' => InDown("started", p)
                     /\ InDown("started", p) => InDown("started", p)' \/ p = r
                     /\ InDown("done", p)' <=> InDown("done", p)

\* An update keeps runs with their instance.
LEMMA UpdatesInputs ==
  ASSUME HostTypes, PromptTypes, RouteTypes, RouteOK, HostOK, InputsOK,
         NEW k, NEW r, Updates(k, r)
  PROVE  InputsOK'
<1>1. PICK c \in Sessions, i \in Nat : c = current /\ i = instance[current]
  BY DEF RouteOK, Updates, HostTypes
<1>2. /\ k \in Known /\ r \in Runs \cup {NoRun} /\ k.instance = i /\ k.gen = gen
      /\ \A p \in k.retired : Sends(p, c, i)
      /\ k.latest # NoRun => Sends(k.latest, c, i)
      /\ r # NoRun => Sends(r, c, i)
      /\ UNCHANGED <<run, runOf, instance, home, at, current, gen, other>>
      /\ gate \in {"free", "apply"} /\ gate' = "free"
  BY <1>1 DEF Updates, Rebinds
<1>3. PICK u : u = Updated(k, r)
  OBVIOUS
<1>4. /\ u.instance = i /\ u.gen = gen
      /\ u.latest = IF r = NoRun THEN k.latest ELSE r
      /\ \A p \in u.retired \ k.retired : p = k.latest /\ p # NoRun
  BY <1>2, <1>3, UpdatedFacts
<1>5. inputs'[c] = u /\ \A s \in Sessions : s # c => inputs'[s] = inputs[s]
  BY <1>1, <1>3 DEF Updates, PromptTypes
<1>6. ASSUME NEW s \in Sessions
      PROVE  /\ inputs'[s].instance <= instance'[s]
             /\ \A p \in inputs'[s].retired : Sends(p, s, inputs'[s].instance)
             /\ inputs'[s].latest # NoRun => Sends(inputs'[s].latest, s,
                    inputs'[s].instance)
             /\ home'[s] = "open" => \/ inputs'[s].instance = instance'[s]
                                     \/ current' = s /\ gate' \in {"first", "apply"}
                                     \/ other' = s /\ gate' = "close"
  <2>1. CASE s = c
    <3>1. i \in Nat /\ i = instance'[s]
      BY <1>1, <1>2, <2>1 DEF HostTypes
    <3>2. \A p \in u.retired : Sends(p, c, i)
      BY <1>2, <1>4
    <3>3. u.latest # NoRun => Sends(u.latest, c, i)
      BY <1>2, <1>4
    <3> QED
      BY <1>4, <1>5, <2>1, <3>1, <3>2, <3>3
  <2>2. CASE s # c
    BY <1>1, <1>2, <1>5, <2>2 DEF InputsOK
  <2> QED
    BY <2>1, <2>2
<1>7. inputs'[current'].gen = gen'
  BY <1>1, <1>2, <1>4, <1>5
<1>8. active' # NoMarker =>
        /\ inputs'[current'].latest = active'.run
        /\ inputs'[current'].instance = instance'[current']
  <2>1. CASE r = NoRun
    <3>1. active' = active /\ u = k
      BY <1>3, <2>1 DEF Updates, Updated
    <3>2. active # NoMarker => inputs[c].latest = active.run /\
              inputs[c].instance = i
      BY <1>1 DEF InputsOK
    <3>3. active # NoMarker => k.latest = inputs[c].latest
      <4>1. ~ (i < i)
        BY <1>1 DEF HostTypes
      <4> QED
        BY <1>1, <3>2, <4>1 DEF Updates, Rebinds
    <3> QED
      BY <1>1, <1>2, <1>5, <3>1, <3>2, <3>3
  <2>2. CASE r # NoRun
    BY <1>1, <1>2, <1>4, <1>5, <2>2 DEF Updates
  <2> QED
    BY <2>1, <2>2
<1> QED
  BY <1>2, <1>6, <1>7, <1>8 DEF InputsOK, Sends

\* An update keeps runs known, and those that ended retired.
LEMMA UpdatesKnown ==
  ASSUME HostTypes, PromptTypes, RouteTypes, RouteOK, HostOK,
         InputsOK, KnownOK, EndedOK, NoRevival, ShownOK,
         NEW k, NEW r, Updates(k, r)
  PROVE  KnownOK' /\ EndedOK' /\ NoRevival' /\ ShownOK'
<1>1. PICK c \in Sessions, i \in Nat, b \in Known :
         c = current /\ i = instance[current] /\ b = inputs[current]
  <2>1. current \in Sessions
    BY DEF RouteOK, Updates
  <2> QED
    BY <2>1 DEF HostTypes, PromptTypes
<1>2. /\ k \in Known /\ r \in Runs \cup {NoRun} /\ k.instance = i /\ k.gen = gen
      /\ \A p \in k.retired : Sends(p, c, i)
      /\ k.latest # NoRun => Sends(k.latest, c, i)
      /\ \/ k.latest = b.latest /\ k.retired = b.retired
         \/ b.instance < i
      /\ at = "stable"
      /\ UNCHANGED <<run, runOf, instance, at, current>>
      /\ \A p \in Runs : /\ InDown("started", p)' => InDown("started", p)
                         /\ InDown("started", p) => InDown("started", p)' \/ p = r
                         /\ InDown("done", p)' <=> InDown("done", p)
  BY <1>1 DEF Updates, Rebinds
<1>3. PICK u : u = Updated(k, r)
  OBVIOUS
<1>4. /\ u.instance = i
      /\ u.latest = IF r = NoRun THEN k.latest ELSE r
      /\ k.retired \subseteq u.retired
      /\ r # NoRun => k.latest \in {NoRun, r} \cup u.retired
      /\ r = NoRun => u = k
  <2>1. r = NoRun => u = k
    BY <1>3 DEF Updated
  <2> QED
    BY <1>2, <1>3, <2>1, UpdatedFacts
<1>5. /\ inputs'[c] = u /\ inputs'[current'] = u
      /\ \A s \in Sessions : s # c => inputs'[s] = inputs[s]
  BY <1>1, <1>2, <1>3 DEF Updates, PromptTypes
<1>6. /\ b.instance <= i /\ b.instance \in Nat
      /\ \A p \in b.retired : Sends(p, c, b.instance)
      /\ b.latest # NoRun => Sends(b.latest, c, b.instance)
  <2>1. /\ inputs[c].instance <= instance[c]
        /\ \A p \in inputs[c].retired : Sends(p, c, inputs[c].instance)
        /\ inputs[c].latest # NoRun => Sends(inputs[c].latest, c,
               inputs[c].instance)
    BY <1>1 DEF InputsOK
  <2>2. b = inputs[c] /\ i = instance[c]
    BY <1>1
  <2> QED
    BY <2>1, <2>2 DEF Known
<1>7. ~(i < i) /\ NoRun \notin Runs
  BY DEF Runs, NoRun
<1>8. ASSUME NEW p \in Runs, runOf[p].session = c, run[p] \in {"attached",
                 "running", "over", "told"}
      PROVE  runOf[p].instance = i
  BY <1>1, <1>8 DEF HostOK, SessionOf, Executes
\* An executing run that is known is one of the instance that is open.
<1>9. ASSUME NEW p \in Runs, runOf[p].session = c, run[p] \in {"running",
                 "over", "told"},
             p = b.latest \/ p \in b.retired
      PROVE  k.latest = b.latest /\ k.retired = b.retired
  <2>1. runOf[p].instance = i
    BY <1>8, <1>9
  <2>2. Sends(p, c, b.instance)
    BY <1>6, <1>7, <1>9
  <2>3. b.instance = i
    BY <2>1, <2>2 DEF Sends
  <2> QED
    BY <1>2, <1>7, <2>3
<1>10. KnownOK'
  <2>1. ASSUME NEW p \in Runs, runOf[p].session = c,
               run[p] \in {"running", "over", "told"}, ~InDown("started", p)'
        PROVE  p = u.latest \/ p \in u.retired
    <3>1. CASE p = r
      BY <1>4, <1>7, <3>1
    <3>2. CASE p # r
      <4>1. p = b.latest \/ p \in b.retired
        BY <1>1, <1>2, <2>1, <3>2 DEF KnownOK, SessionOf
      <4>2. k.latest = b.latest /\ k.retired = b.retired
        BY <1>9, <2>1, <4>1
      <4> QED
        BY <1>4, <1>7, <3>2, <4>1, <4>2
    <3> QED
      BY <3>1, <3>2
  <2>2. ASSUME NEW p \in Runs, runOf[p].session = c, run[p] = "told",
                   ~InDown("done", p)'
        PROVE  p \in u.retired
    <3>1. p \in b.retired
      BY <1>1, <1>2, <2>2 DEF KnownOK, SessionOf
    <3>2. k.retired = b.retired
      BY <1>9, <2>2, <3>1
    <3> QED
      BY <1>4, <3>1, <3>2
  <2> QED
    BY <1>1, <1>2, <1>5, <2>1, <2>2 DEF KnownOK, SessionOf
<1>11. EndedOK'
  <2>1. ASSUME NEW p \in ended
        PROVE  /\ run'[p] # "unused"
               /\ p \in inputs'[runOf'[p].session].retired \/ Past(p)'
    <3>1. /\ p \in Runs /\ run[p] # "unused" /\ runOf[p].session \in Sessions
          /\ p \in inputs[runOf[p].session].retired \/ Past(p)
      BY <2>1 DEF EndedOK, PromptTypes, SessionOf, HostOK
    <3>2. CASE runOf[p].session # c
      <4>1. inputs'[runOf[p].session] = inputs[runOf[p].session]
        BY <1>5, <3>1, <3>2
      <4>2. Past(p) => Past(p)'
        BY <1>1, <1>2, <3>1, <3>2, <4>1 DEF Past, SessionOf
      <4> QED
        BY <1>2, <3>1, <4>1, <4>2
    <3>3. CASE runOf[p].session = c
      <4>1. CASE p \in b.retired
        <5>1. CASE k.retired = b.retired
          BY <1>2, <1>4, <1>5, <3>1, <3>3, <4>1, <5>1
        <5>2. CASE b.instance < i
          <6>1. runOf[p].instance = b.instance
            BY <1>6, <4>1 DEF Sends
          <6>2. run[p] \notin {"attached", "running", "over", "told"}
            BY <1>7, <1>8, <3>1, <3>3, <5>2, <6>1
          <6>3. run[p] \in {"left", "closed"}
            BY <3>1, <6>2 DEF HostTypes
          <6>4. runOf'[p].instance < inputs'[runOf'[p].session].instance
            BY <1>2, <1>4, <1>5, <3>3, <5>2, <6>1
          <6> QED
            BY <1>2, <3>1, <6>3, <6>4 DEF Past, SessionOf
        <5> QED
          BY <1>2, <5>1, <5>2
      <4>2. CASE Past(p)
        <5>1. runOf[p].instance < b.instance => runOf[p].instance < u.instance
          <6>1. runOf[p].instance \in Nat
            BY <3>1 DEF HostTypes
          <6> QED
            BY <1>4, <1>6, <6>1
        <5>2. inputs[runOf[p].session] = b /\ inputs'[runOf'[p].session] = u
          BY <1>1, <1>2, <1>5, <3>3
        <5> QED
          BY <1>2, <3>1, <4>2, <5>1, <5>2 DEF Past, SessionOf
      <4> QED
        BY <1>1, <3>1, <3>3, <4>1, <4>2
    <3> QED
      BY <3>2, <3>3
  <2>2. ASSUME r # NoRun, NEW p \in {active.run, k.latest} \ {NoRun, r}
        PROVE  /\ run'[p] # "unused"
               /\ p \in inputs'[runOf'[p].session].retired \/ Past(p)'
    <3>1. p = k.latest
      <4>1. SUFFICES ASSUME p = active.run PROVE p = k.latest
        BY <2>2
      <4>2. active # NoMarker
        BY <2>2, <4>1 DEF NoMarker
      <4>3. b.latest = active.run /\ b.instance = i
        BY <1>1, <4>2 DEF InputsOK
      <4> QED
        BY <1>2, <1>7, <4>1, <4>3
    <3>2. Sends(k.latest, c, i)
      BY <1>2, <2>2, <3>1
    <3>3. run[p] # "unused" /\ runOf[p].session = c
      BY <3>1, <3>2 DEF Sends
    <3>4. p \in u.retired
      BY <1>4, <2>2, <3>1
    <3> QED
      BY <1>2, <1>5, <3>3, <3>4
  <2>3. ended' = ended \/ (r # NoRun /\ ended' = ended \cup ({active.run,
            k.latest} \ {NoRun, r}))
    BY DEF Updates
  <2>4. ASSUME NEW p \in ended'
        PROVE  /\ run'[p] # "unused"
               /\ p \in inputs'[runOf'[p].session].retired \/ Past(p)'
    BY <2>1, <2>2, <2>3, <2>4
  <2> QED
    BY <2>4 DEF EndedOK, SessionOf
<1>12. NoRevival'
  BY DEF NoRevival, Updates
<1>13. ShownOK'
  <2>1. CASE r = NoRun
    <3>1. SUFFICES ASSUME shown = "run" PROVE ShownOK'
      BY <2>1 DEF Updates, ShownOK
    <3>2. b.instance = i /\ b.latest # NoRun /\ Outstanding(b.latest)
      BY <1>1, <3>1 DEF ShownOK
    <3>3. PICK p \in Runs : p = b.latest
      BY <3>2 DEF Known
    <3>4. k.latest = p
      BY <1>2, <1>7, <3>2, <3>3
    <3>5. Outstanding(p)'
      BY <1>2, <3>2, <3>3 DEF Outstanding
    <3>6. inputs'[current'].latest = p /\
              inputs'[current'].instance = instance'[current'] /\ p # NoRun
      BY <1>1, <1>2, <1>4, <1>5, <1>7, <2>1, <3>4
    <3> QED
      BY <1>2, <3>5, <3>6 DEF ShownOK, Outstanding, InDown
  <2>2. CASE r # NoRun
    <3>1. Outstanding(r)'
      BY <2>2 DEF Updates
    <3>2. inputs'[current'].latest = r /\
              inputs'[current'].instance = instance'[current']
      BY <1>1, <1>2, <1>4, <1>5, <2>2
    <3> QED
      BY <1>2, <2>2, <3>1, <3>2 DEF ShownOK, Outstanding, InDown
  <2> QED
    BY <2>1, <2>2
<1> QED
  BY <1>10, <1>11, <1>12, <1>13

\* A run is opened, or passed over.
LEMMA OpenIs ==
  ASSUME NEW k, NEW s, NEW i, NEW r, Open(k, s, i, r)
  PROVE  \/ /\ MayOpen(k, s, i, r)
            /\ at = "stable" /\ current = s /\ k.instance = i /\ k.gen = gen
            /\ r \notin k.retired
            /\ inputs' = [inputs EXCEPT ![s] = Supersede(k, r)]
            /\ ended' = ended \cup ({active.run, k.latest} \ {NoRun, r})
            /\ active'.run = r /\ shown' = "run"
         \/ /\ ~ MayOpen(k, s, i, r)
            /\ inputs' = [inputs EXCEPT ![s] = k]
            /\ UNCHANGED <<active, ended, shown>>
BY DEF Open, MayOpen

\* An update keeps what the client knows true.
LEMMA UpdatesKnowledge ==
  ASSUME TypeOK, RouteOK, HostOK, Knowledge, NEW k, NEW r, Updates(k, r)
  PROVE  Knowledge'
<1>1. /\ HostTypes /\ RouteTypes /\ PromptTypes
      /\ InputsOK /\ KnownOK /\ EndedOK /\ NoRevival /\ ShownOK
  BY KnowledgeParts
<1>2. InputsOK'
  BY <1>1, UpdatesInputs
<1>3. KnownOK' /\ EndedOK' /\ NoRevival' /\ ShownOK'
  BY <1>1, UpdatesKnown
<1>4. ReplyOK'
  BY DEF Updates, ReplyOK
<1> QED
  BY <1>2, <1>3, <1>4 DEF Knowledge

\* The start of a run is passed over: the run is known already, retired, or
\* not one of the instance that is open.
LEMMA PassedOverKnowledge ==
  ASSUME TypeOK, RouteOK, HostOK, Knowledge, NEW r \in Runs, NEW s \in Sessions,
         s = SessionOf(r), ~ MayOpen(inputs[s], s, runOf[r].instance, r),
         UNCHANGED <<run, runOf, instance, home, at, current, gen, gate, other,
                     inputs, active, ended, shown>>,
         gate = "free",
         \A p \in Runs : /\ InDown("started", p)' => InDown("started", p)
                         /\ InDown("started", p) => InDown("started", p)' \/ p = r
                         /\ InDown("done", p)' <=> InDown("done", p)
  PROVE  Knowledge'
<1>1. /\ HostTypes /\ RouteTypes /\ PromptTypes
      /\ InputsOK /\ KnownOK /\ EndedOK /\ NoRevival /\ ShownOK
  BY KnowledgeParts
<1>2. InputsOK'
  BY <1>1, InputsKept
<1>3. ReplyOK'
  BY DEF ReplyOK
<1>4. at = "stable" /\ s = current /\ run[r] \in {"running", "over", "told"} =>
        r = inputs[current].latest \/ r \in inputs[current].retired
  <2>1. SUFFICES ASSUME at = "stable", s = current, run[r] \in {"running",
                            "over", "told"}
                 PROVE  r = inputs[current].latest \/ r \in inputs[current].retired
    OBVIOUS
  <2>2. s \notin deleted
    BY <2>1 DEF RouteOK
  <2>3. home[current] = "open"
    BY <2>1 DEF HostOK
  <2>4. inputs[s].instance = instance[s]
    BY <1>1, <2>1, <2>3 DEF InputsOK
  <2>5. runOf[r].instance = instance[s]
    BY <2>1 DEF HostOK, SessionOf, Executes
  <2>6. inputs[s].gen = gen
    BY <1>1, <2>1 DEF InputsOK
  <2>7. r \in inputs[s].retired \/ (active.session = s /\ active.run = r)
    BY <2>1, <2>2, <2>4, <2>5, <2>6 DEF MayOpen
  <2>8. active.session = s => active # NoMarker
    BY InteractionAssumption DEF NoMarker
  <2> QED
    BY <1>1, <2>1, <2>7, <2>8 DEF InputsOK
<1>5. KnownOK'
  <2>1. ASSUME NEW p \in Runs, at = "stable", runOf[p].session = current,
               run[p] \in {"running", "over", "told"}, ~InDown("started", p)'
        PROVE  p = inputs[current].latest \/ p \in inputs[current].retired
    <3>1. CASE p = r
      BY <1>4, <2>1, <3>1 DEF SessionOf
    <3>2. CASE p # r
      BY <1>1, <2>1, <3>2 DEF KnownOK, SessionOf
    <3> QED
      BY <3>1, <3>2
  <2>2. ASSUME NEW p \in Runs, at = "stable", runOf[p].session = current,
               run[p] = "told", ~InDown("done", p)'
        PROVE  p \in inputs[current].retired
    BY <1>1, <2>2 DEF KnownOK, SessionOf
  <2> QED
    BY <2>1, <2>2 DEF KnownOK, SessionOf
<1>6. EndedOK'
  BY <1>1 DEF EndedOK, SessionOf, Past, PromptTypes
<1>7. NoRevival'
  BY <1>1 DEF NoRevival
<1>8. ShownOK'
  <2>1. SUFFICES ASSUME shown = "run" PROVE ShownOK'
    BY DEF ShownOK
  <2>2. /\ at = "stable" /\ current \in Sessions /\
               inputs[current].instance = instance[current]
        /\ inputs[current].latest # NoRun /\ Outstanding(inputs[current].latest)
    BY <1>1, <2>1 DEF ShownOK, RouteOK
  <2>3. PICK p \in Runs : p = inputs[current].latest
    BY <1>1, <2>2 DEF PromptTypes, Known
  <2>4. Outstanding(p)'
    BY <2>2, <2>3 DEF Outstanding
  <2>5. inputs'[current'].latest = p /\ p # NoRun
    BY <2>2, <2>3
  <2> QED
    BY <2>2, <2>4, <2>5 DEF ShownOK, Outstanding, InDown
<1> QED
  BY <1>2, <1>3, <1>5, <1>6, <1>7, <1>8 DEF Knowledge

\* So does the start of a run.
LEMMA PumpStartedKnowledge ==
  ASSUME TypeOK, RouteOK, HostOK, DownOK, Knowledge, PumpStarted
  PROVE  Knowledge'
<1>1. /\ HostTypes /\ LinkTypes /\ RouteTypes /\ PromptTypes
      /\ InputsOK /\ KnownOK /\ EndedOK /\ NoRevival /\ ShownOK
  BY KnowledgeParts
<1>2. /\ down # <<>> /\ down' = Tail(down) /\ gate = "free" /\ gate' = "free"
      /\ UNCHANGED <<home, instance, run, runOf, at, current, gen, gate, other,
             reply>>
  BY DEF PumpStarted, Pump, hostVars, routeVars, gateVars
<1>3. PICK r \in Runs, s \in Sessions, i \in Nat :
           /\ Head(down) = Message("started", r)
           /\ run[r] # "unused" /\ s = SessionOf(r) /\ i = runOf[r].instance
           /\ Open(inputs[s], s, i, r)
  BY <1>1, PumpStartedIs
<1>4. ASSUME NEW p \in Runs
      PROVE  /\ InDown("started", p)' => InDown("started", p)
             /\ InDown("started", p) => InDown("started", p)' \/ p = r
             /\ InDown("done", p)' <=> InDown("done", p)
  <2>1. Message("done", p) # Message("started", r) /\ (p # r =>
            Message("started", p) # Message("started", r))
    BY RunMessage
  <2> QED
    BY <1>1, <1>2, <1>3, <2>1, InDownMoves
<1>5. InDown("started", r)
  BY <1>1, <1>2, <1>3, InDownHead
<1>6. CASE ~ MayOpen(inputs[s], s, i, r)
  <2>1. inputs' = inputs /\ UNCHANGED <<active, ended, shown>>
    BY <1>1, <1>3, <1>6, OpenIs DEF PromptTypes
  <2> QED
    BY <1>2, <1>3, <1>4, <1>6, <2>1, PassedOverKnowledge
<1>7. CASE MayOpen(inputs[s], s, i, r)
  <2>1. PICK k \in Known : k = inputs[s]
    BY <1>1 DEF PromptTypes
  <2>2. /\ at = "stable" /\ current = s /\ k.instance = i /\ k.gen = gen
        /\ r \notin k.retired
        /\ inputs' = [inputs EXCEPT ![s] = Supersede(k, r)]
        /\ ended' = ended \cup ({active.run, k.latest} \ {NoRun, r})
        /\ active'.run = r /\ shown' = "run"
    BY <1>3, <1>7, <2>1, OpenIs
  <2>3. home[current] = "open"
    BY <2>2 DEF HostOK
  <2>4. k.instance = instance[s] /\ i = instance[s]
    BY <1>1, <1>2, <2>1, <2>2, <2>3 DEF InputsOK
  <2>5. Rebinds(k)
    <3>1. /\ \A p \in inputs[s].retired : Sends(p, s, inputs[s].instance)
          /\ inputs[s].latest # NoRun => Sends(inputs[s].latest, s,
                 inputs[s].instance)
      BY <1>1 DEF InputsOK
    <3> QED
      BY <2>1, <2>2, <2>4, <3>1 DEF Rebinds
  <2>6. Sends(r, current, instance[current])
    <3>1. runOf[r] = [session |-> s, instance |-> i]
      BY <1>1, <1>3 DEF HostTypes, SessionOf
    <3> QED
      BY <1>3, <2>2, <2>4, <3>1 DEF Sends
  <2>7. r \notin ended
    <3>1. SUFFICES ASSUME r \in ended PROVE FALSE
      OBVIOUS
    <3>2. r \in inputs[s].retired \/ Past(r)
      BY <1>1, <1>3, <3>1 DEF EndedOK
    <3>3. runOf[r].instance < inputs[s].instance
      BY <1>3, <1>5, <2>1, <2>2, <3>2 DEF Past
    <3> QED
      BY <1>3, <2>1, <2>2, <3>3
  <2>8. Outstanding(r)'
    <3>1. Outstanding(r)
      BY <1>5, StartedIsOutstanding
    <3> QED
      BY <1>2, <1>4, <3>1 DEF Outstanding
  <2>9. r # NoRun
    BY DEF Runs, NoRun
  <2>10. inputs' = [inputs EXCEPT ![current] = Updated(k, r)]
    BY <2>2, <2>9 DEF Updated
  <2>11. Updates(k, r)
    BY <1>2, <1>4, <2>2, <2>5, <2>6, <2>7, <2>8, <2>9, <2>10 DEF Updates
  <2> QED
    BY <2>11, UpdatesKnowledge
<1> QED
  BY <1>6, <1>7

\* So does a snapshot: it names no run whose end was seen.
LEMMA AppliedKnowledge ==
  ASSUME TypeOK, RouteOK, HostOK, Knowledge, SnapshotApplied
  PROVE  Knowledge'
<1>1. /\ HostTypes /\ LinkTypes /\ RouteTypes /\ PromptTypes /\ GateTypes
      /\ InputsOK /\ ReplyOK /\ KnownOK /\ EndedOK /\ NoRevival /\ ShownOK
  BY KnowledgeParts
<1>2. /\ gate = "apply" /\ gate' = "free" /\ at = "stable" /\ current \in Sessions
      /\ UNCHANGED <<home, instance, run, runOf, down, at, current, gen, other>>
      /\ reply.instance = instance[current]
  BY <1>1 DEF SnapshotApplied, RouteOK, hostVars, routeVars, ReplyOK
<1>3. PICK k : k = Bind(inputs[current], reply.instance)
  OBVIOUS
<1>4. /\ k \in Known /\ Rebinds(k)
  BY <1>1, <1>2, <1>3, BindRebinds, InputTypes DEF HostTypes
<1>5. \A p \in Runs : /\ InDown("started", p)' <=> InDown("started", p)
                      /\ InDown("done", p)' <=> InDown("done", p)
  BY <1>2 DEF InDown
<1>6. PICK r \in Runs \cup {NoRun} : r = reply.run
  BY <1>1 DEF GateTypes
<1>7. ASSUME inputs' = [inputs EXCEPT ![current] = k], UNCHANGED <<active,
                 ended, shown>>
      PROVE  Knowledge'
  <2>1. inputs' = [inputs EXCEPT ![current] = Updated(k, NoRun)]
    BY <1>7 DEF Updated
  <2>2. Updates(k, NoRun)
    BY <1>2, <1>4, <1>5, <1>7, <2>1 DEF Updates
  <2> QED
    BY <2>2, UpdatesKnowledge
<1>8. CASE r = NoRun
  <2>1. inputs' = [inputs EXCEPT ![current] = k] /\
            UNCHANGED <<active, ended, shown>>
    BY <1>3, <1>6, <1>8 DEF SnapshotApplied
  <2> QED
    BY <1>7, <2>1
<1>9. CASE r # NoRun
  <2>1. Open(k, current, reply.instance, r)
    BY <1>3, <1>6, <1>9 DEF SnapshotApplied
  <2>2. CASE ~ MayOpen(k, current, reply.instance, r)
    <3>1. inputs' = [inputs EXCEPT ![current] = k] /\
              UNCHANGED <<active, ended, shown>>
      BY <2>1, <2>2, OpenIs
    <3> QED
      BY <1>7, <3>1
  <2>3. CASE MayOpen(k, current, reply.instance, r)
    <3>1. /\ r \notin k.retired
          /\ inputs' = [inputs EXCEPT ![current] = Supersede(k, r)]
          /\ ended' = ended \cup ({active.run, k.latest} \ {NoRun, r})
          /\ active'.run = r /\ shown' = "run"
      BY <2>1, <2>3, OpenIs
    <3>2. /\ Sends(r, current, instance[current])
          /\ r \in inputs[current].retired \/ (r \notin ended /\ Outstanding(r))
      BY <1>1, <1>2, <1>6, <1>9 DEF ReplyOK
    <3>3. r \notin inputs[current].retired
      <4>1. SUFFICES ASSUME r \in inputs[current].retired PROVE FALSE
        OBVIOUS
      <4>2. Sends(r, current, inputs[current].instance)
        BY <1>1, <1>2, <4>1 DEF InputsOK
      <4>3. inputs[current].instance = instance[current]
        BY <3>2, <4>2 DEF Sends
      <4>4. ~(inputs[current].instance < instance[current])
        <5>1. instance[current] \in Nat
          BY <1>1, <1>2 DEF HostTypes
        <5> QED
          BY <4>3, <5>1
      <4> QED
        BY <1>4, <3>1, <4>1, <4>4 DEF Rebinds
    <3>4. r \notin ended /\ Outstanding(r)'
      <4>1. r \in Runs
        BY <1>9
      <4> QED
        BY <1>2, <1>5, <3>2, <3>3, <4>1 DEF Outstanding
    <3>5. inputs' = [inputs EXCEPT ![current] = Updated(k, r)]
      BY <1>9, <3>1 DEF Updated
    <3>6. Updates(k, r)
      BY <1>2, <1>4, <1>5, <1>9, <3>1, <3>2, <3>4, <3>5 DEF Updates
    <3> QED
      BY <3>6, UpdatesKnowledge
  <2> QED
    BY <2>2, <2>3
<1> QED
  BY <1>8, <1>9

\* Every step does.
LEMMA KnowledgeStep ==
  ASSUME TypeOK, RouteOK, HostOK, SentOK, DownOK, Knowledge, [Next]_vars
  PROVE  Knowledge'
<1>1. CASE UNCHANGED vars
  <2>1. /\ UNCHANGED <<hostVars, down, routeVars, promptVars, gateVars>>
    BY <1>1 DEF vars, clientVars
  <2> QED
    BY <2>1 DEF hostVars, routeVars, promptVars, gateVars, Knowledge,
       InputsOK, ReplyOK,
                KnownOK, EndedOK, NoRevival, ShownOK, Sends, SessionOf, Past,
                Outstanding, InDown
<1> QED
  BY <1>1, KnowledgeHostStep, PumpStartedKnowledge, PumpDoneKnowledge,
     QuietKnowledge,
     OperationKnowledge, BoundaryKnowledge, ReadKnowledge, AppliedKnowledge,
     OpenedKnowledge
     DEF Next, HostMoves

\* The invariant holds in the initial states.
LEMMA InvInit == Init => Inv
<1> SUFFICES ASSUME Init PROVE Inv
  OBVIOUS
<1>1. DOMAIN down = {} /\ DOMAIN notices = {} /\ pending = {}
  BY DEF Init, pending
<1>2. TypeOK
  <2>1. owner = <<>> /\ notices = <<>> /\ up = {}
    BY DEF Init
  <2>2. owner \in [pending -> Marks]
    BY <1>1, <2>1
  <2>3. ClaimTypes
    BY <1>1, <2>1, <2>2 DEF ClaimTypes
  <2>4. HostTypes
    BY DEF Init, HostTypes, NoRun
  <2>5. LinkTypes /\ RouteTypes /\ UiTypes
    BY DEF Init, LinkTypes, RouteTypes, UiTypes
  <2>6. PromptTypes
    BY DEF Init, PromptTypes, Known, Unbound, NoRun
  <2>7. GateTypes
    BY InteractionAssumption DEF Init, GateTypes, NoReply, NoRun
  <2> QED
    BY <2>3, <2>4, <2>5, <2>6, <2>7, TypeParts
<1>3. RouteOK /\ OwnedByOpenPrompt /\ HostOK /\ GateWaitsForCancelled
  BY <1>1 DEF Init, RouteOK, OwnedByOpenPrompt, HostOK, GateWaitsForCancelled,
     Executes
<1>4. AskersOK /\ SentOK /\ OrderOK
  BY <1>1 DEF Init, AskersOK, SentOK, OrderOK, NoAsk
<1>5. EndsOK /\ RequestHasOneTaker /\ DownOK
  BY <1>1 DEF Init, EndsOK, RequestHasOneTaker, DownOK, InDown, InNotices
<1>6. InputsOK /\ ReplyOK /\ NoRevival
  BY DEF Init, InputsOK, ReplyOK, NoRevival, Unbound
<1>7. KnownOK /\ EndedOK /\ ShownOK
  BY DEF Init, KnownOK, EndedOK, ShownOK
<1> QED
  BY <1>2, <1>3, <1>4, <1>5, <1>6, <1>7 DEF Inv

\* Every step keeps the invariant.
LEMMA InvStep == Inv /\ [Next]_vars => Inv'
<1> SUFFICES ASSUME Inv, [Next]_vars PROVE Inv'
  OBVIOUS
<1>1. /\ TypeOK /\ RouteOK /\ OwnedByOpenPrompt /\ HostOK /\ GateWaitsForCancelled
      /\ AskersOK /\ SentOK /\ OrderOK /\ EndsOK /\ RequestHasOneTaker /\ DownOK
      /\ ReplyOK /\ Knowledge
  BY DEF Inv, Knowledge
<1>2. TypeOK'
  BY <1>1, TypeStep
<1>3. RouteOK' /\ OwnedByOpenPrompt'
  BY <1>1, RouteStep
<1>4. HostOK' /\ GateWaitsForCancelled'
  BY <1>1, HostStep
<1>5. AskersOK' /\ SentOK' /\ OrderOK' /\ EndsOK' /\ RequestHasOneTaker'
  BY <1>1, AskersStep, SentStep, OrderStep, EndsStep, TakerStep
<1>6. DownOK' /\ Knowledge'
  BY <1>1, DownStep, KnowledgeStep
<1> QED
  BY <1>2, <1>3, <1>4, <1>5, <1>6 DEF Inv, Knowledge

\* The invariant holds, for every set of sessions and every number of runs,
\* requests and disturbances.
THEOREM InvHolds == Spec => []Inv
BY InvInit, InvStep, PTL DEF Spec

\* Every variable keeps its type: what the notifications, the snapshots and
\* the owners name are sessions, runs and requests of the host. (the handlers
\* of acp_client and broker)
THEOREM InteractionTypeOK == Spec => []TypeOK
<1>1. Inv => TypeOK
  BY DEF Inv
<1> QED
  BY <1>1, InvHolds, PTL

\* A request is settled once and always has somebody to settle it, whatever
\* the pump, the user, stops and session boundaries do meanwhile.
\* (register_reverse, claim and drain_pending)
THEOREM RequestIsSettledOnce == Spec => []RequestHasOneTaker
<1>1. Inv => RequestHasOneTaker
  BY DEF Inv
<1> QED
  BY <1>1, InvHolds, PTL

\* What is pending belongs to the open prompt of the session on screen.
\* (open_user_input_run, close_prompt_exact and begin_transition)
THEOREM OwnersAreCurrent == Spec => []OwnedByOpenPrompt
<1>1. Inv => OwnedByOpenPrompt
  BY DEF Inv
<1> QED
  BY <1>1, InvHolds, PTL

\* A run the client has stopped, replaced or seen the end of is not opened
\* again by a late start or by a snapshot. (open_user_input_run)
THEOREM RetiredStaysRetired == Spec => []NoRevival
<1>1. Inv => NoRevival
  BY DEF Inv
<1> QED
  BY <1>1, InvHolds, PTL

\* Whoever holds the gate while a session closes waits for cancelled runs
\* only. (pre_close_session)
THEOREM BoundaryWaitsForCancelled == Spec => []GateWaitsForCancelled
<1>1. Inv => GateWaitsForCancelled
  BY DEF Inv
<1> QED
  BY <1>1, InvHolds, PTL

\* The run that is shown is the one whose end is outstanding.
LEMMA LoadingEnds == Inv => LoadingHasEnd
<1> SUFFICES ASSUME Inv, shown = "run"
             PROVE  \E r \in Runs :
                      /\ SessionOf(r) = current
                      /\ r \in Executing(current) \/ run[r] = "left" \/
                             InDown("done", r)
  BY DEF LoadingHasEnd
<1>1. /\ PromptTypes /\ RouteOK /\ InputsOK /\ ShownOK
  BY TypeParts DEF Inv
<1>2. /\ current \in Sessions /\ inputs[current].latest # NoRun
      /\ Outstanding(inputs[current].latest)
  BY <1>1 DEF ShownOK, RouteOK
<1>3. PICK r \in Runs : r = inputs[current].latest
  BY <1>1, <1>2 DEF PromptTypes, Known
<1>4. Sends(inputs[current].latest, current, inputs[current].instance)
  BY <1>1, <1>2 DEF InputsOK
<1>5. SessionOf(r) = current
  BY <1>3, <1>4 DEF Sends, SessionOf
<1>6. Outstanding(r)
  BY <1>2, <1>3
<1>7. r \in Executing(current) \/ run[r] = "left" \/ InDown("done", r)
  BY <1>5, <1>6 DEF Outstanding, Executing
<1> QED
  BY <1>5, <1>7

\* When the interface shows a run, the end of a run of that session is still
\* to come. (should_forward_prompt_terminal)
THEOREM LoadingIsEnded == Spec => []LoadingHasEnd
BY LoadingEnds, InvHolds, PTL
=============================================================================

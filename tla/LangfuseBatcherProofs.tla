------------------------ MODULE LangfuseBatcherProofs ------------------------
(***************************************************************************)
(* For every number of calls, every size of the queue and every set of     *)
(* policies: the custody of the permits, what a flush and a shutdown speak *)
(* for when they answer, that no failure is confirmed unseen, and the      *)
(* order of the events. A panic of the worker, a cancelled call and a      *)
(* closing may come at any point.                                          *)
(*                                                                         *)
(* The parts: facts about sequences; the invariant; what each action does, *)
(* once as an equation (the Effect lemmas) and once as sets; one lemma per *)
(* conjunct of the invariant (the Step lemmas), with a step per action;    *)
(* the theorems.                                                           *)
(***************************************************************************)
EXTENDS LangfuseBatcher, SequenceFilterProofs

\* Appending adds one element, behind the others.
LEMMA AppendFacts ==
  ASSUME NEW T, NEW s \in Seq(T), NEW e \in T
  PROVE  /\ Append(s, e) \in Seq(T) /\ Len(Append(s, e)) = Len(s) + 1
         /\ \A i \in 1..Len(s) : Append(s, e)[i] = s[i]
         /\ Append(s, e)[Len(s) + 1] = e
         /\ ToSet(Append(s, e)) = ToSet(s) \cup {e}
<1>1. /\ Append(s, e) \in Seq(T) /\ Len(Append(s, e)) = Len(s) + 1
      /\ \A i \in 1..Len(s) : Append(s, e)[i] = s[i]
      /\ Append(s, e)[Len(s) + 1] = e
      /\ DOMAIN s = 1..Len(s) /\ Len(s) \in Nat
      /\ DOMAIN Append(s, e) = 1..(Len(s) + 1)
  OBVIOUS
<1>2. ToSet(Append(s, e)) = ToSet(s) \cup {e}
  BY <1>1 DEF ToSet
<1> QED
  BY <1>1, <1>2

\* The rest of a sequence keeps its elements, one place earlier.
LEMMA TailFacts ==
  ASSUME NEW T, NEW s \in Seq(T), s # <<>>
  PROVE  /\ Tail(s) \in Seq(T) /\ Len(s) \in Nat \ {0}
         /\ Len(Tail(s)) = Len(s) - 1
         /\ \A i \in 1..Len(Tail(s)) : Tail(s)[i] = s[i + 1] /\ i + 1 \in 1..Len(s)
         /\ Head(s) \in T /\ Head(s) = s[1]
         /\ ToSet(s) = ToSet(Tail(s)) \cup {Head(s)}
<1>1. /\ Tail(s) \in Seq(T) /\ Len(s) \in Nat \ {0}
      /\ Len(Tail(s)) = Len(s) - 1
      /\ \A i \in 1..Len(Tail(s)) : Tail(s)[i] = s[i + 1] /\ i + 1 \in 1..Len(s)
      /\ Head(s) \in T /\ Head(s) = s[1]
      /\ DOMAIN s = 1..Len(s) /\ DOMAIN Tail(s) = 1..(Len(s) - 1)
  OBVIOUS
<1>3. ToSet(s) \subseteq ToSet(Tail(s)) \cup {Head(s)}
  <2> SUFFICES ASSUME NEW i \in 1..Len(s)
               PROVE  s[i] \in ToSet(Tail(s)) \cup {Head(s)}
    BY <1>1 DEF ToSet
  <2>1. CASE i = 1
    BY <1>1, <2>1
  <2>2. CASE i # 1
    <3>1. i - 1 \in DOMAIN Tail(s) /\ Tail(s)[i - 1] = s[i]
      BY <1>1, <2>2
    <3> QED
      BY <3>1 DEF ToSet
  <2> QED
    BY <2>1, <2>2
<1>4. ToSet(Tail(s)) \cup {Head(s)} \subseteq ToSet(s)
  BY <1>1 DEF ToSet
<1> QED
  BY <1>1, <1>3, <1>4

\* A concatenation has the elements of both parts.
LEMMA ConcatSet ==
  ASSUME NEW T, NEW s \in Seq(T), NEW t \in Seq(T)
  PROVE  s \o t \in Seq(T) /\ ToSet(s \o t) = ToSet(s) \cup ToSet(t)
<1>1. /\ s \o t \in Seq(T) /\ Len(s) \in Nat /\ Len(t) \in Nat
      /\ DOMAIN s = 1..Len(s) /\ DOMAIN t = 1..Len(t)
      /\ DOMAIN (s \o t) = 1..(Len(s) + Len(t))
      /\ \A i \in 1..(Len(s) + Len(t)) :
            (s \o t)[i] = IF i <= Len(s) THEN s[i] ELSE t[i - Len(s)]
  BY ConcatProperties, LenProperties
<1>2. ASSUME NEW i \in DOMAIN (s \o t)
      PROVE  (s \o t)[i] \in ToSet(s) \cup ToSet(t)
  <2>1. CASE i <= Len(s)
    <3>1. i \in DOMAIN s /\ (s \o t)[i] = s[i]
      BY <1>1, <1>2, <2>1
    <3> QED
      BY <3>1 DEF ToSet
  <2>2. CASE i > Len(s)
    <3>1. i - Len(s) \in DOMAIN t /\ (s \o t)[i] = t[i - Len(s)]
      BY <1>1, <1>2, <2>2
    <3> QED
      BY <3>1 DEF ToSet
  <2> QED
    BY <1>1, <2>1, <2>2
<1>3. ASSUME NEW i \in DOMAIN s
      PROVE  s[i] \in ToSet(s \o t)
  <2>1. i \in DOMAIN (s \o t) /\ (s \o t)[i] = s[i]
    BY <1>1, <1>3
  <2> QED
    BY <2>1 DEF ToSet
<1>4. ASSUME NEW i \in DOMAIN t
      PROVE  t[i] \in ToSet(s \o t)
  <2>1. /\ i + Len(s) \in DOMAIN (s \o t) /\ ~(i + Len(s) <= Len(s))
        /\ (i + Len(s)) - Len(s) = i
    BY <1>1, <1>4
  <2>2. (s \o t)[i + Len(s)] = t[i]
    BY <1>1, <2>1
  <2> QED
    BY <2>1, <2>2 DEF ToSet
<1>5. ToSet(s \o t) = ToSet(s) \cup ToSet(t)
  BY <1>2, <1>3, <1>4 DEF ToSet
<1> QED
  BY <1>1, <1>5

\* Removing a place moves the elements behind it up by one.
LEMMA RemoveAtFacts ==
  ASSUME NEW T, NEW s \in Seq(T), NEW p \in 1..Len(s)
  PROVE  /\ RemoveAt(s, p) \in Seq(T)
         /\ Len(RemoveAt(s, p)) = Len(s) - 1
         /\ \A i \in 1..(Len(s) - 1) : RemoveAt(s, p)[i] = IF i < p THEN s[i] ELSE s[i + 1]
<1>1. Len(s) \in Nat /\ p \in Nat /\ p >= 1 /\ p <= Len(s)
  OBVIOUS
<1> DEFINE a == SubSeq(s, 1, p - 1)
           b == SubSeq(s, p + 1, Len(s))
<1>2. /\ a \in Seq(T) /\ Len(a) = p - 1
      /\ \A i \in 1..(p - 1) : a[i] = s[i]
  BY <1>1
<1>3. /\ b \in Seq(T) /\ Len(b) = Len(s) - p
      /\ \A i \in 1..(Len(s) - p) : b[i] = s[p + i]
  BY <1>1
<1>4. RemoveAt(s, p) = a \o b
  BY DEF RemoveAt
<1> HIDE DEF a, b
<1>5. /\ a \o b \in Seq(T) /\ Len(a \o b) = Len(s) - 1
      /\ \A i \in 1..(Len(s) - 1) : (a \o b)[i] = IF i <= p - 1 THEN a[i] ELSE b[i - (p - 1)]
  <2>1. /\ a \o b \in Seq(T) /\ Len(a \o b) = (p - 1) + (Len(s) - p)
        /\ \A i \in 1..((p - 1) + (Len(s) - p)) :
              (a \o b)[i] = IF i <= p - 1 THEN a[i] ELSE b[i - (p - 1)]
    <3>1. /\ a \o b \in Seq(T) /\ Len(a \o b) = Len(a) + Len(b)
          /\ \A i \in 1..(Len(a) + Len(b)) :
                (a \o b)[i] = IF i <= Len(a) THEN a[i] ELSE b[i - Len(a)]
      BY <1>2, <1>3, ConcatProperties
    <3> QED
      BY <1>2, <1>3, <3>1
  <2>2. (p - 1) + (Len(s) - p) = Len(s) - 1
    BY <1>1
  <2> QED
    BY <2>1, <2>2
<1>6. ASSUME NEW i \in 1..(Len(s) - 1)
      PROVE  (a \o b)[i] = IF i < p THEN s[i] ELSE s[i + 1]
  <2>1. CASE i < p
    BY <1>1, <1>2, <1>5, <2>1
  <2>2. CASE i >= p
    <3>1. i - (p - 1) \in 1..(Len(s) - p) /\ p + (i - (p - 1)) = i + 1
      BY <1>1, <2>2
    <3> QED
      BY <1>1, <1>3, <1>5, <2>2, <3>1
  <2>3. i < p \/ i >= p
    BY <1>1
  <2> QED
    BY <2>1, <2>2, <2>3, <1>1
<1> QED
  BY <1>4, <1>5, <1>6

\* The largest member of a bounded set of numbers.
LEMMA MaxFacts ==
  ASSUME NEW n \in Nat, NEW S \in SUBSET (0..n), S # {}
  PROVE  Max(S) \in S /\ \A m \in S : m <= Max(S)
<1> DEFINE D == {n - m : m \in S}
<1>1. D \in SUBSET Nat /\ D # {}
  <2>1. \A m \in S : m \in 0..n
    OBVIOUS
  <2>2. \A m \in S : n - m \in Nat
    BY <2>1
  <2> QED
    BY <2>2
<1> HIDE DEF D
<1>2. PICK d \in D : \A e \in D : d <= e
  BY <1>1, SmallestNat
<1>3. PICK m \in S : d = n - m
  BY <1>2 DEF D
<1>4. \A x \in S : n - m <= n - x
  BY <1>2, <1>3 DEF D
<1>5. \A x \in S : m >= x
  <2>1. \A x \in S : x \in Int /\ n - m <= n - x
    BY <1>4
  <2> QED
    BY <2>1
<1> QED
  BY <1>3, <1>5 DEF Max

Held(f) == {c \in Calls : f[c] = "reserved"}

\* The calls that hold a permit can be counted.
LEMMA HeldFinite ==
  ASSUME NEW f
  PROVE  IsFiniteSet(Held(f)) /\ Cardinality(Held(f)) \in Nat
<1>1. IsFiniteSet(Calls)
  BY BatcherAssumption, FS_Interval DEF Calls
<1> QED
  BY <1>1, FS_Subset, FS_CardinalityType DEF Held

\* One more call holds a permit.
LEMMA HeldMore ==
  ASSUME NEW f, NEW g, NEW c \in Calls, f[c] # "reserved", g[c] = "reserved",
         \A d \in Calls \ {c} : g[d] = "reserved" <=> f[d] = "reserved"
  PROVE  Cardinality(Held(g)) = Cardinality(Held(f)) + 1
<1>1. Held(g) = Held(f) \cup {c} /\ c \notin Held(f)
  BY DEF Held
<1> QED
  BY <1>1, HeldFinite, FS_AddElement

\* The same calls hold a permit.
LEMMA HeldSame ==
  ASSUME NEW f, NEW g, \A d \in Calls : g[d] = "reserved" <=> f[d] = "reserved"
  PROVE  Cardinality(Held(g)) = Cardinality(Held(f))
<1>1. Held(g) = Held(f)
  BY DEF Held
<1> QED
  BY <1>1

\* What a call was told lies within what the worker recorded, and begins where
\* somebody has confirmed.
SnapshotsOK ==
  \A c \in Calls : stage[c] = "acked" =>
    /\ snap[c].failures <= snap[c].through
    /\ snap[c].through <= Len(failures)
    /\ snap[c].through - snap[c].failures <= confirmed

\* The waiting calls wait once, and for an open queue.
WaitersOK ==
  /\ \A i, j \in 1..Len(waiters) : waiters[i] = waiters[j] => i = j
  /\ \A i \in 1..Len(waiters) : stage[waiters[i]] = "waiting"
  /\ ~accepting => waiters = <<>>

Events(S) == {c \in S : op[c] # "flush"}

\* Every place where a call that has queued its command can be found.
Placed == ToSet(accepted) \cup replaced \cup ToSet(commands) \cup ToSet(buffer)
            \cup ToSet(batch) \cup ToSet(sent) \cup {ackTo}

\* A call that has not queued its command is in none of them.
FreshOK ==
  \A c \in Calls : stage[c] \in {"unused", "waiting", "reserved"} =>
    c \notin Placed /\ owed[c] = {}

\* What the stage of a call says of it, and of the worker.
CallsOK ==
  \A c \in Calls :
    /\ stage[c] # "done" => result[c] = "none"
    /\ stage[c] \in {"awaiting", "acked", "lost"} => op[c] = "flush"
    /\ stage[c] \in {"waiting", "reserved"} => op[c] \in {"add", "flush"}
    /\ stage[c] = "lost" => worker = "dead"
    /\ op[c] = "flush" /\ stage[c] = "joining" =>
         owed[c] = {} \/ worker = "dead"
    /\ op[c] = "shutdown" /\ Answered(c) => worker = "finished"
    /\ op[c] # "flush" => owed[c] = {}

WorkerOK ==
  /\ worker # "select" => ~accepting
  /\ worker \in {"last", "finished", "dead"} => commands = <<>> /\ buffer = <<>>
  /\ worker \in {"finished", "dead"} => batch = <<>>

\* A call queues one command, and only once.
OnceEach == \A i, j \in 1..Len(commands) : commands[i] = commands[j] => i = j

\* Where the admitted events are that were not replaced: in one place each.
Partition ==
  /\ worker # "dead" =>
       ToSet(accepted) \ replaced =
         ToSet(sent) \cup ToSet(batch) \cup ToSet(buffer)
           \cup Events(ToSet(commands))
  /\ ToSet(sent) \cap ToSet(batch) = {} /\ ToSet(sent) \cap ToSet(buffer) = {}
  /\ ToSet(sent) \cap ToSet(commands) = {}
  /\ ToSet(batch) \cap ToSet(buffer) = {} /\ ToSet(batch) \cap ToSet(commands) = {}
  /\ ToSet(buffer) \cap ToSet(commands) = {}

\* The events queued ahead of place n.
Ahead(n) == Events({commands[i] : i \in 1..(n - 1)})

\* What has left the queue.
Taken == ToSet(sent) \cup ToSet(batch) \cup ToSet(buffer)

\* What a queued flush owes has left the queue or is ahead of it.
QueueOwed ==
  \A n \in 1..Len(commands) : op[commands[n]] = "flush" =>
    owed[commands[n]] \subseteq Taken \cup Ahead(n)

\* A flush is answered for the batch that holds the rest of what it owes.
AckOwed == ackTo # NoCall => owed[ackTo] \subseteq ToSet(sent) \cup ToSet(batch)

Reported(c, seen) ==
  /\ owed[c] \subseteq ToSet(sent)
  /\ \A k \in DOMAIN failures : failures[k] \cap owed[c] # {} => k \in seen

\* An acknowledgement covers what its flush owes.
AckedOK ==
  \A c \in Calls : stage[c] = "acked" => Reported(c, 1..snap[c].through)

\* Ok from a shutdown means that no batch has failed.
OkMeansNone ==
  \A c \in Calls : op[c] = "shutdown" /\ result[c] = "ok" => failures = <<>>

Inv ==
  /\ TypeOK
  /\ SnapshotsOK
  /\ WaitersOK
  /\ PermitsKept
  /\ NothingConfirmedUnseen
  /\ FreshOK
  /\ CallsOK
  /\ WorkerOK
  /\ OnceEach
  /\ Partition
  /\ QueueOwed
  /\ AckOwed
  /\ AckedOK
  /\ FlushCovers
  /\ OkMeansNone

\* The command DropOldest takes out is an event behind every flush.
LEMMA OldestFacts ==
  ASSUME TypeOK, Oldest <= Len(commands)
  PROVE  /\ Oldest \in 1..Len(commands)
         /\ \A i \in 1..Len(commands) : op[commands[i]] = "flush" => i < Oldest
<1> DEFINE F == {i \in DOMAIN commands : op[commands[i]] = "flush"}
<1>1. Len(commands) \in Nat /\ DOMAIN commands = 1..Len(commands)
  BY DEF TypeOK
<1>2. {0} \cup F \in SUBSET (0..Len(commands)) /\ {0} \cup F # {}
  BY <1>1
<1>3. LastFlush \in {0} \cup F /\ \A i \in F : i <= LastFlush
  <2> HIDE DEF F
  <2>1. LastFlush = Max({0} \cup F)
    BY DEF LastFlush, F
  <2> QED
    BY <1>1, <1>2, <2>1, MaxFacts
<1> QED
  BY <1>1, <1>2, <1>3 DEF Oldest

\* A call of try_add: refused, admitted, or admitted for the oldest event.
LEMMA TryAddEffect ==
  ASSUME TypeOK, NEW c \in Calls, TryAdd(c)
  PROVE  /\ stage[c] = "unused" /\ stage' = [stage EXCEPT ![c] = "done"]
         /\ op' = [op EXCEPT ![c] = "tryAdd"]
         /\ UNCHANGED <<policy, accepting, waiters, worker, buffer, batch, ackTo,
                        failures, confirmed, owned, snap, sent, owed, told>>
         /\ \/ /\ UNCHANGED <<slots, commands, accepted, replaced>>
               /\ \/ result' = [result EXCEPT ![c] = "closed"]
                  \/ result' = [result EXCEPT ![c] = "full"]
            \/ /\ accepting /\ slots > 0 /\ slots' = slots - 1
               /\ commands' = Append(commands, c)
               /\ accepted' = Append(accepted, c) /\ replaced' = replaced
               /\ result' = [result EXCEPT ![c] = "ok"]
            \/ /\ accepting /\ Oldest <= Len(commands)
               /\ slots = 0 /\ slots' = slots
               /\ commands' = Append(RemoveAt(commands, Oldest), c)
               /\ accepted' = Append(accepted, c)
               /\ replaced' = replaced \cup {commands[Oldest]}
               /\ result' = [result EXCEPT ![c] = "ok"]
<1>1. stage[c] = "unused" /\ op' = [op EXCEPT ![c] = "tryAdd"]
  BY DEF TryAdd, Start
<1>2. op'[c] = "tryAdd"
  BY <1>1 DEF TypeOK
<1>3. UNCHANGED <<policy, accepting, waiters, worker, buffer, batch, ackTo,
                  failures, confirmed, owned, snap, sent, told>>
  BY DEF TryAdd, workVars, ledgerVars
<1>4. CASE /\ UNCHANGED <<slots, commands, accepted, replaced, owed>>
           /\ Finish(c, "closed") \/ Finish(c, "full")
  BY <1>1, <1>3, <1>4 DEF Finish
<1>5. CASE accepting /\ slots > 0 /\ slots' = slots - 1
             /\ Queue(c) /\ Finish(c, "ok") /\ replaced' = replaced
  BY <1>1, <1>2, <1>3, <1>5 DEF Queue, Finish
<1>6. CASE accepting /\ slots = 0 /\ Oldest <= Len(commands)
             /\ Replace(c) /\ Finish(c, "ok") /\ owed' = owed
  BY <1>1, <1>3, <1>6 DEF Replace, Finish
<1> QED
  BY <1>4, <1>5, <1>6 DEF TryAdd

\* A sender: a permit at once, a place among the waiting, or neither when closed.
LEMMA SendEffect ==
  ASSUME TypeOK, NEW c \in Calls, Send(c)
  PROVE  /\ stage[c] = "unused"
         /\ \E kind \in {"add", "flush"} : op' = [op EXCEPT ![c] = kind]
         /\ UNCHANGED <<policy, accepting, commands, worker, buffer, batch, ackTo,
                        failures, confirmed, owned, snap, result, accepted,
                        replaced, sent, owed, told>>
         /\ \/ /\ accepting /\ slots > 0 /\ slots' = slots - 1
               /\ stage' = [stage EXCEPT ![c] = "reserved"]
               /\ waiters' = waiters
            \/ /\ accepting /\ slots = 0 /\ slots' = slots
               /\ stage' = [stage EXCEPT ![c] = "waiting"]
               /\ waiters' = Append(waiters, c)
            \/ /\ ~accepting /\ slots' = slots /\ waiters' = waiters
               /\ stage' = [stage EXCEPT ![c] = "waiting"]
<1>1. stage[c] = "unused" /\ \E kind \in {"add", "flush"} : op' = [op EXCEPT ![c] = kind]
  BY DEF Send, Start
<1>2. UNCHANGED <<policy, accepting, commands, worker, buffer, batch, ackTo,
                  failures, confirmed, owned, snap, result, accepted,
                  replaced, sent, owed, told>>
  BY DEF Send, workVars, ledgerVars, history
<1>3. slots > 0 \/ slots = 0
  BY DEF TypeOK
<1> QED
  BY <1>1, <1>2, <1>3 DEF Send

\* A permit becomes a queued command.
LEMMA CommitEffect ==
  ASSUME TypeOK, NEW c \in Calls, Commit(c)
  PROVE  /\ stage[c] = "reserved" /\ accepting
         /\ commands' = Append(commands, c)
         /\ UNCHANGED <<policy, accepting, slots, waiters, worker, buffer, batch,
                        ackTo, failures, confirmed, owned, op, snap, replaced,
                        sent, told>>
         /\ \/ /\ op[c] = "flush" /\ UNCHANGED <<result, accepted>>
               /\ stage' = [stage EXCEPT ![c] = "awaiting"]
               /\ owed' = [owed EXCEPT ![c] = ToSet(accepted) \ replaced]
            \/ /\ op[c] # "flush" /\ owed' = owed
               /\ accepted' = Append(accepted, c)
               /\ stage' = [stage EXCEPT ![c] = "done"]
               /\ result' = [result EXCEPT ![c] = "ok"]
BY DEF Commit, Queue, Finish, workVars, ledgerVars

\* A cancelled call: its permit goes on, or it leaves the waiting.
LEMMA CancelEffect ==
  ASSUME TypeOK, NEW c \in Calls, Cancel(c)
  PROVE  /\ stage[c] \notin {"unused", "done"}
         /\ result' = [result EXCEPT ![c] = "cancelled"]
         /\ snap' = [snap EXCEPT ![c] = NoSnap]
         /\ UNCHANGED <<policy, accepting, commands, worker, buffer, batch, ackTo,
                        failures, confirmed, owned, op, accepted, replaced, sent,
                        owed, told>>
         /\ \/ /\ stage[c] = "reserved" /\ waiters # <<>> /\ slots' = slots
               /\ waiters' = Tail(waiters)
               /\ stage' = [stage EXCEPT ![c] = "done",
                                         ![Head(waiters)] = "reserved"]
            \/ /\ stage[c] = "reserved" /\ waiters = <<>> /\ waiters' = waiters
               /\ slots' = slots + 1 /\ stage' = [stage EXCEPT ![c] = "done"]
            \/ /\ stage[c] # "reserved" /\ slots' = slots
               /\ stage' = [stage EXCEPT ![c] = "done"]
               /\ \/ stage[c] = "waiting" /\ waiters' = Keep(waiters, Calls \ {c})
                  \/ stage[c] # "waiting" /\ waiters' = waiters
<1>1. /\ stage[c] \notin {"unused", "done"}
      /\ result' = [result EXCEPT ![c] = "cancelled"]
      /\ snap' = [snap EXCEPT ![c] = NoSnap]
      /\ UNCHANGED <<policy, accepting, commands, worker, buffer, batch, ackTo,
                     failures, confirmed, owned, op, accepted, replaced, sent,
                     owed, told>>
  BY DEF Cancel, workVars, ledgerVars, history
<1>2. CASE stage[c] = "reserved" /\ waiters # <<>>
  BY <1>1, <1>2 DEF Cancel
<1>3. CASE stage[c] = "reserved" /\ waiters = <<>>
  BY <1>1, <1>3 DEF Cancel
<1>4. CASE stage[c] # "reserved"
  BY <1>1, <1>4 DEF Cancel
<1> QED
  BY <1>2, <1>3, <1>4

\* The head command leaves with its permit, which a waiting call may get.
LEMMA HeadEffect ==
  ASSUME TypeOK, TakeHead
  PROVE  /\ commands # <<>> /\ commands' = Tail(commands)
         /\ Head(commands) \in Calls
         /\ \/ /\ waiters = <<>> /\ waiters' = waiters /\ slots' = slots + 1
               /\ Handed = stage
            \/ /\ waiters # <<>> /\ waiters' = Tail(waiters) /\ slots' = slots
               /\ Head(waiters) \in Calls
               /\ Handed = [stage EXCEPT ![Head(waiters)] = "reserved"]
<1>1. commands # <<>> /\ commands \in Seq(Calls) /\ waiters \in Seq(Calls)
  BY DEF TakeHead, TypeOK
<1>2. Head(commands) \in Calls /\ (waiters # <<>> => Head(waiters) \in Calls)
  BY <1>1
<1> QED
  BY <1>1, <1>2 DEF TakeHead, Handed

\* The worker takes an event: into the buffer, or into a full batch.
LEMMA ProcessAddEffect ==
  ASSUME TypeOK, ProcessAdd
  PROVE  /\ worker \in {"select", "drain"} /\ batch = <<>>
         /\ op[Head(commands)] # "flush" /\ TakeHead /\ stage' = Handed
         /\ UNCHANGED <<policy, accepting, ackTo, failures, confirmed, owned, op,
                        snap, result, accepted, replaced, sent, owed, told>>
         /\ \/ /\ batch' = Append(buffer, Head(commands)) /\ buffer' = <<>>
               /\ worker' = worker
            \/ /\ buffer' = Append(buffer, Head(commands)) /\ batch' = batch
               /\ worker' = worker \/ (worker' = "drain" /\ ~accepting)
<1>1. /\ worker \in {"select", "drain"} /\ batch = <<>>
      /\ op[Head(commands)] # "flush" /\ TakeHead /\ stage' = Handed
      /\ UNCHANGED <<policy, accepting, ackTo, failures, confirmed, owned, op,
                     snap, result, accepted, replaced, sent, owed, told>>
  BY DEF ProcessAdd, Running, ledgerVars, history
<1> QED
  BY <1>1 DEF ProcessAdd, Resume

\* The worker takes a flush: it is answered, or its batch is sent first.
LEMMA ProcessFlushEffect ==
  ASSUME TypeOK, ProcessFlush
  PROVE  /\ worker \in {"select", "drain"} /\ batch = <<>>
         /\ op[Head(commands)] = "flush" /\ TakeHead
         /\ UNCHANGED <<policy, accepting, failures, confirmed, owned, op, result,
                        accepted, replaced, sent, owed, told>>
         /\ \/ /\ buffer = <<>> /\ UNCHANGED <<buffer, batch, ackTo>>
               /\ worker' = worker \/ (worker' = "drain" /\ ~accepting)
               /\ Ack(Head(commands), failures, Handed)
            \/ /\ buffer # <<>> /\ batch' = buffer /\ buffer' = <<>>
               /\ ackTo' = Head(commands) /\ stage' = Handed
               /\ UNCHANGED <<worker, snap>>
<1>1. /\ worker \in {"select", "drain"} /\ batch = <<>>
      /\ op[Head(commands)] = "flush" /\ TakeHead
      /\ UNCHANGED <<policy, accepting, failures, confirmed, owned, op, result,
                     accepted, replaced, sent, owed, told>>
  BY DEF ProcessFlush, Running, ledgerVars, history
<1> QED
  BY <1>1 DEF ProcessFlush, Resume

\* A submission has ended, with or without a failure.
LEMMA SubmittedEffect ==
  ASSUME TypeOK, Submitted
  PROVE  /\ batch # <<>> /\ worker # "dead"
         /\ sent' = sent \o batch /\ batch' = <<>> /\ ackTo' = NoCall
         /\ \/ worker' = worker /\ worker # "last"
            \/ worker' = "drain" /\ worker # "last" /\ ~accepting
            \/ worker' = "finished" /\ worker = "last"
         /\ UNCHANGED <<policy, accepting, slots, waiters, commands, buffer,
                        confirmed, owned, op, result, accepted, replaced, owed,
                        told>>
         /\ Ack(ackTo, failures', stage)
         /\ failures' = failures \/ failures' = Append(failures, ToSet(batch))
BY DEF Submitted, Resume, queueVars

\* An acknowledgement reaches a call that still waits for it.
LEMMA AckEffect ==
  ASSUME NEW c, NEW failed, NEW before, Ack(c, failed, before)
  PROVE  \/ stage' = before /\ snap' = snap
         \/ /\ c # NoCall /\ before[c] = "awaiting"
            /\ stage' = [before EXCEPT ![c] = "acked"]
            /\ snap' = [snap EXCEPT ![c] =
                          [through |-> Len(failed),
                           failures |-> Len(failed) - confirmed]]
BY DEF Ack, FlushSnapshot

QueueTypes ==
  /\ policy \in Policies /\ accepting \in BOOLEAN /\ owned \in BOOLEAN
  /\ slots \in Nat
  /\ waiters \in Seq(Calls) /\ commands \in Seq(Calls)

WorkTypes ==
  /\ worker \in {"select", "drain", "last", "finished", "dead"}
  /\ buffer \in Seq(Calls) /\ batch \in Seq(Calls)
  /\ ackTo \in Calls \cup {NoCall}

CallTypes ==
  /\ op \in [Calls -> Ops] /\ stage \in [Calls -> Stages]
  /\ snap \in [Calls -> Snapshots] /\ result \in [Calls -> Results]

LedgerTypes ==
  /\ failures \in Seq(SUBSET Calls) /\ confirmed \in 0..Len(failures)
  /\ told \subseteq 1..Len(failures)

HistoryTypes ==
  /\ accepted \in Seq(Calls) /\ replaced \subseteq Calls
  /\ sent \in Seq(Calls) /\ owed \in [Calls -> SUBSET Calls]

\* The types in five parts, so that a step needs only its own.
LEMMA TypeParts ==
  TypeOK <=> /\ QueueTypes /\ WorkTypes /\ CallTypes /\ LedgerTypes
             /\ HistoryTypes /\ slots \in 0..MaxEvents
<1>1. MaxEvents \in Nat
  BY BatcherAssumption
<1>2. slots \in 0..MaxEvents => slots \in Nat
  BY <1>1
<1> QED
  BY <1>2 DEF TypeOK, QueueTypes, WorkTypes, CallTypes, LedgerTypes, HistoryTypes

\* The queue keeps its types.
LEMMA QueueTypesStep ==
  ASSUME TypeOK, [Next]_vars
  PROVE  QueueTypes'
<1> USE DEF QueueTypes, queueVars, workVars, ledgerVars, callVars, history
<1>0. QueueTypes /\ <<>> \in Seq(Calls)
  BY TypeParts, EmptySeq
<1>1. ASSUME NEW c \in Calls, TryAdd(c) PROVE QueueTypes'
  <2>1. Oldest <= Len(commands) => RemoveAt(commands, Oldest) \in Seq(Calls)
    BY <1>0, OldestFacts, RemoveAtFacts
  <2>2. slots' \in Nat
    BY <1>0, <1>1, TryAddEffect
  <2>3. commands' \in Seq(Calls)
    <3>1. \/ commands' = commands \/ commands' = Append(commands, c)
          \/ /\ Oldest <= Len(commands)
             /\ commands' = Append(RemoveAt(commands, Oldest), c)
      BY <1>1, TryAddEffect
    <3>2. \A s \in Seq(Calls) : Append(s, c) \in Seq(Calls)
      OBVIOUS
    <3> QED
      BY <1>0, <2>1, <3>1, <3>2
  <2>4. UNCHANGED <<policy, accepting, owned, waiters>>
    BY <1>1, TryAddEffect
  <2> QED
    BY <1>0, <2>2, <2>3, <2>4
<1>2. ASSUME NEW c \in Calls, Send(c) PROVE QueueTypes'
  <2>1. slots' \in Nat /\ UNCHANGED <<policy, accepting, owned, commands>>
    BY <1>0, <1>2, SendEffect
  <2>2. waiters' = waiters \/ waiters' = Append(waiters, c)
    BY <1>2, SendEffect
  <2>3. waiters' \in Seq(Calls)
    BY <1>0, <2>2
  <2> QED
    BY <1>0, <2>1, <2>3
<1>3. ASSUME NEW c \in Calls, Commit(c) PROVE QueueTypes'
  BY <1>0, <1>3, CommitEffect
<1>4. ASSUME NEW c \in Calls, Refused(c) PROVE QueueTypes'
  BY <1>0, <1>4 DEF Refused, Finish
<1>5. ASSUME NEW c \in Calls, Shutdown(c) PROVE QueueTypes'
  BY <1>0, <1>5 DEF Shutdown, Start, Close
<1>6. ASSUME NEW c \in Calls, Observe(c) PROVE QueueTypes'
  BY <1>0, <1>6 DEF Observe, Finish
<1>7. ASSUME NEW c \in Calls, AckLost(c) PROVE QueueTypes'
  BY <1>0, <1>7 DEF AckLost, Close
<1>8. ASSUME NEW c \in Calls, Join(c) PROVE QueueTypes'
  BY <1>0, <1>8 DEF Join, Finish
<1>9. ASSUME NEW c \in Calls, Cancel(c) PROVE QueueTypes'
  <2>1. Keep(waiters, Calls \ {c}) \in Seq(Calls)
    BY <1>0, KeepElement
  <2>2. slots' \in Nat
    <3>1. slots' = slots \/ slots' = slots + 1
      BY <1>9, CancelEffect
    <3> QED
      BY <1>0, <3>1
  <2>3. waiters' \in Seq(Calls)
    <3>1. \/ waiters' = waiters \/ waiters' = Keep(waiters, Calls \ {c})
          \/ waiters # <<>> /\ waiters' = Tail(waiters)
      BY <1>9, CancelEffect
    <3>2. waiters # <<>> => Tail(waiters) \in Seq(Calls)
      BY <1>0
    <3> QED
      BY <1>0, <2>1, <3>1, <3>2
  <2>4. UNCHANGED <<policy, accepting, owned, commands>>
    BY <1>9, CancelEffect
  <2> QED
    BY <1>0, <2>2, <2>3, <2>4
<1>10. CASE DropBatcher
  BY <1>0, <1>10 DEF DropBatcher, Close
<1>11. CASE ProcessAdd
  <2>1. TakeHead /\ UNCHANGED <<policy, accepting, owned>>
    BY <1>11, ProcessAddEffect
  <2>2. /\ slots' = slots \/ slots' = slots + 1
        /\ waiters' = waiters \/ (waiters # <<>> /\ waiters' = Tail(waiters))
        /\ commands # <<>> /\ commands' = Tail(commands)
    BY <2>1, HeadEffect
  <2>3. slots' \in Nat /\ waiters' \in Seq(Calls) /\ commands' \in Seq(Calls)
    <3>1. \A s \in Seq(Calls) : s # <<>> => Tail(s) \in Seq(Calls)
      OBVIOUS
    <3>2. slots + 1 \in Nat
      BY <1>0
    <3> QED
      BY <1>0, <2>2, <3>1, <3>2
  <2> QED
    BY <1>0, <2>1, <2>3
<1>12. CASE ProcessFlush
  <2>1. TakeHead /\ UNCHANGED <<policy, accepting, owned>>
    BY <1>12, ProcessFlushEffect
  <2>2. /\ slots' = slots \/ slots' = slots + 1
        /\ waiters' = waiters \/ (waiters # <<>> /\ waiters' = Tail(waiters))
        /\ commands # <<>> /\ commands' = Tail(commands)
    BY <2>1, HeadEffect
  <2>3. slots' \in Nat /\ waiters' \in Seq(Calls) /\ commands' \in Seq(Calls)
    <3>1. \A s \in Seq(Calls) : s # <<>> => Tail(s) \in Seq(Calls)
      OBVIOUS
    <3>2. slots + 1 \in Nat
      BY <1>0
    <3> QED
      BY <1>0, <2>2, <3>1, <3>2
  <2> QED
    BY <1>0, <2>1, <2>3
<1>13. CASE Tick
  BY <1>0, <1>13 DEF Tick
<1>14. CASE SeeClosing
  BY <1>0, <1>14 DEF SeeClosing
<1>15. CASE Drained
  BY <1>0, <1>15 DEF Drained
<1>16. CASE Submitted
  BY <1>0, <1>16, SubmittedEffect, AckEffect
<1>17. CASE WorkerDies
  <2>1. Len(commands) \in Nat
    BY <1>0
  <2>2. slots' \in Nat
    BY <1>0, <1>17, <2>1 DEF WorkerDies
  <2> QED
    BY <1>0, <1>17, <2>2 DEF WorkerDies, Close
<1>18. CASE UNCHANGED vars
  BY <1>0, <1>18 DEF vars
<1> QED
  BY <1>1, <1>2, <1>3, <1>4, <1>5, <1>6, <1>7, <1>8, <1>9, <1>10, <1>11,
     <1>12, <1>13, <1>14, <1>15, <1>16, <1>17, <1>18
     DEF Next, Terminated

\* The worker keeps its types.
LEMMA WorkTypesStep ==
  ASSUME TypeOK, [Next]_vars
  PROVE  WorkTypes'
<1> USE DEF WorkTypes, queueVars, workVars, ledgerVars, callVars, history
<1>0. WorkTypes /\ <<>> \in Seq(Calls)
  BY TypeParts, EmptySeq
<1>1. ASSUME NEW c \in Calls, TryAdd(c) PROVE WorkTypes'
  BY <1>0, <1>1, TryAddEffect
<1>2. ASSUME NEW c \in Calls, Send(c) PROVE WorkTypes'
  BY <1>0, <1>2, SendEffect
<1>3. ASSUME NEW c \in Calls, Commit(c) PROVE WorkTypes'
  BY <1>0, <1>3, CommitEffect
<1>4. ASSUME NEW c \in Calls, Refused(c) PROVE WorkTypes'
  BY <1>0, <1>4 DEF Refused, Finish
<1>5. ASSUME NEW c \in Calls, Shutdown(c) PROVE WorkTypes'
  BY <1>0, <1>5 DEF Shutdown, Start, Close
<1>6. ASSUME NEW c \in Calls, Observe(c) PROVE WorkTypes'
  BY <1>0, <1>6 DEF Observe, Finish
<1>7. ASSUME NEW c \in Calls, AckLost(c) PROVE WorkTypes'
  BY <1>0, <1>7 DEF AckLost, Close
<1>8. ASSUME NEW c \in Calls, Join(c) PROVE WorkTypes'
  BY <1>0, <1>8 DEF Join, Finish
<1>9. ASSUME NEW c \in Calls, Cancel(c) PROVE WorkTypes'
  BY <1>0, <1>9, CancelEffect
<1>10. CASE DropBatcher
  BY <1>0, <1>10 DEF DropBatcher, Close
<1>11. CASE ProcessAdd
  <2>1. Head(commands) \in Calls
    BY <1>11, HeadEffect, ProcessAddEffect
  <2>2. Append(buffer, Head(commands)) \in Seq(Calls)
    BY <1>0, <2>1
  <2>3. buffer' \in Seq(Calls) /\ batch' \in Seq(Calls)
    BY <1>0, <1>11, <2>2, ProcessAddEffect
  <2>4. worker' \in {worker, "drain"} /\ ackTo' = ackTo
    BY <1>11, ProcessAddEffect
  <2> QED
    BY <1>0, <2>3, <2>4
<1>12. CASE ProcessFlush
  <2>1. Head(commands) \in Calls
    BY <1>12, HeadEffect, ProcessFlushEffect
  <2> QED
    BY <1>0, <1>12, <2>1, ProcessFlushEffect
<1>13. CASE Tick
  BY <1>0, <1>13 DEF Tick
<1>14. CASE SeeClosing
  BY <1>0, <1>14 DEF SeeClosing
<1>15. CASE Drained
  BY <1>0, <1>15 DEF Drained
<1>16. CASE Submitted
  BY <1>0, <1>16, SubmittedEffect, AckEffect
<1>17. CASE WorkerDies
  BY <1>0, <1>17 DEF WorkerDies, Close
<1>18. CASE UNCHANGED vars
  BY <1>0, <1>18 DEF vars
<1> QED
  BY <1>1, <1>2, <1>3, <1>4, <1>5, <1>6, <1>7, <1>8, <1>9, <1>10, <1>11,
     <1>12, <1>13, <1>14, <1>15, <1>16, <1>17, <1>18
     DEF Next, Terminated

\* The calls keep their types.
LEMMA CallTypesStep ==
  ASSUME TypeOK, [Next]_vars
  PROVE  CallTypes'
<1> USE DEF CallTypes, LedgerTypes, Snapshots, Stages, Ops, Results, NoSnap,
            queueVars, workVars, ledgerVars, callVars, history
<1>0. CallTypes /\ LedgerTypes /\ <<>> \in Seq(Calls)
  BY TypeParts, EmptySeq
<1>1. ASSUME NEW c \in Calls, TryAdd(c) PROVE CallTypes'
  <2>1. result' \in [Calls -> Results]
    BY <1>0, <1>1, TryAddEffect
  <2>2. stage' \in [Calls -> Stages] /\ op' \in [Calls -> Ops] /\ snap' = snap
    BY <1>0, <1>1, TryAddEffect
  <2> QED
    BY <1>0, <2>1, <2>2
<1>2. ASSUME NEW c \in Calls, Send(c) PROVE CallTypes'
  <2>1. result' = result /\ snap' = snap
    BY <1>2, SendEffect
  <2>2. op' \in [Calls -> Ops]
    <3>1. PICK kind \in {"add", "flush"} : op' = [op EXCEPT ![c] = kind]
      BY <1>2, SendEffect
    <3> QED
      BY <1>0, <3>1
  <2>3. stage' \in [Calls -> Stages]
    <3>1. \/ stage' = [stage EXCEPT ![c] = "waiting"]
          \/ stage' = [stage EXCEPT ![c] = "reserved"]
      BY <1>2, SendEffect
    <3> QED
      BY <1>0, <3>1
  <2> QED
    BY <1>0, <2>1, <2>2, <2>3
<1>3. ASSUME NEW c \in Calls, Commit(c) PROVE CallTypes'
  <2>1. op' = op /\ snap' = snap
    BY <1>3, CommitEffect
  <2>2. \/ stage' = [stage EXCEPT ![c] = "awaiting"] /\ result' = result
        \/ /\ stage' = [stage EXCEPT ![c] = "done"]
           /\ result' = [result EXCEPT ![c] = "ok"]
    BY <1>3, CommitEffect
  <2> QED
    BY <1>0, <2>1, <2>2
<1>4. ASSUME NEW c \in Calls, Refused(c) PROVE CallTypes'
  BY <1>0, <1>4 DEF Refused, Finish
<1>5. ASSUME NEW c \in Calls, Shutdown(c) PROVE CallTypes'
  BY <1>0, <1>5 DEF Shutdown, Start, Close
<1>6. ASSUME NEW c \in Calls, Observe(c) PROVE CallTypes'
  BY <1>0, <1>6 DEF Observe, Finish
<1>7. ASSUME NEW c \in Calls, AckLost(c) PROVE CallTypes'
  BY <1>0, <1>7 DEF AckLost, Close
<1>8. ASSUME NEW c \in Calls, Join(c) PROVE CallTypes'
  BY <1>0, <1>8 DEF Join, Finish
<1>9. ASSUME NEW c \in Calls, Cancel(c) PROVE CallTypes'
  <2>1. result' \in [Calls -> Results] /\ snap' \in [Calls -> Snapshots]
    <3>1. /\ result' = [result EXCEPT ![c] = "cancelled"]
          /\ snap' = [snap EXCEPT ![c] = NoSnap]
      BY <1>9, CancelEffect
    <3>2. NoSnap \in Snapshots
      OBVIOUS
    <3> QED
      BY <1>0, <3>1, <3>2
  <2>2. stage' \in [Calls -> Stages] /\ op' = op
    BY <1>0, <1>9, CancelEffect
  <2> QED
    BY <1>0, <2>1, <2>2
<1>10. CASE DropBatcher
  BY <1>0, <1>10 DEF DropBatcher, Close
<1>11. CASE ProcessAdd
  <2>1. TakeHead /\ UNCHANGED <<op, snap, result>> /\ stage' = Handed
    BY <1>11, ProcessAddEffect
  <2>2. Handed \in [Calls -> Stages]
    BY <1>0, <2>1, HeadEffect
  <2> QED
    BY <1>0, <2>1, <2>2
<1>12. CASE ProcessFlush
  <2>1. [through |-> Len(failures), failures |-> Len(failures) - confirmed]
          \in Snapshots
    BY <1>0
  <2>2. TakeHead /\ op' = op /\ result' = result
    BY <1>12, ProcessFlushEffect
  <2>3. Handed \in [Calls -> Stages]
    BY <1>0, <2>2, HeadEffect
  <2>4. \/ stage' = Handed /\ snap' = snap
        \/ Ack(Head(commands), failures, Handed)
    BY <1>12, ProcessFlushEffect
  <2>5. stage' \in [Calls -> Stages] /\ snap' \in [Calls -> Snapshots]
    <3>1. \/ stage' = Handed /\ snap' = snap
          \/ /\ stage' = [Handed EXCEPT ![Head(commands)] = "acked"]
             /\ snap' = [snap EXCEPT ![Head(commands)] =
                          [through |-> Len(failures),
                           failures |-> Len(failures) - confirmed]]
      BY <2>4, AckEffect
    <3> HIDE DEF Snapshots
    <3> QED
      BY <1>0, <2>1, <2>3, <3>1
  <2> QED
    BY <1>0, <2>2, <2>5
<1>13. CASE Tick
  BY <1>0, <1>13 DEF Tick
<1>14. CASE SeeClosing
  BY <1>0, <1>14 DEF SeeClosing
<1>15. CASE Drained
  BY <1>0, <1>15 DEF Drained
<1>16. CASE Submitted
  <2>1. Len(failures') \in Nat /\ Len(failures') - confirmed \in Nat
    <3>1. ToSet(batch) \in SUBSET Calls
      BY TypeParts DEF WorkTypes, ToSet
    <3> QED
      BY <1>0, <1>16, <3>1, SubmittedEffect
  <2>2. [through |-> Len(failures'), failures |-> Len(failures') - confirmed]
          \in Snapshots
    BY <2>1
  <2>3. Ack(ackTo, failures', stage) /\ op' = op /\ result' = result
    BY <1>16, SubmittedEffect
  <2>4. stage' \in [Calls -> Stages] /\ snap' \in [Calls -> Snapshots]
    <3>1. \/ stage' = stage /\ snap' = snap
          \/ /\ stage' = [stage EXCEPT ![ackTo] = "acked"]
             /\ snap' = [snap EXCEPT ![ackTo] =
                          [through |-> Len(failures'),
                           failures |-> Len(failures') - confirmed]]
      BY <2>3, AckEffect
    <3> HIDE DEF Snapshots
    <3> QED
      BY <1>0, <2>2, <3>1
  <2> QED
    BY <1>0, <2>3, <2>4
<1>17. CASE WorkerDies
  BY <1>0, <1>17 DEF WorkerDies, Close
<1>18. CASE UNCHANGED vars
  BY <1>0, <1>18 DEF vars
<1> QED
  BY <1>1, <1>2, <1>3, <1>4, <1>5, <1>6, <1>7, <1>8, <1>9, <1>10, <1>11,
     <1>12, <1>13, <1>14, <1>15, <1>16, <1>17, <1>18
     DEF Next, Terminated

\* The ledger keeps its types.
LEMMA LedgerTypesStep ==
  ASSUME TypeOK, SnapshotsOK, [Next]_vars
  PROVE  LedgerTypes'
<1> USE DEF SnapshotsOK, LedgerTypes, queueVars, workVars, ledgerVars,
            callVars, history
<1>0. CallTypes /\ LedgerTypes /\ <<>> \in Seq(Calls)
  BY TypeParts, EmptySeq
<1>1. ASSUME NEW c \in Calls, TryAdd(c) PROVE LedgerTypes'
  BY <1>0, <1>1, TryAddEffect
<1>2. ASSUME NEW c \in Calls, Send(c) PROVE LedgerTypes'
  BY <1>0, <1>2, SendEffect
<1>3. ASSUME NEW c \in Calls, Commit(c) PROVE LedgerTypes'
  BY <1>0, <1>3, CommitEffect
<1>4. ASSUME NEW c \in Calls, Refused(c) PROVE LedgerTypes'
  BY <1>0, <1>4 DEF Refused, Finish
<1>5. ASSUME NEW c \in Calls, Shutdown(c) PROVE LedgerTypes'
  BY <1>0, <1>5 DEF Shutdown, Start, Close
<1>6. ASSUME NEW c \in Calls, Observe(c) PROVE LedgerTypes'
  <2>1. /\ snap[c].through \in Nat /\ snap[c].failures \in Nat
        /\ snap[c].failures <= snap[c].through
        /\ snap[c].through <= Len(failures)
    BY <1>0, <1>6 DEF Observe, CallTypes, Snapshots
  <2>2. Len(failures) \in Nat /\ failures' = failures
    BY <1>0, <1>6 DEF Observe
  <2>3. Max({confirmed, snap[c].through}) \in 0..Len(failures)
    <3>1. {confirmed, snap[c].through} \in SUBSET (0..Len(failures))
      BY <1>0, <2>1, <2>2
    <3> QED
      BY <2>2, <3>1, MaxFacts
  <2>4. confirmed' \in 0..Len(failures')
    BY <1>0, <1>6, <2>2, <2>3 DEF Observe
  <2>5. ((snap[c].through - snap[c].failures + 1)..snap[c].through)
          \subseteq 1..Len(failures)
    BY <2>1, <2>2
  <2>6. told' \subseteq 1..Len(failures')
    BY <1>0, <1>6, <2>2, <2>5 DEF Observe
  <2> QED
    BY <1>0, <2>2, <2>4, <2>6
<1>7. ASSUME NEW c \in Calls, AckLost(c) PROVE LedgerTypes'
  BY <1>0, <1>7 DEF AckLost, Close
<1>8. ASSUME NEW c \in Calls, Join(c) PROVE LedgerTypes'
  <2>1. failures' = failures /\ confirmed' = confirmed
    BY <1>8 DEF Join
  <2>2. told' = told \/ told' = DOMAIN failures
    BY <1>8 DEF Join
  <2>3. DOMAIN failures = 1..Len(failures)
    BY <1>0
  <2> QED
    BY <1>0, <2>1, <2>2, <2>3
<1>9. ASSUME NEW c \in Calls, Cancel(c) PROVE LedgerTypes'
  BY <1>0, <1>9, CancelEffect
<1>10. CASE DropBatcher
  BY <1>0, <1>10 DEF DropBatcher, Close
<1>11. CASE ProcessAdd
  BY <1>0, <1>11, ProcessAddEffect, HeadEffect
<1>12. CASE ProcessFlush
  BY <1>0, <1>12, ProcessFlushEffect, HeadEffect, AckEffect
<1>13. CASE Tick
  BY <1>0, <1>13 DEF Tick
<1>14. CASE SeeClosing
  BY <1>0, <1>14 DEF SeeClosing
<1>15. CASE Drained
  BY <1>0, <1>15 DEF Drained
<1>16. CASE Submitted
  <2>1. ToSet(batch) \in SUBSET Calls
    BY TypeParts DEF WorkTypes, ToSet
  <2>2. failures' = failures \/ failures' = Append(failures, ToSet(batch))
    BY <1>16, SubmittedEffect
  <2>3. failures' \in Seq(SUBSET Calls) /\ Len(failures') >= Len(failures)
    BY <1>0, <2>1, <2>2
  <2>4. confirmed' = confirmed /\ told' = told
    BY <1>16, SubmittedEffect
  <2> QED
    BY <1>0, <2>3, <2>4
<1>17. CASE WorkerDies
  BY <1>0, <1>17 DEF WorkerDies, Close
<1>18. CASE UNCHANGED vars
  BY <1>0, <1>18 DEF vars
<1> QED
  BY <1>1, <1>2, <1>3, <1>4, <1>5, <1>6, <1>7, <1>8, <1>9, <1>10, <1>11,
     <1>12, <1>13, <1>14, <1>15, <1>16, <1>17, <1>18
     DEF Next, Terminated

\* The history keeps its types.
LEMMA HistoryTypesStep ==
  ASSUME TypeOK, [Next]_vars
  PROVE  HistoryTypes'
<1> USE DEF HistoryTypes, queueVars, workVars, ledgerVars, callVars, history
<1>0. HistoryTypes /\ <<>> \in Seq(Calls)
  BY TypeParts, EmptySeq
<1>1. ASSUME NEW c \in Calls, TryAdd(c) PROVE HistoryTypes'
  <2>1. Oldest <= Len(commands) => commands[Oldest] \in Calls
    BY OldestFacts, TypeParts DEF QueueTypes
  <2>2. Append(accepted, c) \in Seq(Calls)
    BY <1>0
  <2>3. /\ accepted' \in Seq(Calls) /\ replaced' \subseteq Calls
        /\ sent' = sent /\ owed' = owed
    BY <1>0, <1>1, <2>1, <2>2, TryAddEffect
  <2> QED
    BY <1>0, <2>3
<1>2. ASSUME NEW c \in Calls, Send(c) PROVE HistoryTypes'
  BY <1>0, <1>2, SendEffect
<1>3. ASSUME NEW c \in Calls, Commit(c) PROVE HistoryTypes'
  <2>1. ToSet(accepted) \ replaced \in SUBSET Calls
    BY <1>0 DEF ToSet
  <2>2. accepted' = accepted \/ accepted' = Append(accepted, c)
    BY <1>3, CommitEffect
  <2>3. owed' = owed \/ owed' = [owed EXCEPT ![c] = ToSet(accepted) \ replaced]
    BY <1>3, CommitEffect
  <2>4. replaced' = replaced /\ sent' = sent
    BY <1>3, CommitEffect
  <2>5. accepted' \in Seq(Calls)
    BY <1>0, <2>2
  <2>6. owed' \in [Calls -> SUBSET Calls]
    BY <1>0, <2>1, <2>3
  <2> QED
    BY <1>0, <2>4, <2>5, <2>6
<1>4. ASSUME NEW c \in Calls, Refused(c) PROVE HistoryTypes'
  BY <1>0, <1>4 DEF Refused, Finish
<1>5. ASSUME NEW c \in Calls, Shutdown(c) PROVE HistoryTypes'
  BY <1>0, <1>5 DEF Shutdown, Start, Close
<1>6. ASSUME NEW c \in Calls, Observe(c) PROVE HistoryTypes'
  BY <1>0, <1>6 DEF Observe, Finish
<1>7. ASSUME NEW c \in Calls, AckLost(c) PROVE HistoryTypes'
  BY <1>0, <1>7 DEF AckLost, Close
<1>8. ASSUME NEW c \in Calls, Join(c) PROVE HistoryTypes'
  BY <1>0, <1>8 DEF Join, Finish
<1>9. ASSUME NEW c \in Calls, Cancel(c) PROVE HistoryTypes'
  BY <1>0, <1>9, CancelEffect
<1>10. CASE DropBatcher
  BY <1>0, <1>10 DEF DropBatcher, Close
<1>11. CASE ProcessAdd
  BY <1>0, <1>11, ProcessAddEffect, HeadEffect
<1>12. CASE ProcessFlush
  BY <1>0, <1>12, ProcessFlushEffect, HeadEffect, AckEffect
<1>13. CASE Tick
  BY <1>0, <1>13 DEF Tick
<1>14. CASE SeeClosing
  BY <1>0, <1>14 DEF SeeClosing
<1>15. CASE Drained
  BY <1>0, <1>15 DEF Drained
<1>16. CASE Submitted
  <2>1. sent \o batch \in Seq(Calls)
    BY TypeParts, ConcatSet DEF HistoryTypes, WorkTypes
  <2> QED
    BY <1>0, <1>16, <2>1, SubmittedEffect
<1>17. CASE WorkerDies
  BY <1>0, <1>17 DEF WorkerDies, Close
<1>18. CASE UNCHANGED vars
  BY <1>0, <1>18 DEF vars
<1> QED
  BY <1>1, <1>2, <1>3, <1>4, <1>5, <1>6, <1>7, <1>8, <1>9, <1>10, <1>11,
     <1>12, <1>13, <1>14, <1>15, <1>16, <1>17, <1>18
     DEF Next, Terminated

\* A snapshot stays within the ledger.
LEMMA SnapshotsStep ==
  ASSUME TypeOK, SnapshotsOK, [Next]_vars
  PROVE  SnapshotsOK'
<1> USE DEF SnapshotsOK, CallTypes, Snapshots, LedgerTypes, queueVars,
            workVars, ledgerVars, callVars, history
<1>0. CallTypes /\ LedgerTypes
  BY TypeParts
<1>1. ASSUME NEW c \in Calls, TryAdd(c) PROVE SnapshotsOK'
  <2>1. UNCHANGED <<failures, confirmed>>
    BY <1>1, TryAddEffect
  <2>2. \A d \in Calls : stage'[d] = "acked" =>
                                 stage[d] = "acked" /\ snap'[d] = snap[d]
    BY <1>0, <1>1, TryAddEffect
  <2> QED
    BY <2>1, <2>2
<1>2. ASSUME NEW c \in Calls, Send(c) PROVE SnapshotsOK'
  <2>1. UNCHANGED <<failures, confirmed>>
    BY <1>2, SendEffect
  <2>2. \A d \in Calls : stage'[d] = "acked" =>
                                 stage[d] = "acked" /\ snap'[d] = snap[d]
    BY <1>0, <1>2, SendEffect
  <2> QED
    BY <2>1, <2>2
<1>3. ASSUME NEW c \in Calls, Commit(c) PROVE SnapshotsOK'
  <2>1. UNCHANGED <<failures, confirmed>>
    BY <1>3, CommitEffect
  <2>2. \A d \in Calls : stage'[d] = "acked" =>
                                 stage[d] = "acked" /\ snap'[d] = snap[d]
    BY <1>0, <1>3, CommitEffect
  <2> QED
    BY <2>1, <2>2
<1>4. ASSUME NEW c \in Calls, Refused(c) PROVE SnapshotsOK'
  BY <1>0, <1>4 DEF Refused, Finish
<1>5. ASSUME NEW c \in Calls, Shutdown(c) PROVE SnapshotsOK'
  BY <1>0, <1>5 DEF Shutdown, Start, Close
<1>6. ASSUME NEW c \in Calls, Observe(c) PROVE SnapshotsOK'
  <2>1. failures' = failures
    BY <1>6 DEF Observe
  <2>2. \A d \in Calls : stage'[d] = "acked" => stage[d] = "acked" /\ snap'[d] = snap[d]
    BY <1>0, <1>6 DEF Observe, Finish
  <2>3. confirmed' \in Nat /\ confirmed \in Nat /\ confirmed <= confirmed'
    <3>1. snap[c].through \in 0..Len(failures) /\ confirmed \in 0..Len(failures)
          /\ Len(failures) \in Nat
      BY <1>0, <1>6 DEF Observe
    <3>2. {confirmed, snap[c].through} \in SUBSET (0..Len(failures))
      BY <3>1
    <3>3. /\ Max({confirmed, snap[c].through}) \in {confirmed, snap[c].through}
          /\ confirmed <= Max({confirmed, snap[c].through})
      BY <3>1, <3>2, MaxFacts
    <3> QED
      BY <1>6, <3>1, <3>3 DEF Observe
  <2>4. \A d \in Calls : snap[d].through \in Nat /\ snap[d].failures \in Nat
    BY <1>0
  <2> QED
    BY <2>1, <2>2, <2>3, <2>4
<1>7. ASSUME NEW c \in Calls, AckLost(c) PROVE SnapshotsOK'
  BY <1>0, <1>7 DEF AckLost, Close
<1>8. ASSUME NEW c \in Calls, Join(c) PROVE SnapshotsOK'
  BY <1>0, <1>8 DEF Join, Finish
<1>9. ASSUME NEW c \in Calls, Cancel(c) PROVE SnapshotsOK'
  <2>1. UNCHANGED <<failures, confirmed>>
    BY <1>9, CancelEffect
  <2>2. \A d \in Calls : stage'[d] = "acked" =>
                                 stage[d] = "acked" /\ snap'[d] = snap[d]
    BY <1>0, <1>9, CancelEffect
  <2> QED
    BY <2>1, <2>2
<1>10. CASE DropBatcher
  BY <1>0, <1>10 DEF DropBatcher, Close
<1>11. CASE ProcessAdd
  <2>1. UNCHANGED <<failures, confirmed, snap>> /\ TakeHead /\ stage' = Handed
    BY <1>11, ProcessAddEffect
  <2>2. \A d \in Calls : Handed[d] = "acked" => stage[d] = "acked"
    BY <1>0, <2>1, HeadEffect
  <2> QED
    BY <2>1, <2>2
<1>12. CASE ProcessFlush
  <2>1. UNCHANGED <<failures, confirmed>> /\ TakeHead
    BY <1>12, ProcessFlushEffect
  <2>2. \A d \in Calls : Handed[d] = "acked" => stage[d] = "acked"
    BY <1>0, <2>1, HeadEffect
  <2>3. Handed \in [Calls -> Stages]
    BY <1>0, <2>1, HeadEffect DEF Stages
  <2>4. \/ stage' = Handed /\ snap' = snap
        \/ /\ stage' = [Handed EXCEPT ![Head(commands)] = "acked"]
           /\ snap' = [snap EXCEPT ![Head(commands)] =
                         [through |-> Len(failures),
                          failures |-> Len(failures) - confirmed]]
    BY <1>12, ProcessFlushEffect, AckEffect
  <2>5. ASSUME NEW d \in Calls, stage'[d] = "acked"
        PROVE  \/ stage[d] = "acked" /\ snap'[d] = snap[d]
               \/ snap'[d] = [through |-> Len(failures),
                              failures |-> Len(failures) - confirmed]
    BY <1>0, <2>2, <2>3, <2>4, <2>5
  <2>6. Len(failures) \in Nat /\ confirmed \in Nat /\ confirmed <= Len(failures)
    BY <1>0
  <2> QED
    BY <2>1, <2>5, <2>6
<1>13. CASE Tick
  BY <1>0, <1>13 DEF Tick
<1>14. CASE SeeClosing
  BY <1>0, <1>14 DEF SeeClosing
<1>15. CASE Drained
  BY <1>0, <1>15 DEF Drained
<1>16. CASE Submitted
  <2>1. confirmed' = confirmed
    BY <1>16, SubmittedEffect
  <2>2. \/ stage' = stage /\ snap' = snap
        \/ /\ stage' = [stage EXCEPT ![ackTo] = "acked"]
           /\ snap' = [snap EXCEPT ![ackTo] =
                         [through |-> Len(failures'),
                          failures |-> Len(failures') - confirmed]]
    BY <1>16, SubmittedEffect, AckEffect
  <2>3. ASSUME NEW d \in Calls, stage'[d] = "acked"
        PROVE  \/ stage[d] = "acked" /\ snap'[d] = snap[d]
               \/ snap'[d] = [through |-> Len(failures'),
                              failures |-> Len(failures') - confirmed]
    BY <1>0, <2>2, <2>3
  <2>4. /\ Len(failures) \in Nat /\ confirmed \in Nat /\ Len(failures') \in Nat
        /\ confirmed <= Len(failures) /\ Len(failures) <= Len(failures')
    <3>1. failures' = failures \/ failures' = Append(failures, ToSet(batch))
      BY <1>16, SubmittedEffect
    <3>2. Len(Append(failures, ToSet(batch))) = Len(failures) + 1
      BY <1>0
    <3> QED
      BY <1>0, <3>1, <3>2
  <2>5. \A d \in Calls : snap[d].through \in Nat /\ snap[d].failures \in Nat
    BY <1>0
  <2> QED
    BY <2>1, <2>3, <2>4, <2>5
<1>17. CASE WorkerDies
  BY <1>0, <1>17 DEF WorkerDies, Close
<1>18. CASE UNCHANGED vars
  BY <1>0, <1>18 DEF vars
<1> QED
  BY <1>1, <1>2, <1>3, <1>4, <1>5, <1>6, <1>7, <1>8, <1>9, <1>10, <1>11,
     <1>12, <1>13, <1>14, <1>15, <1>16, <1>17, <1>18
     DEF Next, Terminated

\* A confirmation takes in what its caller was told.
LEMMA SeenStep ==
  ASSUME TypeOK, SnapshotsOK, NothingConfirmedUnseen, [Next]_vars
  PROVE  NothingConfirmedUnseen'
<1> USE DEF SnapshotsOK, NothingConfirmedUnseen, CallTypes, Snapshots,
            LedgerTypes, queueVars, workVars, ledgerVars, callVars, history
<1>0. CallTypes /\ LedgerTypes
  BY TypeParts
<1>1. ASSUME NEW c \in Calls, TryAdd(c) PROVE NothingConfirmedUnseen'
  BY <1>1, TryAddEffect
<1>2. ASSUME NEW c \in Calls, Send(c) PROVE NothingConfirmedUnseen'
  BY <1>2, SendEffect
<1>3. ASSUME NEW c \in Calls, Commit(c) PROVE NothingConfirmedUnseen'
  BY <1>3, CommitEffect
<1>4. ASSUME NEW c \in Calls, Refused(c) PROVE NothingConfirmedUnseen'
  BY <1>0, <1>4 DEF Refused, Finish
<1>5. ASSUME NEW c \in Calls, Shutdown(c) PROVE NothingConfirmedUnseen'
  BY <1>0, <1>5 DEF Shutdown, Start, Close
<1>6. ASSUME NEW c \in Calls, Observe(c) PROVE NothingConfirmedUnseen'
  <2>1. /\ snap[c].failures <= snap[c].through
        /\ snap[c].through - snap[c].failures <= confirmed
        /\ snap[c].through \in Nat /\ snap[c].failures \in Nat
        /\ confirmed \in Nat /\ snap[c].through <= Len(failures)
        /\ confirmed <= Len(failures) /\ Len(failures) \in Nat
    BY <1>0, <1>6 DEF Observe
  <2>2. confirmed' \in {confirmed, snap[c].through}
    <3>1. {confirmed, snap[c].through} \in SUBSET (0..Len(failures))
      BY <2>1
    <3>2. Max({confirmed, snap[c].through}) \in {confirmed, snap[c].through}
      BY <2>1, <3>1, MaxFacts
    <3> QED
      BY <1>6, <3>2 DEF Observe
  <2>3. 1..confirmed' \subseteq
           1..confirmed \cup
             ((snap[c].through - snap[c].failures + 1)..snap[c].through)
    BY <2>1, <2>2
  <2> QED
    BY <1>6, <2>3 DEF Observe
<1>7. ASSUME NEW c \in Calls, AckLost(c) PROVE NothingConfirmedUnseen'
  BY <1>0, <1>7 DEF AckLost, Close
<1>8. ASSUME NEW c \in Calls, Join(c) PROVE NothingConfirmedUnseen'
  <2>1. DOMAIN failures = 1..Len(failures) /\ Len(failures) \in Nat
        /\ confirmed \in Nat /\ confirmed <= Len(failures)
    BY <1>0
  <2>2. 1..confirmed \subseteq DOMAIN failures
    BY <2>1
  <2> QED
    BY <1>8, <2>2 DEF Join
<1>9. ASSUME NEW c \in Calls, Cancel(c) PROVE NothingConfirmedUnseen'
  BY <1>9, CancelEffect
<1>10. CASE DropBatcher
  BY <1>0, <1>10 DEF DropBatcher, Close
<1>11. CASE ProcessAdd
  BY <1>11, ProcessAddEffect, HeadEffect
<1>12. CASE ProcessFlush
  BY <1>12, ProcessFlushEffect, HeadEffect, AckEffect
<1>13. CASE Tick
  BY <1>0, <1>13 DEF Tick
<1>14. CASE SeeClosing
  BY <1>0, <1>14 DEF SeeClosing
<1>15. CASE Drained
  BY <1>0, <1>15 DEF Drained
<1>16. CASE Submitted
  BY <1>16, SubmittedEffect, AckEffect
<1>17. CASE WorkerDies
  BY <1>0, <1>17 DEF WorkerDies, Close
<1>18. CASE UNCHANGED vars
  BY <1>0, <1>18 DEF vars
<1> QED
  BY <1>1, <1>2, <1>3, <1>4, <1>5, <1>6, <1>7, <1>8, <1>9, <1>10, <1>11,
     <1>12, <1>13, <1>14, <1>15, <1>16, <1>17, <1>18
     DEF Next, Terminated

\* The oldest waiting call leaves the others as they were.
LEMMA HandOver ==
  ASSUME TypeOK, WaitersOK, waiters # <<>>
  PROVE  /\ accepting
         /\ Head(waiters) \in Calls /\ stage[Head(waiters)] = "waiting"
         /\ \A i \in 1..Len(Tail(waiters)) :
              Tail(waiters)[i] # Head(waiters) /\ stage[Tail(waiters)[i]] = "waiting"
         /\ \A i, j \in 1..Len(Tail(waiters)) :
              Tail(waiters)[i] = Tail(waiters)[j] => i = j
<1>1. waiters \in Seq(Calls)
  BY TypeParts DEF QueueTypes
<1>2. /\ Len(waiters) \in Nat \ {0} /\ Len(Tail(waiters)) = Len(waiters) - 1
      /\ \A i \in 1..Len(Tail(waiters)) :
           Tail(waiters)[i] = waiters[i + 1] /\ i + 1 \in 1..Len(waiters)
      /\ Head(waiters) \in Calls /\ Head(waiters) = waiters[1]
  BY <1>1, TailFacts
<1>3. 1 \in 1..Len(waiters) /\ \A i \in 1..Len(Tail(waiters)) : i + 1 # 1
  BY <1>2
<1>4. \A i, j \in 1..Len(Tail(waiters)) : i + 1 = j + 1 => i = j
  BY <1>2
<1> QED
  BY <1>2, <1>3, <1>4 DEF WaitersOK

\* The waiting calls stay in their order, and a permit takes one out.
LEMMA WaitersStep ==
  ASSUME TypeOK, WaitersOK, [Next]_vars
  PROVE  WaitersOK'
<1> USE DEF WaitersOK, CallTypes, QueueTypes, queueVars, workVars,
            ledgerVars, callVars, history
<1>0. CallTypes /\ QueueTypes
  BY TypeParts
<1>1. ASSUME NEW c \in Calls, TryAdd(c) PROVE WaitersOK'
  <2>1. UNCHANGED <<waiters, accepting>> /\ stage[c] = "unused"
        /\ stage' = [stage EXCEPT ![c] = "done"]
    BY <1>1, TryAddEffect
  <2>2. \A i \in 1..Len(waiters) : waiters[i] \in Calls /\ waiters[i] # c
    BY <1>0, <2>1
  <2> QED
    BY <1>0, <2>1, <2>2
<1>2. ASSUME NEW c \in Calls, Send(c) PROVE WaitersOK'
  <2>1. \A i \in 1..Len(waiters) : waiters[i] \in Calls /\ waiters[i] # c
    BY <1>0, <1>2, SendEffect
  <2>2. CASE stage' = [stage EXCEPT ![c] = "waiting"] /\ waiters' = Append(waiters, c)
               /\ accepting
    <3>1. /\ Len(waiters') = Len(waiters) + 1 /\ waiters'[Len(waiters) + 1] = c
          /\ \A i \in 1..Len(waiters) : waiters'[i] = waiters[i]
          /\ Len(waiters) \in Nat
      BY <1>0, <2>2, AppendFacts
    <3>2. \A i \in 1..Len(waiters') :
             i = Len(waiters) + 1 \/ i \in 1..Len(waiters)
      BY <3>1
    <3>3. accepting' = accepting
      BY <1>2, SendEffect
    <3> QED
      BY <1>0, <2>1, <2>2, <3>1, <3>2, <3>3
  <2>3. CASE /\ waiters' = waiters
             /\ \/ stage' = [stage EXCEPT ![c] = "waiting"]
                \/ stage' = [stage EXCEPT ![c] = "reserved"]
    <3>1. accepting' = accepting
      BY <1>2, SendEffect
    <3>2. \A d \in Calls : d # c => stage'[d] = stage[d]
      BY <1>0, <2>3
    <3>3. \A i \in 1..Len(waiters) : stage'[waiters[i]] = "waiting"
      BY <1>0, <2>1, <3>2
    <3>4. waiters' = waiters
      BY <2>3
    <3> QED
      BY <1>0, <3>1, <3>3, <3>4
  <2> QED
    BY <1>2, <2>2, <2>3, SendEffect
<1>3. ASSUME NEW c \in Calls, Commit(c) PROVE WaitersOK'
  <2>1. UNCHANGED <<waiters, accepting>> /\ stage[c] = "reserved"
        /\ \/ stage' = [stage EXCEPT ![c] = "done"]
           \/ stage' = [stage EXCEPT ![c] = "awaiting"]
    BY <1>3, CommitEffect
  <2>2. \A i \in 1..Len(waiters) : waiters[i] \in Calls /\ waiters[i] # c
    BY <1>0, <2>1
  <2> QED
    BY <1>0, <2>1, <2>2
<1>4. ASSUME NEW c \in Calls, Refused(c) PROVE WaitersOK'
  <2>1. accepting' = accepting /\ waiters' = waiters /\ waiters = <<>>
    BY <1>4 DEF Refused
  <2>2. 1..Len(waiters') = {}
    BY <2>1
  <2> QED
    BY <2>1, <2>2
<1>5. ASSUME NEW c \in Calls, Shutdown(c) PROVE WaitersOK'
  <2>1. waiters' = <<>>
    BY <1>5 DEF Shutdown, Close
  <2>2. 1..Len(waiters') = {}
    BY <2>1
  <2> QED
    BY <2>1, <2>2
<1>6. ASSUME NEW c \in Calls, Observe(c) PROVE WaitersOK'
  <2>1. UNCHANGED <<waiters, accepting>> /\ stage[c] # "waiting"
        /\ stage' = [stage EXCEPT ![c] = "done"]
    BY <1>6 DEF Observe, Finish
  <2>2. \A i \in 1..Len(waiters) : waiters[i] \in Calls /\ waiters[i] # c
    BY <1>0, <2>1
  <2> QED
    BY <1>0, <2>1, <2>2
<1>7. ASSUME NEW c \in Calls, AckLost(c) PROVE WaitersOK'
  <2>1. waiters' = <<>>
    BY <1>7 DEF AckLost, Close
  <2>2. 1..Len(waiters') = {}
    BY <2>1
  <2> QED
    BY <2>1, <2>2
<1>8. ASSUME NEW c \in Calls, Join(c) PROVE WaitersOK'
  <2>1. UNCHANGED <<waiters, accepting>> /\ stage[c] # "waiting"
        /\ stage' = [stage EXCEPT ![c] = "done"]
    BY <1>8 DEF Join, Finish
  <2>2. \A i \in 1..Len(waiters) : waiters[i] \in Calls /\ waiters[i] # c
    BY <1>0, <2>1
  <2> QED
    BY <1>0, <2>1, <2>2
<1>9. ASSUME NEW c \in Calls, Cancel(c) PROVE WaitersOK'
  <2>1. accepting' = accepting
    BY <1>9, CancelEffect
  <2>2. CASE /\ stage[c] = "reserved" /\ waiters # <<>> /\ waiters' = Tail(waiters)
             /\ stage' = [stage EXCEPT ![c] = "done", ![Head(waiters)] = "reserved"]
    <3>1. Tail(waiters) \in Seq(Calls)
      BY <1>0, <2>2
    <3>2. \A i \in 1..Len(Tail(waiters)) :
             Tail(waiters)[i] \in Calls /\ Tail(waiters)[i] # c
      BY <2>2, <3>1, HandOver
    <3> QED
      BY <1>0, <2>1, <2>2, <3>2, HandOver
  <2>3. CASE /\ stage[c] = "waiting" /\ waiters' = Keep(waiters, Calls \ {c})
             /\ stage' = [stage EXCEPT ![c] = "done"]
    <3>1. waiters' \in Seq(Calls) /\ Range(waiters') = Range(waiters) \cap (Calls \ {c})
      BY <1>0, <2>3, KeepElement, KeepRange
    <3>2. \A i, j \in 1..Len(waiters') : waiters'[i] = waiters'[j] => i = j
      BY <1>0, <2>3, KeepInjective
    <3>3. \A i \in 1..Len(waiters') : waiters'[i] \in Range(waiters')
      BY <3>1 DEF Range
    <3>4. \A x \in Range(waiters) : stage[x] = "waiting"
      BY <1>0 DEF Range
    <3>5. \A i \in 1..Len(waiters') : stage'[waiters'[i]] = "waiting"
      BY <1>0, <2>3, <3>1, <3>3, <3>4
    <3>6. ~accepting' => waiters' = <<>>
      <4>1. ASSUME ~accepting' PROVE waiters' = <<>>
        <5>1. waiters = <<>>
          BY <2>1, <4>1
        <5>2. Len(waiters') <= Len(waiters)
          BY <1>0, <2>3, KeepElement
        <5>3. Len(waiters') = 0
          BY <3>1, <5>1, <5>2
        <5> QED
          BY <3>1, <5>3
      <4> QED
        BY <4>1
    <3> QED
      BY <3>2, <3>5, <3>6
  <2>4. CASE /\ waiters' = waiters /\ stage[c] # "waiting"
             /\ stage' = [stage EXCEPT ![c] = "done"]
    <3>1. \A i \in 1..Len(waiters) : waiters[i] \in Calls /\ waiters[i] # c
      BY <1>0, <2>4
    <3> QED
      BY <1>0, <2>1, <2>4, <3>1
  <2> QED
    BY <1>9, <2>2, <2>3, <2>4, CancelEffect
<1>10. CASE DropBatcher
  <2>1. waiters' = <<>>
    BY <1>10 DEF DropBatcher, Close
  <2>2. 1..Len(waiters') = {}
    BY <2>1
  <2> QED
    BY <2>1, <2>2
<1>11. CASE ProcessAdd
  <2>1. TakeHead /\ accepting' = accepting /\ stage' = Handed
    BY <1>11, ProcessAddEffect
  <2>2. /\ \A i, j \in 1..Len(waiters') : waiters'[i] = waiters'[j] => i = j
        /\ \A i \in 1..Len(waiters') :
              waiters'[i] \in Calls /\ Handed[waiters'[i]] = "waiting"
        /\ ~accepting => waiters' = <<>>
    <3>1. CASE waiters = <<>>
      BY <1>0, <2>1, <3>1, HeadEffect
    <3>2. CASE waiters # <<>>
      <4>1. Tail(waiters) \in Seq(Calls)
        BY <1>0, <3>2
      <4>2. /\ waiters' = Tail(waiters)
            /\ Handed = [stage EXCEPT ![Head(waiters)] = "reserved"]
        BY <2>1, <3>2, HeadEffect
      <4> QED
        BY <1>0, <3>2, <4>1, <4>2, HandOver
    <3> QED
      BY <3>1, <3>2
  <2> QED
    BY <2>1, <2>2
<1>12. CASE ProcessFlush
  <2>1. TakeHead /\ accepting' = accepting
    BY <1>12, ProcessFlushEffect
  <2>2. /\ \A i, j \in 1..Len(waiters') : waiters'[i] = waiters'[j] => i = j
        /\ \A i \in 1..Len(waiters') :
              waiters'[i] \in Calls /\ Handed[waiters'[i]] = "waiting"
        /\ ~accepting => waiters' = <<>>
    <3>1. CASE waiters = <<>>
      BY <1>0, <2>1, <3>1, HeadEffect
    <3>2. CASE waiters # <<>>
      <4>1. Tail(waiters) \in Seq(Calls)
        BY <1>0, <3>2
      <4>2. /\ waiters' = Tail(waiters)
            /\ Handed = [stage EXCEPT ![Head(waiters)] = "reserved"]
        BY <2>1, <3>2, HeadEffect
      <4> QED
        BY <1>0, <3>2, <4>1, <4>2, HandOver
    <3> QED
      BY <3>1, <3>2
  <2>3. Handed \in [Calls -> Stages]
    BY <1>0, <2>1, HeadEffect DEF Stages
  <2>4. \/ stage' = Handed
        \/ /\ Handed[Head(commands)] = "awaiting"
           /\ stage' = [Handed EXCEPT ![Head(commands)] = "acked"]
    BY <1>12, ProcessFlushEffect, AckEffect
  <2>5. \A d \in Calls : Handed[d] = "waiting" => stage'[d] = "waiting"
    BY <2>3, <2>4
  <2> QED
    BY <2>1, <2>2, <2>5
<1>13. CASE Tick
  BY <1>0, <1>13 DEF Tick
<1>14. CASE SeeClosing
  BY <1>0, <1>14 DEF SeeClosing
<1>15. CASE Drained
  BY <1>0, <1>15 DEF Drained
<1>16. CASE Submitted
  <2>1. UNCHANGED <<waiters, accepting>>
    BY <1>16, SubmittedEffect
  <2>2. \/ stage' = stage
        \/ stage[ackTo] = "awaiting" /\ stage' = [stage EXCEPT ![ackTo] = "acked"]
    BY <1>16, SubmittedEffect, AckEffect
  <2>3. \A d \in Calls : stage[d] = "waiting" => stage'[d] = "waiting"
    BY <1>0, <2>2
  <2>4. \A i \in 1..Len(waiters) : waiters[i] \in Calls
    BY <1>0
  <2> QED
    BY <2>1, <2>3, <2>4
<1>17. CASE WorkerDies
  <2>1. waiters' = <<>>
    BY <1>17 DEF WorkerDies, Close
  <2>2. 1..Len(waiters') = {}
    BY <2>1
  <2> QED
    BY <2>1, <2>2
<1>18. CASE UNCHANGED vars
  BY <1>0, <1>18 DEF vars
<1> QED
  BY <1>1, <1>2, <1>3, <1>4, <1>5, <1>6, <1>7, <1>8, <1>9, <1>10, <1>11,
     <1>12, <1>13, <1>14, <1>15, <1>16, <1>17, <1>18
     DEF Next, Terminated

\* The reserved calls, as a number.
LEMMA ReservedHeld ==
  /\ Cardinality(Reserved) = Cardinality(Held(stage))
  /\ Cardinality(Reserved') = Cardinality(Held(stage'))
  /\ Cardinality(Held(stage)) \in Nat /\ Cardinality(Held(stage')) \in Nat
<1>1. Reserved = Held(stage) /\ Reserved' = Held(stage')
  BY DEF Reserved, Held
<1> QED
  BY <1>1, HeldFinite

\* The permit of the head command is free, or with the oldest waiting call.
LEMMA HandedPermit ==
  ASSUME TypeOK, WaitersOK, PermitsKept, TakeHead
  PROVE  /\ slots' + Cardinality(Held(Handed))
              = slots + Cardinality(Held(stage)) + 1
         /\ waiters' # <<>> => slots' = 0
         /\ Len(commands') = Len(commands) - 1 /\ Len(commands) \in Nat
         /\ slots \in Nat /\ slots' \in Nat
         /\ Cardinality(Held(Handed)) \in Nat /\ Cardinality(Held(stage)) \in Nat
<1>1. /\ Cardinality(Held(stage)) \in Nat /\ Cardinality(Held(Handed)) \in Nat
      /\ slots \in Nat /\ stage \in [Calls -> Stages]
  BY HeldFinite, TypeParts DEF QueueTypes, CallTypes
<1>2. Len(commands') = Len(commands) - 1 /\ Len(commands) \in Nat
  <2>1. commands \in Seq(Calls) /\ commands # <<>> /\ commands' = Tail(commands)
    BY HeadEffect, TypeParts DEF QueueTypes
  <2> QED
    BY <2>1, TailFacts
<1>3. CASE waiters = <<>>
  <2>1. waiters' = <<>> /\ slots' = slots + 1 /\ Handed = stage
    BY <1>3, HeadEffect
  <2>2. Cardinality(Held(Handed)) = Cardinality(Held(stage))
    BY <2>1
  <2> QED
    BY <1>1, <1>2, <2>1, <2>2
<1>4. CASE waiters # <<>>
  <2>1. /\ slots' = slots /\ slots = 0
        /\ Handed = [stage EXCEPT ![Head(waiters)] = "reserved"]
    BY <1>4, HeadEffect DEF PermitsKept
  <2>2. Head(waiters) \in Calls /\ stage[Head(waiters)] = "waiting"
    BY <1>4, HandOver
  <2>3. /\ stage[Head(waiters)] # "reserved" /\ Handed[Head(waiters)] = "reserved"
        /\ \A d \in Calls \ {Head(waiters)} :
             Handed[d] = "reserved" <=> stage[d] = "reserved"
    BY <1>1, <2>1, <2>2
  <2>4. Cardinality(Held(Handed)) = Cardinality(Held(stage)) + 1
    BY <2>2, <2>3, HeldMore
  <2> QED
    BY <1>1, <1>2, <2>1, <2>4
<1> QED
  BY <1>3, <1>4

\* The permits of the queue are kept in number.
LEMMA PermitsCount ==
  ASSUME TypeOK, WaitersOK, PermitsKept, [Next]_vars
  PROVE  /\ slots' + Len(commands') + Cardinality(Held(stage')) = MaxEvents
         /\ waiters' # <<>> => slots' = 0
<1> USE DEF CallTypes, QueueTypes, queueVars, workVars, ledgerVars, callVars,
            history
<1>0. CallTypes /\ QueueTypes
  BY TypeParts
<1>a. /\ slots + Len(commands) + Cardinality(Held(stage)) = MaxEvents
       /\ Cardinality(Held(stage)) \in Nat /\ Cardinality(Held(stage')) \in Nat
       /\ slots \in Nat /\ Len(commands) \in Nat /\ MaxEvents \in Nat
  BY <1>0, ReservedHeld, BatcherAssumption DEF PermitsKept
<1>b. waiters # <<>> => slots = 0
  BY DEF PermitsKept
<1> DEFINE Kept == /\ slots' + Len(commands') + Cardinality(Held(stage')) = MaxEvents
                   /\ waiters' # <<>> => slots' = 0
<1>1. ASSUME NEW c \in Calls, TryAdd(c) PROVE Kept
  <2>1. /\ stage[c] = "unused" /\ stage' = [stage EXCEPT ![c] = "done"]
        /\ waiters' = waiters
    BY <1>1, TryAddEffect
  <2>2. Cardinality(Held(stage')) = Cardinality(Held(stage))
    <3>1. \A d \in Calls : stage'[d] = "reserved" <=> stage[d] = "reserved"
      BY <1>0, <2>1
    <3> QED
      BY <3>1, HeldSame
  <2>3. \/ slots' = slots /\ Len(commands') = Len(commands)
        \/ slots > 0 /\ slots' = slots - 1 /\ Len(commands') = Len(commands) + 1
    <3>1. CASE slots' = slots /\ commands' = commands
      BY <3>1
    <3>2. CASE slots > 0 /\ slots' = slots - 1 /\ commands' = Append(commands, c)
      BY <1>0, <3>2
    <3>3. CASE /\ slots' = slots /\ Oldest <= Len(commands)
               /\ commands' = Append(RemoveAt(commands, Oldest), c)
      <4>1. Oldest \in 1..Len(commands)
        BY <3>3, OldestFacts
      <4>2. /\ RemoveAt(commands, Oldest) \in Seq(Calls)
            /\ Len(RemoveAt(commands, Oldest)) = Len(commands) - 1
        BY <1>0, <4>1, RemoveAtFacts
      <4>3. Len(commands') = Len(RemoveAt(commands, Oldest)) + 1
        BY <3>3, <4>2, AppendFacts
      <4> QED
        BY <1>a, <3>3, <4>2, <4>3
    <3> QED
      BY <1>1, <3>1, <3>2, <3>3, TryAddEffect
  <2>8. slots' + Len(commands') + Cardinality(Held(stage')) = MaxEvents
    BY <1>a, <2>1, <2>2, <2>3
  <2>9. waiters' # <<>> => slots' = 0
    BY <1>b, <2>1, <2>2, <2>3
  <2> QED
    BY <2>8, <2>9
<1>2. ASSUME NEW c \in Calls, Send(c) PROVE Kept
  <2>1. stage[c] = "unused" /\ commands' = commands
    BY <1>2, SendEffect
  <2>2. CASE /\ slots > 0 /\ slots' = slots - 1 /\ waiters' = waiters
             /\ stage' = [stage EXCEPT ![c] = "reserved"]
    <3>1. /\ stage[c] # "reserved" /\ stage'[c] = "reserved"
          /\ \A d \in Calls \ {c} : stage'[d] = "reserved" <=> stage[d] = "reserved"
      BY <1>0, <2>1, <2>2
    <3>2. Cardinality(Held(stage')) = Cardinality(Held(stage)) + 1
      BY <3>1, HeldMore
    <3>8. slots' + Len(commands') + Cardinality(Held(stage')) = MaxEvents
      BY <1>a, <2>1, <2>2, <3>2
    <3>9. waiters' # <<>> => slots' = 0
      BY <1>b, <2>1, <2>2, <3>2
    <3> QED
      BY <3>8, <3>9
  <2>3. CASE /\ slots' = slots
             /\ slots = 0 \/ waiters' = waiters
             /\ stage' = [stage EXCEPT ![c] = "waiting"]
    <3>1. \A d \in Calls : stage'[d] = "reserved" <=> stage[d] = "reserved"
      BY <1>0, <2>1, <2>3
    <3>2. Cardinality(Held(stage')) = Cardinality(Held(stage))
      BY <3>1, HeldSame
    <3>8. slots' + Len(commands') + Cardinality(Held(stage')) = MaxEvents
      BY <1>a, <2>1, <2>3, <3>2
    <3>9. waiters' # <<>> => slots' = 0
      BY <1>b, <2>1, <2>3, <3>2
    <3> QED
      BY <3>8, <3>9
  <2> QED
    BY <1>2, <2>2, <2>3, SendEffect
<1>3. ASSUME NEW c \in Calls, Commit(c) PROVE Kept
  <2>1. /\ stage[c] = "reserved" /\ UNCHANGED <<slots, waiters>>
        /\ commands' = Append(commands, c)
        /\ \/ stage' = [stage EXCEPT ![c] = "done"]
           \/ stage' = [stage EXCEPT ![c] = "awaiting"]
    BY <1>3, CommitEffect
  <2>2. Len(commands') = Len(commands) + 1
    BY <1>0, <2>1
  <2>3. /\ stage'[c] # "reserved"
        /\ \A d \in Calls \ {c} : stage[d] = "reserved" <=> stage'[d] = "reserved"
    BY <1>0, <2>1
  <2>4. Cardinality(Held(stage)) = Cardinality(Held(stage')) + 1
    BY <2>1, <2>3, HeldMore
  <2>8. slots' + Len(commands') + Cardinality(Held(stage')) = MaxEvents
    BY <1>a, <2>1, <2>2, <2>4
  <2>9. waiters' # <<>> => slots' = 0
    BY <1>b, <2>1, <2>2, <2>4
  <2> QED
    BY <2>8, <2>9
<1>4. ASSUME NEW c \in Calls, Refused(c) PROVE Kept
  <2>1. /\ UNCHANGED <<waiters, commands>> /\ ~accepting
        /\ slots' = IF stage[c] = "reserved" THEN slots + 1 ELSE slots
        /\ \/ stage' = [stage EXCEPT ![c] = "done"]
           \/ stage' = [stage EXCEPT ![c] = "joining"]
    BY <1>4 DEF Refused, Finish
  <2>2. waiters' = <<>>
    BY <2>1 DEF WaitersOK
  <2>3. CASE stage[c] = "reserved"
    <3>1. /\ stage'[c] # "reserved"
          /\ \A d \in Calls \ {c} : stage[d] = "reserved" <=> stage'[d] = "reserved"
      BY <1>0, <2>1
    <3>2. Cardinality(Held(stage)) = Cardinality(Held(stage')) + 1
      BY <2>3, <3>1, HeldMore
    <3>8. slots' + Len(commands') + Cardinality(Held(stage')) = MaxEvents
      BY <1>a, <2>1, <2>2, <2>3, <3>2
    <3>9. waiters' # <<>> => slots' = 0
      BY <1>b, <2>1, <2>2, <2>3, <3>2
    <3> QED
      BY <3>8, <3>9
  <2>4. CASE stage[c] # "reserved"
    <3>1. \A d \in Calls : stage'[d] = "reserved" <=> stage[d] = "reserved"
      BY <1>0, <2>1, <2>4
    <3>2. Cardinality(Held(stage')) = Cardinality(Held(stage))
      BY <3>1, HeldSame
    <3>8. slots' + Len(commands') + Cardinality(Held(stage')) = MaxEvents
      BY <1>a, <2>1, <2>2, <2>4, <3>2
    <3>9. waiters' # <<>> => slots' = 0
      BY <1>b, <2>1, <2>2, <2>4, <3>2
    <3> QED
      BY <3>8, <3>9
  <2> QED
    BY <2>3, <2>4
<1>5. ASSUME NEW c \in Calls, Shutdown(c) PROVE Kept
  <2>1. /\ stage[c] = "unused" /\ stage' = [stage EXCEPT ![c] = "joining"]
        /\ UNCHANGED <<slots, commands>> /\ waiters' = <<>>
    BY <1>5 DEF Shutdown, Start, Close
  <2>2. Cardinality(Held(stage')) = Cardinality(Held(stage))
    <3>1. \A d \in Calls : stage'[d] = "reserved" <=> stage[d] = "reserved"
      BY <1>0, <2>1
    <3> QED
      BY <3>1, HeldSame
  <2>8. slots' + Len(commands') + Cardinality(Held(stage')) = MaxEvents
    BY <1>a, <2>1, <2>2
  <2>9. waiters' # <<>> => slots' = 0
    BY <1>b, <2>1, <2>2
  <2> QED
    BY <2>8, <2>9
<1>6. ASSUME NEW c \in Calls, Observe(c) PROVE Kept
  <2>1. /\ stage[c] = "acked" /\ stage' = [stage EXCEPT ![c] = "done"]
        /\ UNCHANGED <<slots, commands, waiters>>
    BY <1>6 DEF Observe, Finish
  <2>2. Cardinality(Held(stage')) = Cardinality(Held(stage))
    <3>1. \A d \in Calls : stage'[d] = "reserved" <=> stage[d] = "reserved"
      BY <1>0, <2>1
    <3> QED
      BY <3>1, HeldSame
  <2>8. slots' + Len(commands') + Cardinality(Held(stage')) = MaxEvents
    BY <1>a, <2>1, <2>2
  <2>9. waiters' # <<>> => slots' = 0
    BY <1>b, <2>1, <2>2
  <2> QED
    BY <2>8, <2>9
<1>7. ASSUME NEW c \in Calls, AckLost(c) PROVE Kept
  <2>1. /\ stage[c] = "lost" /\ stage' = [stage EXCEPT ![c] = "joining"]
        /\ UNCHANGED <<slots, commands>> /\ waiters' = <<>>
    BY <1>7 DEF AckLost, Close
  <2>2. Cardinality(Held(stage')) = Cardinality(Held(stage))
    <3>1. \A d \in Calls : stage'[d] = "reserved" <=> stage[d] = "reserved"
      BY <1>0, <2>1
    <3> QED
      BY <3>1, HeldSame
  <2>8. slots' + Len(commands') + Cardinality(Held(stage')) = MaxEvents
    BY <1>a, <2>1, <2>2
  <2>9. waiters' # <<>> => slots' = 0
    BY <1>b, <2>1, <2>2
  <2> QED
    BY <2>8, <2>9
<1>8. ASSUME NEW c \in Calls, Join(c) PROVE Kept
  <2>1. /\ stage[c] = "joining" /\ stage' = [stage EXCEPT ![c] = "done"]
        /\ UNCHANGED <<slots, commands, waiters>>
    BY <1>8 DEF Join, Finish
  <2>2. Cardinality(Held(stage')) = Cardinality(Held(stage))
    <3>1. \A d \in Calls : stage'[d] = "reserved" <=> stage[d] = "reserved"
      BY <1>0, <2>1
    <3> QED
      BY <3>1, HeldSame
  <2>8. slots' + Len(commands') + Cardinality(Held(stage')) = MaxEvents
    BY <1>a, <2>1, <2>2
  <2>9. waiters' # <<>> => slots' = 0
    BY <1>b, <2>1, <2>2
  <2> QED
    BY <2>8, <2>9
<1>9. ASSUME NEW c \in Calls, Cancel(c) PROVE Kept
  <2>1. commands' = commands
    BY <1>9, CancelEffect
  <2>2. CASE /\ stage[c] = "reserved" /\ waiters # <<>> /\ slots' = slots
             /\ stage' = [stage EXCEPT ![c] = "done", ![Head(waiters)] = "reserved"]
    <3> DEFINE given == [stage EXCEPT ![c] = "done"]
               h == Head(waiters)
    <3>1. h \in Calls /\ stage[h] = "waiting" /\ slots = 0
      BY <2>2, HandOver DEF PermitsKept
    <3>2. /\ given[c] # "reserved" /\ given[h] # "reserved" /\ stage'[h] = "reserved"
          /\ \A d \in Calls \ {c} : stage[d] = "reserved" <=> given[d] = "reserved"
          /\ \A d \in Calls \ {h} : stage'[d] = "reserved" <=> given[d] = "reserved"
      BY <1>0, <2>2, <3>1
    <3> HIDE DEF given, h
    <3>3. Cardinality(Held(stage)) = Cardinality(Held(given)) + 1
      BY <2>2, <3>2, HeldMore
    <3>4. Cardinality(Held(stage')) = Cardinality(Held(given)) + 1
      BY <3>1, <3>2, HeldMore
    <3>8. slots' + Len(commands') + Cardinality(Held(stage')) = MaxEvents
      BY <1>a, <2>1, <2>2, <3>1, <3>3, <3>4
    <3>9. waiters' # <<>> => slots' = 0
      BY <1>b, <2>1, <2>2, <3>1, <3>3, <3>4
    <3> QED
      BY <3>8, <3>9
  <2>3. CASE /\ stage[c] = "reserved" /\ waiters' = waiters /\ waiters = <<>>
             /\ slots' = slots + 1 /\ stage' = [stage EXCEPT ![c] = "done"]
    <3>1. /\ stage'[c] # "reserved"
          /\ \A d \in Calls \ {c} : stage[d] = "reserved" <=> stage'[d] = "reserved"
      BY <1>0, <2>3
    <3>2. Cardinality(Held(stage)) = Cardinality(Held(stage')) + 1
      BY <2>3, <3>1, HeldMore
    <3>8. slots' + Len(commands') + Cardinality(Held(stage')) = MaxEvents
      BY <1>a, <2>1, <2>3, <3>2
    <3>9. waiters' # <<>> => slots' = 0
      BY <1>b, <2>1, <2>3, <3>2
    <3> QED
      BY <3>8, <3>9
  <2>4. CASE /\ stage[c] # "reserved" /\ slots' = slots
             /\ stage' = [stage EXCEPT ![c] = "done"]
             /\ waiters' = Keep(waiters, Calls \ {c}) \/ waiters' = waiters
    <3>1. \A d \in Calls : stage'[d] = "reserved" <=> stage[d] = "reserved"
      BY <1>0, <2>4
    <3>2. Cardinality(Held(stage')) = Cardinality(Held(stage))
      BY <3>1, HeldSame
    <3>3. waiters' # <<>> => waiters # <<>>
      <4>1. ASSUME waiters = <<>> PROVE Keep(waiters, Calls \ {c}) = <<>>
        <5>1. /\ Keep(waiters, Calls \ {c}) \in Seq(Calls)
              /\ Len(Keep(waiters, Calls \ {c})) <= Len(waiters)
          BY <1>0, KeepElement
        <5>2. Len(Keep(waiters, Calls \ {c})) = 0
          BY <4>1, <5>1
        <5> QED
          BY <5>1, <5>2
      <4> QED
        BY <2>4, <4>1
    <3>8. slots' + Len(commands') + Cardinality(Held(stage')) = MaxEvents
      BY <1>a, <2>1, <2>4, <3>2, <3>3
    <3>9. waiters' # <<>> => slots' = 0
      BY <1>b, <2>1, <2>4, <3>2, <3>3
    <3> QED
      BY <3>8, <3>9
  <2> QED
    BY <1>9, <2>2, <2>3, <2>4, CancelEffect
<1>10. CASE DropBatcher
  <2>1. /\ stage' = stage /\ UNCHANGED <<slots, commands>>
        /\ waiters' = waiters \/ waiters' = <<>>
    BY <1>10 DEF DropBatcher, Close
  <2>2. Cardinality(Held(stage')) = Cardinality(Held(stage))
    BY <2>1
  <2>8. slots' + Len(commands') + Cardinality(Held(stage')) = MaxEvents
    BY <1>a, <2>1, <2>2
  <2>9. waiters' # <<>> => slots' = 0
    BY <1>b, <2>1, <2>2
  <2> QED
    BY <2>8, <2>9
<1>11. CASE ProcessAdd
  <2>1. TakeHead /\ stage' = Handed
    BY <1>11, ProcessAddEffect
  <2>2. Cardinality(Held(stage')) = Cardinality(Held(Handed))
    BY <2>1
  <2>8. slots' + Len(commands') + Cardinality(Held(stage')) = MaxEvents
    BY <1>a, <2>1, <2>2, HandedPermit
  <2>9. waiters' # <<>> => slots' = 0
    BY <1>b, <2>1, <2>2, HandedPermit
  <2> QED
    BY <2>8, <2>9
<1>12. CASE ProcessFlush
  <2>1. TakeHead
    BY <1>12, ProcessFlushEffect
  <2>3. Handed \in [Calls -> Stages]
    BY <1>0, <2>1, HeadEffect DEF Stages
  <2>4. \/ stage' = Handed
        \/ /\ Handed[Head(commands)] = "awaiting"
           /\ stage' = [Handed EXCEPT ![Head(commands)] = "acked"]
    BY <1>12, ProcessFlushEffect, AckEffect
  <2>5. \A d \in Calls : stage'[d] = "reserved" <=> Handed[d] = "reserved"
    BY <2>3, <2>4
  <2>6. Cardinality(Held(stage')) = Cardinality(Held(Handed))
    BY <2>5, HeldSame
  <2>8. slots' + Len(commands') + Cardinality(Held(stage')) = MaxEvents
    BY <1>a, <2>1, <2>6, HandedPermit
  <2>9. waiters' # <<>> => slots' = 0
    BY <1>b, <2>1, <2>6, HandedPermit
  <2> QED
    BY <2>8, <2>9
<1>13. CASE Tick
  <2>1. /\ stage' = stage /\ UNCHANGED <<slots, commands>>
        /\ waiters' = waiters \/ waiters' = <<>>
    BY <1>13 DEF Tick
  <2>2. Cardinality(Held(stage')) = Cardinality(Held(stage))
    BY <2>1
  <2>8. slots' + Len(commands') + Cardinality(Held(stage')) = MaxEvents
    BY <1>a, <2>1, <2>2
  <2>9. waiters' # <<>> => slots' = 0
    BY <1>b, <2>1, <2>2
  <2> QED
    BY <2>8, <2>9
<1>14. CASE SeeClosing
  <2>1. /\ stage' = stage /\ UNCHANGED <<slots, commands>>
        /\ waiters' = waiters \/ waiters' = <<>>
    BY <1>14 DEF SeeClosing
  <2>2. Cardinality(Held(stage')) = Cardinality(Held(stage))
    BY <2>1
  <2>8. slots' + Len(commands') + Cardinality(Held(stage')) = MaxEvents
    BY <1>a, <2>1, <2>2
  <2>9. waiters' # <<>> => slots' = 0
    BY <1>b, <2>1, <2>2
  <2> QED
    BY <2>8, <2>9
<1>15. CASE Drained
  <2>1. /\ stage' = stage /\ UNCHANGED <<slots, commands>>
        /\ waiters' = waiters \/ waiters' = <<>>
    BY <1>15 DEF Drained
  <2>2. Cardinality(Held(stage')) = Cardinality(Held(stage))
    BY <2>1
  <2>8. slots' + Len(commands') + Cardinality(Held(stage')) = MaxEvents
    BY <1>a, <2>1, <2>2
  <2>9. waiters' # <<>> => slots' = 0
    BY <1>b, <2>1, <2>2
  <2> QED
    BY <2>8, <2>9
<1>16. CASE Submitted
  <2>1. UNCHANGED <<slots, commands, waiters>>
    BY <1>16, SubmittedEffect
  <2>2. \/ stage' = stage
        \/ stage[ackTo] = "awaiting" /\ stage' = [stage EXCEPT ![ackTo] = "acked"]
    BY <1>16, SubmittedEffect, AckEffect
  <2>3. \A d \in Calls : stage'[d] = "reserved" <=> stage[d] = "reserved"
    BY <1>0, <2>2
  <2>4. Cardinality(Held(stage')) = Cardinality(Held(stage))
    BY <2>3, HeldSame
  <2>8. slots' + Len(commands') + Cardinality(Held(stage')) = MaxEvents
    BY <1>a, <2>1, <2>4
  <2>9. waiters' # <<>> => slots' = 0
    BY <1>b, <2>1, <2>4
  <2> QED
    BY <2>8, <2>9
<1>17. CASE WorkerDies
  <2>1. /\ stage' = [c \in Calls |->
                       IF stage[c] = "awaiting" THEN "lost" ELSE stage[c]]
        /\ waiters' = <<>> /\ commands' = <<>> /\ slots' = slots + Len(commands)
    BY <1>17 DEF WorkerDies, Close
  <2>2. Cardinality(Held(stage')) = Cardinality(Held(stage))
    <3>1. \A d \in Calls : stage'[d] = "reserved" <=> stage[d] = "reserved"
      BY <1>0, <2>1
    <3> QED
      BY <3>1, HeldSame
  <2>3. Len(commands') = 0
    BY <2>1
  <2>8. slots' + Len(commands') + Cardinality(Held(stage')) = MaxEvents
    BY <1>a, <2>1, <2>2, <2>3
  <2>9. waiters' # <<>> => slots' = 0
    BY <1>b, <2>1, <2>2, <2>3
  <2> QED
    BY <2>8, <2>9
<1>18. CASE UNCHANGED vars
  <2>1. /\ stage' = stage /\ UNCHANGED <<slots, commands, waiters>>
    BY <1>18 DEF vars
  <2>2. Cardinality(Held(stage')) = Cardinality(Held(stage))
    BY <2>1
  <2>8. slots' + Len(commands') + Cardinality(Held(stage')) = MaxEvents
    BY <1>a, <2>1, <2>2
  <2>9. waiters' # <<>> => slots' = 0
    BY <1>b, <2>1, <2>2
  <2> QED
    BY <2>8, <2>9
<1> QED
  BY <1>1, <1>2, <1>3, <1>4, <1>5, <1>6, <1>7, <1>8, <1>9, <1>10, <1>11,
     <1>12, <1>13, <1>14, <1>15, <1>16, <1>17, <1>18
     DEF Next, Terminated

\* The permits are kept in number.
LEMMA PermitsStep ==
  ASSUME TypeOK, WaitersOK, PermitsKept, [Next]_vars
  PROVE  PermitsKept'
BY PermitsCount, ReservedHeld DEF PermitsKept

\* The set of a sequence.
LEMMA InSet ==
  ASSUME NEW T, NEW s \in Seq(T)
  PROVE  /\ ToSet(s) = {s[i] : i \in 1..Len(s)} /\ ToSet(s) \subseteq T
         /\ Len(s) \in Nat
BY DEF ToSet

\* Each command but the removed one stays.
LEMMA RemoveAtSet ==
  ASSUME NEW T, NEW s \in Seq(T), NEW p \in 1..Len(s),
         \A i, j \in 1..Len(s) : s[i] = s[j] => i = j
  PROVE  /\ ToSet(RemoveAt(s, p)) = ToSet(s) \ {s[p]}
         /\ LET r == RemoveAt(s, p)
            IN  \A i, j \in 1..Len(r) : r[i] = r[j] => i = j
<1> DEFINE r == RemoveAt(s, p)
<1>1. /\ r \in Seq(T) /\ Len(r) = Len(s) - 1
      /\ \A i \in 1..(Len(s) - 1) : r[i] = IF i < p THEN s[i] ELSE s[i + 1]
      /\ Len(s) \in Nat /\ p \in Nat
  BY RemoveAtFacts, InSet
<1>2. ToSet(r) = {r[i] : i \in 1..Len(r)} /\ ToSet(s) = {s[i] : i \in 1..Len(s)}
  BY <1>1, InSet
<1> HIDE DEF r
<1>3. ASSUME NEW i \in 1..Len(r) PROVE r[i] \in ToSet(s) \ {s[p]}
  <2>1. CASE i < p
    <3>1. r[i] = s[i] /\ i \in 1..Len(s) /\ i # p
      BY <1>1, <2>1
    <3> QED
      BY <1>2, <3>1
  <2>2. CASE ~(i < p)
    <3>1. r[i] = s[i + 1] /\ i + 1 \in 1..Len(s) /\ i + 1 # p
      BY <1>1, <2>2
    <3> QED
      BY <1>2, <3>1
  <2> QED
    BY <2>1, <2>2
<1>4. ASSUME NEW i \in 1..Len(s), i # p PROVE s[i] \in ToSet(r)
  <2>1. CASE i < p
    <3>1. i \in 1..Len(r) /\ r[i] = s[i]
      BY <1>1, <2>1
    <3> QED
      BY <1>2, <3>1
  <2>2. CASE ~(i < p)
    <3>1. i - 1 \in 1..Len(r) /\ ~(i - 1 < p) /\ (i - 1) + 1 = i
      BY <1>1, <1>4, <2>2
    <3>2. r[i - 1] = s[i]
      BY <1>1, <3>1
    <3> QED
      BY <1>2, <3>1, <3>2
  <2> QED
    BY <2>1, <2>2
<1>5. ASSUME NEW i \in 1..Len(r), NEW j \in 1..Len(r), r[i] = r[j] PROVE i = j
  <2> DEFINE at(k) == IF k < p THEN k ELSE k + 1
  <2>1. /\ at(i) \in 1..Len(s) /\ at(j) \in 1..Len(s)
        /\ s[at(i)] = r[i] /\ s[at(j)] = r[j]
    BY <1>1
  <2>2. at(i) = at(j)
    BY <1>5, <2>1
  <2> QED
    BY <1>1, <2>2
<1>6. ToSet(r) = ToSet(s) \ {s[p]}
  <2>1. ToSet(r) \subseteq ToSet(s) \ {s[p]}
    BY <1>2, <1>3
  <2>2. ASSUME NEW x \in ToSet(s) \ {s[p]} PROVE x \in ToSet(r)
    <3>1. PICK i \in 1..Len(s) : x = s[i]
      BY <1>2
    <3>2. i # p
      BY <2>2, <3>1
    <3> QED
      BY <1>4, <3>1, <3>2
  <2> QED
    BY <2>1, <2>2
<1> QED
  BY <1>5, <1>6 DEF r

\* A new element repeats nothing.
LEMMA AppendOnce ==
  ASSUME NEW T, NEW s \in Seq(T), NEW x \in T, x \notin ToSet(s),
         \A i, j \in 1..Len(s) : s[i] = s[j] => i = j,
         NEW r, r = Append(s, x)
  PROVE  \A i, j \in 1..Len(r) : r[i] = r[j] => i = j
<1>1. /\ Len(r) = Len(s) + 1 /\ r[Len(s) + 1] = x
      /\ \A i \in 1..Len(s) : r[i] = s[i] /\ s[i] # x
      /\ Len(s) \in Nat
  BY AppendFacts, InSet
<1>2. \A i \in 1..Len(r) : i \in 1..Len(s) \/ i = Len(s) + 1
  BY <1>1
<1>3. ASSUME NEW i \in 1..Len(r), NEW j \in 1..Len(r), r[i] = r[j] PROVE i = j
  <2>1. CASE i \in 1..Len(s) /\ j \in 1..Len(s)
    BY <1>1, <1>3, <2>1
  <2>2. CASE i = Len(s) + 1 /\ j = Len(s) + 1
    BY <2>2
  <2>3. ~(i \in 1..Len(s) /\ j = Len(s) + 1)
    BY <1>1, <1>3
  <2>4. ~(j \in 1..Len(s) /\ i = Len(s) + 1)
    BY <1>1, <1>3
  <2> QED
    BY <1>2, <2>1, <2>2, <2>3, <2>4
<1> QED
  BY <1>3

\* A call that is not queued queues its command.
LEMMA OnceMore ==
  ASSUME NEW s \in Seq(Calls), NEW c \in Calls, c \notin ToSet(s),
         \A i, j \in 1..Len(s) : s[i] = s[j] => i = j,
         commands' = Append(s, c)
  PROVE  OnceEach'
<1> DEFINE r == commands'
<1>1. \A i, j \in 1..Len(r) : r[i] = r[j] => i = j
  <2>1. r = Append(s, c)
    OBVIOUS
  <2> HIDE DEF r
  <2> QED
    BY <2>1, AppendOnce
<1> QED
  BY <1>1 DEF OnceEach

\* One more admitted event, and one in place of another.
LEMMA OneMore ==
  ASSUME NEW A, NEW R, NEW P, NEW E, NEW c, A \ R = P \cup E, c \notin R
  PROVE  (A \cup {c}) \ R = P \cup (E \cup {c})
OBVIOUS

\* One more admitted event in place of another.
LEMMA OneForAnother ==
  ASSUME NEW A, NEW R, NEW P, NEW E, NEW c, A \ R = P \cup E, c \notin R,
         NEW o \in E, o # c, o \notin P
  PROVE  (A \cup {c}) \ (R \cup {o}) = P \cup ((E \ {o}) \cup {c})
OBVIOUS

\* What an admission changes, as sets.
LEMMA TryAddSets ==
  ASSUME TypeOK, OnceEach, NEW c \in Calls, TryAdd(c)
  PROVE  \/ UNCHANGED <<commands, accepted, replaced>>
         \/ /\ accepting /\ ToSet(commands') = ToSet(commands) \cup {c}
            /\ ToSet(accepted') = ToSet(accepted) \cup {c} /\ replaced' = replaced
            /\ commands' = Append(commands, c)
         \/ \E p \in 1..Len(commands) :
              /\ accepting
              /\ \A i \in 1..Len(commands) : op[commands[i]] = "flush" => i < p
              /\ ToSet(commands') = (ToSet(commands) \ {commands[p]}) \cup {c}
              /\ commands' = Append(RemoveAt(commands, p), c)
              /\ ToSet(accepted') = ToSet(accepted) \cup {c}
              /\ replaced' = replaced \cup {commands[p]}
<1>1. commands \in Seq(Calls) /\ accepted \in Seq(Calls)
  BY TypeParts DEF QueueTypes, HistoryTypes
<1>2. CASE UNCHANGED <<commands, accepted, replaced>>
  BY <1>2
<1>3. CASE accepting /\ commands' = Append(commands, c)
             /\ accepted' = Append(accepted, c) /\ replaced' = replaced
  BY <1>1, <1>3, AppendFacts
<1>4. CASE /\ accepting /\ Oldest <= Len(commands)
           /\ commands' = Append(RemoveAt(commands, Oldest), c)
           /\ accepted' = Append(accepted, c)
           /\ replaced' = replaced \cup {commands[Oldest]}
  <2>1. /\ Oldest \in 1..Len(commands)
        /\ \A i \in 1..Len(commands) : op[commands[i]] = "flush" => i < Oldest
    BY <1>4, OldestFacts
  <2>2. /\ RemoveAt(commands, Oldest) \in Seq(Calls)
        /\ ToSet(RemoveAt(commands, Oldest)) = ToSet(commands) \ {commands[Oldest]}
    BY <1>1, <2>1, RemoveAtFacts, RemoveAtSet DEF OnceEach
  <2>3. /\ ToSet(commands') = (ToSet(commands) \ {commands[Oldest]}) \cup {c}
        /\ ToSet(accepted') = ToSet(accepted) \cup {c}
    BY <1>1, <1>4, <2>2, AppendFacts
  <2> QED
    BY <1>4, <2>1, <2>3
<1> QED
  BY <1>2, <1>3, <1>4, TryAddEffect

\* What a commit changes, as sets.
LEMMA CommitSets ==
  ASSUME TypeOK, NEW c \in Calls, Commit(c)
  PROVE  /\ ToSet(commands') = ToSet(commands) \cup {c}
         /\ \/ op[c] = "flush" /\ accepted' = accepted
            \/ op[c] # "flush" /\ ToSet(accepted') = ToSet(accepted) \cup {c}
<1>1. commands \in Seq(Calls) /\ accepted \in Seq(Calls)
  BY TypeParts DEF QueueTypes, HistoryTypes
<1>2. /\ ToSet(Append(commands, c)) = ToSet(commands) \cup {c}
      /\ ToSet(Append(accepted, c)) = ToSet(accepted) \cup {c}
  BY <1>1, AppendFacts
<1> QED
  BY <1>2, CommitEffect

\* The head leaves the queue and nothing else does.
LEMMA HeadSets ==
  ASSUME TypeOK, OnceEach, TakeHead
  PROVE  /\ Head(commands) \in ToSet(commands) /\ Head(commands) = commands[1]
         /\ ToSet(commands') = ToSet(commands) \ {Head(commands)}
         /\ Len(commands) \in Nat \ {0} /\ Len(commands') = Len(commands) - 1
         /\ \A i \in 1..Len(commands') :
              commands'[i] = commands[i + 1] /\ i + 1 \in 1..Len(commands)
         /\ OnceEach'
<1>1. commands \in Seq(Calls) /\ commands # <<>> /\ commands' = Tail(commands)
  BY HeadEffect, TypeParts DEF QueueTypes
<1>2. /\ commands' \in Seq(Calls) /\ Len(commands) \in Nat \ {0}
      /\ Len(commands') = Len(commands) - 1
      /\ \A i \in 1..Len(commands') :
           commands'[i] = commands[i + 1] /\ i + 1 \in 1..Len(commands)
      /\ Head(commands) = commands[1]
      /\ ToSet(commands) = ToSet(commands') \cup {Head(commands)}
  BY <1>1, TailFacts
<1>3. ToSet(commands') = {commands'[i] : i \in 1..Len(commands')}
  BY <1>2, InSet
<1>4. \A i \in 1..Len(commands') : i + 1 # 1 /\ 1 \in 1..Len(commands)
  BY <1>2
<1>5. Head(commands) \notin ToSet(commands')
  BY <1>2, <1>3, <1>4 DEF OnceEach
<1>6. \A i, j \in 1..Len(commands') : i + 1 = j + 1 => i = j
  BY <1>2
<1>7. OnceEach'
  BY <1>2, <1>6 DEF OnceEach
<1> QED
  BY <1>2, <1>5, <1>7

\* What the worker's receipt of an event changes, as sets.
LEMMA ProcessAddSets ==
  ASSUME TypeOK, OnceEach, ProcessAdd
  PROVE  /\ TakeHead /\ op[Head(commands)] # "flush" /\ ToSet(batch) = {}
         /\ ToSet(batch') \cup ToSet(buffer') = ToSet(buffer) \cup {Head(commands)}
         /\ ToSet(batch') = {} \/ ToSet(buffer') = {}
<1>1. buffer \in Seq(Calls) /\ TakeHead /\ batch = <<>> /\ Head(commands) \in Calls
  BY ProcessAddEffect, HeadEffect, TypeParts DEF WorkTypes
<1>2. ToSet(<<>>) = {}
  BY EmptySeq DEF ToSet
<1>3. ToSet(Append(buffer, Head(commands))) = ToSet(buffer) \cup {Head(commands)}
  BY <1>1, AppendFacts
<1> QED
  BY <1>1, <1>2, <1>3, ProcessAddEffect

\* The empty sequence has no elements.
LEMMA EmptySet == ToSet(<<>>) = {}
BY EmptySeq DEF ToSet

\* A call that has not queued its command stays in no place.
LEMMA FreshStep ==
  ASSUME TypeOK, WaitersOK, OnceEach, FreshOK, [Next]_vars
  PROVE  FreshOK'
<1> USE DEF CallTypes, QueueTypes, WorkTypes, HistoryTypes, queueVars,
            workVars, ledgerVars, callVars, history
<1>0. CallTypes /\ QueueTypes /\ WorkTypes /\ HistoryTypes
  BY TypeParts
<1>b. \A d \in Calls : d # NoCall
  BY BatcherAssumption DEF Calls, NoCall
<1>a. \A d \in Calls : stage[d] \in {"unused", "waiting", "reserved"} => d \notin Placed /\ owed[d] = {}
  BY DEF FreshOK
<1>1. ASSUME NEW c \in Calls, TryAdd(c) PROVE FreshOK'
  <2>1. Placed' \subseteq Placed \cup {c}
    <3>1. UNCHANGED <<buffer, batch, sent, ackTo>>
      BY <1>1, TryAddEffect
    <3>2. /\ ToSet(commands') \subseteq ToSet(commands) \cup {c}
          /\ ToSet(accepted') \subseteq ToSet(accepted) \cup {c}
          /\ replaced' \subseteq replaced \cup ToSet(commands)
      <4>1. ToSet(commands) = {commands[i] : i \in 1..Len(commands)}
        BY <1>0, InSet
      <4> QED
        BY <1>1, <4>1, TryAddSets
    <3> QED
      BY <3>1, <3>2 DEF Placed
  <2>2. \A d \in Calls : stage'[d] \in {"unused", "waiting", "reserved"} =>
           /\ stage[d] \in {"unused", "waiting", "reserved"} /\ owed'[d] = owed[d]
           /\ d # c
    BY <1>0, <1>b, <1>1, TryAddEffect
  <2> QED
    BY <1>a, <1>b, <2>1, <2>2 DEF FreshOK
<1>2. ASSUME NEW c \in Calls, Send(c) PROVE FreshOK'
  <2>1. Placed' \subseteq Placed \cup {NoCall}
    BY <1>2, SendEffect DEF Placed
  <2>2. \A d \in Calls : stage'[d] \in {"unused", "waiting", "reserved"} =>
           /\ stage[d] \in {"unused", "waiting", "reserved"} /\ owed'[d] = owed[d]
           /\ d # NoCall
    BY <1>0, <1>b, <1>2, SendEffect
  <2> QED
    BY <1>a, <1>b, <2>1, <2>2 DEF FreshOK
<1>3. ASSUME NEW c \in Calls, Commit(c) PROVE FreshOK'
  <2>1. Placed' \subseteq Placed \cup {c}
    <3>1. UNCHANGED <<buffer, batch, sent, ackTo, replaced>>
      BY <1>3, CommitEffect
    <3> QED
      BY <1>3, <3>1, CommitSets DEF Placed
  <2>2. \A d \in Calls : stage'[d] \in {"unused", "waiting", "reserved"} =>
           /\ stage[d] \in {"unused", "waiting", "reserved"} /\ owed'[d] = owed[d]
           /\ d # c
    BY <1>0, <1>b, <1>3, CommitEffect
  <2> QED
    BY <1>a, <1>b, <2>1, <2>2 DEF FreshOK
<1>4. ASSUME NEW c \in Calls, Refused(c) PROVE FreshOK'
  <2>1. Placed' \subseteq Placed \cup {NoCall}
    BY <1>4 DEF Placed, Refused, Finish
  <2>2. \A d \in Calls : stage'[d] \in {"unused", "waiting", "reserved"} =>
           /\ stage[d] \in {"unused", "waiting", "reserved"} /\ owed'[d] = owed[d]
           /\ d # NoCall
    BY <1>0, <1>b, <1>4 DEF Refused, Finish
  <2> QED
    BY <1>a, <1>b, <2>1, <2>2 DEF FreshOK
<1>5. ASSUME NEW c \in Calls, Shutdown(c) PROVE FreshOK'
  <2>1. Placed' \subseteq Placed \cup {NoCall}
    BY <1>5 DEF Placed, Shutdown, Start, Close
  <2>2. \A d \in Calls : stage'[d] \in {"unused", "waiting", "reserved"} =>
           /\ stage[d] \in {"unused", "waiting", "reserved"} /\ owed'[d] = owed[d]
           /\ d # NoCall
    BY <1>0, <1>b, <1>5 DEF Shutdown, Start, Close
  <2> QED
    BY <1>a, <1>b, <2>1, <2>2 DEF FreshOK
<1>6. ASSUME NEW c \in Calls, Observe(c) PROVE FreshOK'
  <2>1. Placed' \subseteq Placed \cup {NoCall}
    BY <1>6 DEF Placed, Observe, Finish
  <2>2. \A d \in Calls : stage'[d] \in {"unused", "waiting", "reserved"} =>
           /\ stage[d] \in {"unused", "waiting", "reserved"} /\ owed'[d] = owed[d]
           /\ d # NoCall
    BY <1>0, <1>b, <1>6 DEF Observe, Finish
  <2> QED
    BY <1>a, <1>b, <2>1, <2>2 DEF FreshOK
<1>7. ASSUME NEW c \in Calls, AckLost(c) PROVE FreshOK'
  <2>1. Placed' \subseteq Placed \cup {NoCall}
    BY <1>7 DEF Placed, AckLost, Close
  <2>2. \A d \in Calls : stage'[d] \in {"unused", "waiting", "reserved"} =>
           /\ stage[d] \in {"unused", "waiting", "reserved"} /\ owed'[d] = owed[d]
           /\ d # NoCall
    BY <1>0, <1>b, <1>7 DEF AckLost, Close
  <2> QED
    BY <1>a, <1>b, <2>1, <2>2 DEF FreshOK
<1>8. ASSUME NEW c \in Calls, Join(c) PROVE FreshOK'
  <2>1. Placed' \subseteq Placed \cup {NoCall}
    BY <1>8 DEF Placed, Join, Finish
  <2>2. \A d \in Calls : stage'[d] \in {"unused", "waiting", "reserved"} =>
           /\ stage[d] \in {"unused", "waiting", "reserved"} /\ owed'[d] = owed[d]
           /\ d # NoCall
    BY <1>0, <1>b, <1>8 DEF Join, Finish
  <2> QED
    BY <1>a, <1>b, <2>1, <2>2 DEF FreshOK
<1>9. ASSUME NEW c \in Calls, Cancel(c) PROVE FreshOK'
  <2>1. Placed' \subseteq Placed \cup {NoCall}
    BY <1>9, CancelEffect DEF Placed
  <2>2. \A d \in Calls : stage'[d] \in {"unused", "waiting", "reserved"} =>
           /\ stage[d] \in {"unused", "waiting", "reserved"} /\ owed'[d] = owed[d]
           /\ d # NoCall
    <3>1. owed' = owed /\ stage[c] # "unused"
      BY <1>9, CancelEffect
    <3>2. CASE stage' = [stage EXCEPT ![c] = "done"]
      BY <1>0, <1>b, <3>1, <3>2
    <3>3. CASE /\ waiters # <<>>
               /\ stage' = [stage EXCEPT ![c] = "done", ![Head(waiters)] = "reserved"]
      <4>1. Head(waiters) \in Calls /\ stage[Head(waiters)] = "waiting"
        BY <3>3, HandOver
      <4> QED
        BY <1>0, <1>b, <3>1, <3>3, <4>1
    <3> QED
      BY <1>9, <3>2, <3>3, CancelEffect
  <2> QED
    BY <1>a, <1>b, <2>1, <2>2 DEF FreshOK
<1>10. CASE DropBatcher
  <2>1. Placed' \subseteq Placed \cup {NoCall}
    BY <1>10 DEF Placed, DropBatcher, Close
  <2>2. \A d \in Calls : stage'[d] \in {"unused", "waiting", "reserved"} =>
           /\ stage[d] \in {"unused", "waiting", "reserved"} /\ owed'[d] = owed[d]
           /\ d # NoCall
    BY <1>0, <1>b, <1>10 DEF DropBatcher, Close
  <2> QED
    BY <1>a, <1>b, <2>1, <2>2 DEF FreshOK
<1>11. CASE ProcessAdd
  <2>1. Placed' \subseteq Placed \cup {NoCall}
    <3>1. /\ ToSet(commands') \subseteq ToSet(commands)
          /\ ToSet(batch') \cup ToSet(buffer') = ToSet(buffer) \cup {Head(commands)}
          /\ Head(commands) \in ToSet(commands)
      BY <1>11, ProcessAddSets, HeadSets
    <3>2. UNCHANGED <<accepted, replaced, sent, ackTo>>
      BY <1>11, ProcessAddEffect
    <3> QED
      BY <3>1, <3>2 DEF Placed
  <2>2. \A d \in Calls : stage'[d] \in {"unused", "waiting", "reserved"} =>
           /\ stage[d] \in {"unused", "waiting", "reserved"} /\ owed'[d] = owed[d]
           /\ d # NoCall
    <3>1. owed' = owed
      BY <1>11, ProcessAddEffect
    <3>2. \A d \in Calls : Handed[d] \in {"unused", "waiting", "reserved"} => stage[d] \in {"unused", "waiting", "reserved"}
      <4>1. TakeHead
        BY <1>11, ProcessAddEffect
      <4>2. waiters # <<>> => /\ Head(waiters) \in Calls
                             /\ stage[Head(waiters)] = "waiting"
        BY HandOver
      <4> QED
        BY <1>0, <4>1, <4>2, HeadEffect
    <3>3. stage' = Handed
      BY <1>11, ProcessAddEffect
    <3> QED
      BY <1>b, <3>1, <3>2, <3>3
  <2> QED
    BY <1>a, <1>b, <2>1, <2>2 DEF FreshOK
<1>12. CASE ProcessFlush
  <2>1. Placed' \subseteq Placed \cup {NoCall}
    <3>1. /\ ToSet(commands') \subseteq ToSet(commands)
          /\ Head(commands) \in ToSet(commands)
      BY <1>12, ProcessFlushEffect, HeadSets
    <3>2. /\ UNCHANGED <<accepted, replaced, sent>>
          /\ \/ UNCHANGED <<buffer, batch, ackTo>>
             \/ /\ batch' = buffer /\ buffer' = <<>>
                /\ ackTo' = Head(commands)
      BY <1>12, ProcessFlushEffect
    <3> QED
      BY <3>1, <3>2, EmptySet DEF Placed
  <2>2. \A d \in Calls : stage'[d] \in {"unused", "waiting", "reserved"} =>
           /\ stage[d] \in {"unused", "waiting", "reserved"} /\ owed'[d] = owed[d]
           /\ d # NoCall
    <3>1. owed' = owed
      BY <1>12, ProcessFlushEffect
    <3>2. \A d \in Calls : Handed[d] \in {"unused", "waiting", "reserved"} => stage[d] \in {"unused", "waiting", "reserved"}
      <4>1. TakeHead
        BY <1>12, ProcessFlushEffect
      <4>2. waiters # <<>> => /\ Head(waiters) \in Calls
                             /\ stage[Head(waiters)] = "waiting"
        BY HandOver
      <4> QED
        BY <1>0, <4>1, <4>2, HeadEffect
    <3>3. \/ stage' = Handed
          \/ stage' = [Handed EXCEPT ![Head(commands)] = "acked"]
      BY <1>12, ProcessFlushEffect, AckEffect
    <3>4. Handed \in [Calls -> Stages]
      BY <1>0, <1>b, <1>12, ProcessFlushEffect, HeadEffect DEF Stages
    <3>5. \A d \in Calls : stage'[d] \in {"unused", "waiting", "reserved"} => Handed[d] \in {"unused", "waiting", "reserved"}
      BY <3>3, <3>4
    <3> QED
      BY <1>b, <3>1, <3>2, <3>5
  <2> QED
    BY <1>a, <1>b, <2>1, <2>2 DEF FreshOK
<1>13. CASE Tick
  <2>1. Placed' \subseteq Placed \cup {NoCall}
    BY <1>13, EmptySet DEF Placed, Tick
  <2>2. \A d \in Calls : stage'[d] \in {"unused", "waiting", "reserved"} =>
           /\ stage[d] \in {"unused", "waiting", "reserved"} /\ owed'[d] = owed[d]
           /\ d # NoCall
    BY <1>0, <1>b, <1>13 DEF Tick
  <2> QED
    BY <1>a, <1>b, <2>1, <2>2 DEF FreshOK
<1>14. CASE SeeClosing
  <2>1. Placed' \subseteq Placed \cup {NoCall}
    BY <1>14 DEF Placed, SeeClosing
  <2>2. \A d \in Calls : stage'[d] \in {"unused", "waiting", "reserved"} =>
           /\ stage[d] \in {"unused", "waiting", "reserved"} /\ owed'[d] = owed[d]
           /\ d # NoCall
    BY <1>0, <1>b, <1>14 DEF SeeClosing
  <2> QED
    BY <1>a, <1>b, <2>1, <2>2 DEF FreshOK
<1>15. CASE Drained
  <2>1. Placed' \subseteq Placed \cup {NoCall}
    BY <1>15, EmptySet DEF Placed, Drained
  <2>2. \A d \in Calls : stage'[d] \in {"unused", "waiting", "reserved"} =>
           /\ stage[d] \in {"unused", "waiting", "reserved"} /\ owed'[d] = owed[d]
           /\ d # NoCall
    BY <1>0, <1>b, <1>15 DEF Drained
  <2> QED
    BY <1>a, <1>b, <2>1, <2>2 DEF FreshOK
<1>16. CASE Submitted
  <2>1. Placed' \subseteq Placed \cup {NoCall}
    <3>1. /\ UNCHANGED <<accepted, replaced, commands, buffer>>
          /\ sent' = sent \o batch /\ batch' = <<>> /\ ackTo' = NoCall
      BY <1>16, SubmittedEffect
    <3>2. ToSet(sent') = ToSet(sent) \cup ToSet(batch)
      BY <1>0, <3>1, ConcatSet
    <3> QED
      BY <3>1, <3>2, EmptySet DEF Placed
  <2>2. \A d \in Calls : stage'[d] \in {"unused", "waiting", "reserved"} =>
           /\ stage[d] \in {"unused", "waiting", "reserved"} /\ owed'[d] = owed[d]
           /\ d # NoCall
    <3>1. owed' = owed
      BY <1>16, SubmittedEffect
    <3>2. stage' = stage \/ stage' = [stage EXCEPT ![ackTo] = "acked"]
      BY <1>16, SubmittedEffect, AckEffect
    <3>3. \A d \in Calls : stage'[d] \in {"unused", "waiting", "reserved"} => stage[d] \in {"unused", "waiting", "reserved"}
      BY <1>0, <3>2
    <3> QED
      BY <1>b, <3>1, <3>3
  <2> QED
    BY <1>a, <1>b, <2>1, <2>2 DEF FreshOK
<1>17. CASE WorkerDies
  <2>1. Placed' \subseteq Placed \cup {NoCall}
    BY <1>17, EmptySet DEF Placed, WorkerDies
  <2>2. \A d \in Calls : stage'[d] \in {"unused", "waiting", "reserved"} =>
           /\ stage[d] \in {"unused", "waiting", "reserved"} /\ owed'[d] = owed[d]
           /\ d # NoCall
    BY <1>0, <1>b, <1>17 DEF WorkerDies
  <2> QED
    BY <1>a, <1>b, <2>1, <2>2 DEF FreshOK
<1>18. CASE UNCHANGED vars
  BY <1>a, <1>18 DEF vars, FreshOK, Placed
<1> QED
  BY <1>1, <1>2, <1>3, <1>4, <1>5, <1>6, <1>7, <1>8, <1>9, <1>10, <1>11,
     <1>12, <1>13, <1>14, <1>15, <1>16, <1>17, <1>18
     DEF Next, Terminated

\* A worker that has ended has nothing left, and the queue is closed.
LEMMA WorkerStep ==
  ASSUME TypeOK, WorkerOK, [Next]_vars
  PROVE  WorkerOK'
<1> USE DEF WorkerOK, queueVars, workVars, ledgerVars, callVars, history
<1>0. WorkTypes
  BY TypeParts
<1>1. ASSUME NEW c \in Calls, TryAdd(c) PROVE WorkerOK'
  <2>1. /\ UNCHANGED <<worker, buffer, batch, accepting>>
        /\ accepting \/ commands' = commands
    BY <1>1, TryAddEffect
  <2> QED
    BY <2>1
<1>2. ASSUME NEW c \in Calls, Send(c) PROVE WorkerOK'
  BY <1>2, SendEffect
<1>3. ASSUME NEW c \in Calls, Commit(c) PROVE WorkerOK'
  <2>1. /\ UNCHANGED <<worker, buffer, batch, accepting>>
        /\ accepting \/ commands' = commands
    BY <1>3, CommitEffect
  <2> QED
    BY <2>1
<1>4. ASSUME NEW c \in Calls, Refused(c) PROVE WorkerOK'
  BY <1>0, <1>4 DEF Refused, Finish
<1>5. ASSUME NEW c \in Calls, Shutdown(c) PROVE WorkerOK'
  BY <1>0, <1>5 DEF Shutdown, Start, Close
<1>6. ASSUME NEW c \in Calls, Observe(c) PROVE WorkerOK'
  BY <1>0, <1>6 DEF Observe, Finish
<1>7. ASSUME NEW c \in Calls, AckLost(c) PROVE WorkerOK'
  BY <1>0, <1>7 DEF AckLost, Close
<1>8. ASSUME NEW c \in Calls, Join(c) PROVE WorkerOK'
  BY <1>0, <1>8 DEF Join, Finish
<1>9. ASSUME NEW c \in Calls, Cancel(c) PROVE WorkerOK'
  BY <1>9, CancelEffect
<1>10. CASE DropBatcher
  BY <1>0, <1>10 DEF DropBatcher, Close
<1>11. CASE ProcessAdd
  BY <1>11, ProcessAddEffect
<1>12. CASE ProcessFlush
  BY <1>12, ProcessFlushEffect
<1>13. CASE Tick
  BY <1>0, <1>13 DEF Tick
<1>14. CASE SeeClosing
  BY <1>0, <1>14 DEF SeeClosing
<1>15. CASE Drained
  BY <1>0, <1>15 DEF Drained
<1>16. CASE Submitted
  BY <1>16, SubmittedEffect, AckEffect
<1>17. CASE WorkerDies
  BY <1>0, <1>17 DEF WorkerDies, Close
<1>18. CASE UNCHANGED vars
  BY <1>0, <1>18 DEF vars
<1> QED
  BY <1>1, <1>2, <1>3, <1>4, <1>5, <1>6, <1>7, <1>8, <1>9, <1>10, <1>11,
     <1>12, <1>13, <1>14, <1>15, <1>16, <1>17, <1>18
     DEF Next, Terminated

\* What a call was told fits the stage it is in.
LEMMA CallsStep ==
  ASSUME TypeOK, WaitersOK, FreshOK, WorkerOK, CallsOK, [Next]_vars
  PROVE  CallsOK'
<1> USE DEF CallTypes, WorkTypes, HistoryTypes, Stages, Ops, queueVars,
            workVars, ledgerVars, callVars, history
<1>0. CallTypes /\ WorkTypes /\ HistoryTypes
  BY TypeParts
<1>a. \A d \in Calls : stage[d] \in {"unused", "waiting", "reserved"} => owed[d] = {}
  BY DEF FreshOK
<1>1. ASSUME NEW c \in Calls, TryAdd(c) PROVE CallsOK'
  <2>1. /\ worker' = worker /\ owed' = owed
        /\ stage[c] = "unused" /\ stage' = [stage EXCEPT ![c] = "done"]
        /\ op' = [op EXCEPT ![c] = "tryAdd"]
        /\ \E r \in {"closed", "full", "ok"} : result' = [result EXCEPT ![c] = r]
    BY <1>1, TryAddEffect
  <2> QED
    BY <1>0, <1>a, <2>1 DEF CallsOK, Answered
<1>2. ASSUME NEW c \in Calls, Send(c) PROVE CallsOK'
  <2>1. /\ worker' = worker /\ owed' = owed /\ result' = result
        /\ stage[c] = "unused"
        /\ \E s \in {"waiting", "reserved"} : stage' = [stage EXCEPT ![c] = s]
        /\ \E k \in {"add", "flush"} : op' = [op EXCEPT ![c] = k]
    BY <1>2, SendEffect
  <2> QED
    BY <1>0, <1>a, <2>1 DEF CallsOK, Answered
<1>3. ASSUME NEW c \in Calls, Commit(c) PROVE CallsOK'
  <2>1. /\ worker' = worker /\ op' = op /\ stage[c] = "reserved"
    BY <1>3, CommitEffect
  <2>2. CASE /\ op[c] = "flush" /\ result' = result
             /\ stage' = [stage EXCEPT ![c] = "awaiting"]
             /\ \A d \in Calls \ {c} : owed'[d] = owed[d]
    <3>1. stage'[c] = "awaiting" /\ \A d \in Calls \ {c} : stage'[d] = stage[d]
      BY <1>0, <2>2
    <3> QED
      BY <1>0, <2>1, <2>2, <3>1 DEF CallsOK, Answered
  <2>3. CASE /\ op[c] # "flush" /\ owed' = owed
             /\ stage' = [stage EXCEPT ![c] = "done"]
             /\ result' = [result EXCEPT ![c] = "ok"]
    BY <1>0, <1>a, <2>1, <2>3 DEF CallsOK, Answered
  <2> QED
    BY <1>0, <1>3, <2>2, <2>3, CommitEffect
<1>4. ASSUME NEW c \in Calls, Refused(c) PROVE CallsOK'
  BY <1>0, <1>a, <1>4 DEF Refused, Finish, CallsOK, Answered
<1>5. ASSUME NEW c \in Calls, Shutdown(c) PROVE CallsOK'
  BY <1>0, <1>a, <1>5 DEF Shutdown, Start, Close, CallsOK, Answered
<1>6. ASSUME NEW c \in Calls, Observe(c) PROVE CallsOK'
  BY <1>0, <1>a, <1>6 DEF Observe, Finish, CallsOK, Answered
<1>7. ASSUME NEW c \in Calls, AckLost(c) PROVE CallsOK'
  BY <1>0, <1>a, <1>7 DEF AckLost, Close, CallsOK, Answered
<1>8. ASSUME NEW c \in Calls, Join(c) PROVE CallsOK'
  BY <1>0, <1>a, <1>8 DEF Join, Finish, CallsOK, Answered
<1>9. ASSUME NEW c \in Calls, Cancel(c) PROVE CallsOK'
  <2>1. /\ worker' = worker /\ op' = op /\ owed' = owed
        /\ result' = [result EXCEPT ![c] = "cancelled"]
        /\ stage[c] \notin {"unused", "done"}
    BY <1>9, CancelEffect
  <2>2. CASE stage' = [stage EXCEPT ![c] = "done"]
    BY <1>0, <2>1, <2>2 DEF CallsOK, Answered
  <2>3. CASE /\ waiters # <<>>
             /\ stage' = [stage EXCEPT ![c] = "done", ![Head(waiters)] = "reserved"]
    <3>1. Head(waiters) \in Calls /\ stage[Head(waiters)] = "waiting"
      BY <2>3, HandOver
    <3> QED
      BY <1>0, <2>1, <2>3, <3>1 DEF CallsOK, Answered
  <2> QED
    BY <1>9, <2>2, <2>3, CancelEffect
<1>10. CASE DropBatcher
  BY <1>0, <1>a, <1>10 DEF DropBatcher, Close, CallsOK, Answered
<1>11. CASE ProcessAdd
  <2>1. /\ TakeHead /\ stage' = Handed /\ UNCHANGED <<op, owed, result>>
        /\ worker \in {"select", "drain"}
    BY <1>11, ProcessAddEffect
  <2>2. /\ Handed \in [Calls -> Stages]
        /\ \A d \in Calls : \/ Handed[d] = stage[d]
                            \/ stage[d] = "waiting" /\ Handed[d] = "reserved"
    <3>1. waiters # <<>> => /\ Head(waiters) \in Calls
                           /\ stage[Head(waiters)] = "waiting"
      BY HandOver
    <3> QED
      BY <1>0, <2>1, <3>1, HeadEffect
  <2> QED
    BY <1>0, <2>1, <2>2 DEF CallsOK, Answered
<1>12. CASE ProcessFlush
  <2>1. /\ TakeHead /\ UNCHANGED <<op, owed, result>>
        /\ worker \in {"select", "drain"}
    BY <1>12, ProcessFlushEffect
  <2>2. /\ Handed \in [Calls -> Stages]
        /\ \A d \in Calls : \/ Handed[d] = stage[d]
                            \/ stage[d] = "waiting" /\ Handed[d] = "reserved"
    <3>1. waiters # <<>> => /\ Head(waiters) \in Calls
                           /\ stage[Head(waiters)] = "waiting"
      BY HandOver
    <3> QED
      BY <1>0, <2>1, <3>1, HeadEffect
  <2>3. \/ stage' = Handed
        \/ /\ Handed[Head(commands)] = "awaiting"
           /\ stage' = [Handed EXCEPT ![Head(commands)] = "acked"]
    BY <1>12, ProcessFlushEffect, AckEffect
  <2> QED
    BY <1>0, <2>1, <2>2, <2>3 DEF CallsOK, Answered
<1>13. CASE Tick
  BY <1>0, <1>a, <1>13 DEF Tick, CallsOK, Answered
<1>14. CASE SeeClosing
  BY <1>0, <1>a, <1>14 DEF SeeClosing, CallsOK, Answered
<1>15. CASE Drained
  BY <1>0, <1>a, <1>15 DEF Drained, CallsOK, Answered
<1>16. CASE Submitted
  <2>1. /\ UNCHANGED <<op, owed, result>>
        /\ worker \notin {"dead", "finished"}
    BY <1>16, SubmittedEffect DEF WorkerOK
  <2>2. \/ stage' = stage
        \/ stage[ackTo] = "awaiting" /\ stage' = [stage EXCEPT ![ackTo] = "acked"]
    BY <1>16, SubmittedEffect, AckEffect
  <2> QED
    BY <1>0, <2>1, <2>2 DEF CallsOK, Answered
<1>17. CASE WorkerDies
  BY <1>0, <1>a, <1>17 DEF WorkerDies, Close, CallsOK, Answered
<1>18. CASE UNCHANGED vars
  BY <1>0, <1>18 DEF vars, CallsOK, Answered
<1> QED
  BY <1>1, <1>2, <1>3, <1>4, <1>5, <1>6, <1>7, <1>8, <1>9, <1>10, <1>11,
     <1>12, <1>13, <1>14, <1>15, <1>16, <1>17, <1>18
     DEF Next, Terminated

\* Each admitted event is in one place.
LEMMA PlacesStep ==
  ASSUME TypeOK, FreshOK, OnceEach, Partition, [Next]_vars
  PROVE  (OnceEach /\ Partition)'
<1> USE DEF CallTypes, QueueTypes, WorkTypes, HistoryTypes, queueVars,
            workVars, ledgerVars, callVars, history
<1>0. CallTypes /\ QueueTypes /\ WorkTypes /\ HistoryTypes
  BY TypeParts
<1>a. \A d \in Calls : stage[d] \in {"unused", "waiting", "reserved"} => d \notin Placed
  BY DEF FreshOK
<1>b. /\ OnceEach /\ ToSet(commands) \subseteq Calls
      /\ \A i \in 1..Len(commands) : commands[i] \in ToSet(commands)
  BY <1>0, InSet
<1>1. ASSUME NEW c \in Calls, TryAdd(c) PROVE (OnceEach /\ Partition)'
  <2>1. /\ UNCHANGED <<buffer, batch, sent, worker>> /\ op' = [op EXCEPT ![c] = "tryAdd"]
        /\ stage[c] = "unused"
    BY <1>1, TryAddEffect
  <2>2. c \notin Placed
    BY <1>a, <2>1
  <2>3. \A d \in ToSet(commands) : op'[d] = op[d] /\ d # c
    BY <1>0, <1>b, <2>1, <2>2 DEF Placed
  <2>4. op'[c] # "flush"
    BY <1>0, <2>1
  <2>5. CASE UNCHANGED <<commands, accepted, replaced>>
    <3>1. Events(ToSet(commands))' = Events(ToSet(commands))
      BY <2>3, <2>5 DEF Events
    <3> QED
      BY <2>1, <2>5, <3>1 DEF Partition, OnceEach
  <2>6. CASE /\ ToSet(commands') = ToSet(commands) \cup {c}
             /\ ToSet(accepted') = ToSet(accepted) \cup {c}
             /\ replaced' = replaced /\ commands' = Append(commands, c)
    <3>1. Events(ToSet(commands))' = Events(ToSet(commands)) \cup {c}
      BY <2>3, <2>4, <2>6 DEF Events
    <3>2. OnceEach'
      BY <1>0, <1>b, <2>2, <2>6, OnceMore DEF Placed, OnceEach
    <3>3. worker # "dead" =>
            (ToSet(accepted) \cup {c}) \ replaced =
              (ToSet(sent) \cup ToSet(batch) \cup ToSet(buffer))
                \cup (Events(ToSet(commands)) \cup {c})
      BY <2>2, OneMore DEF Partition, Placed
    <3>4. /\ ToSet(commands') = ToSet(commands) \cup {c} /\ replaced' = replaced
          /\ ToSet(accepted') = ToSet(accepted) \cup {c}
      BY <2>6
    <3> QED
      BY <2>1, <2>2, <3>1, <3>2, <3>3, <3>4 DEF Partition, Placed
  <2>7. ASSUME NEW p \in 1..Len(commands),
               \A i \in 1..Len(commands) : op[commands[i]] = "flush" => i < p,
               ToSet(commands') = (ToSet(commands) \ {commands[p]}) \cup {c},
               commands' = Append(RemoveAt(commands, p), c),
               ToSet(accepted') = ToSet(accepted) \cup {c},
               replaced' = replaced \cup {commands[p]}
        PROVE  (OnceEach /\ Partition)'
    <3> DEFINE o == commands[p]
    <3>1. o \in ToSet(commands) /\ op[o] # "flush"
      BY <1>b, <2>7
    <3>2. Events(ToSet(commands))' = (Events(ToSet(commands)) \ {o}) \cup {c}
      BY <2>3, <2>4, <2>7 DEF Events
    <3>3. OnceEach'
      <4> DEFINE r == RemoveAt(commands, p)
      <4>1. /\ r \in Seq(Calls) /\ ToSet(r) = ToSet(commands) \ {o}
            /\ \A i, j \in 1..Len(r) : r[i] = r[j] => i = j
        BY <1>0, <1>b, RemoveAtFacts, RemoveAtSet DEF OnceEach
      <4>2. c \notin ToSet(r)
        BY <2>2, <4>1 DEF Placed
      <4>3. commands' = Append(r, c)
        BY <2>7
      <4> HIDE DEF r
      <4> QED
        BY <4>1, <4>2, <4>3, OnceMore
    <3>4. o \in Events(ToSet(commands))
      BY <3>1 DEF Events
    <3> HIDE DEF o
    <3>5. replaced' = replaced \cup {o}
      BY <2>7 DEF o
    <3>6. ToSet(commands') = (ToSet(commands) \ {o}) \cup {c}
      BY <2>7 DEF o
    <3>7. worker # "dead" =>
            (ToSet(accepted) \cup {c}) \ (replaced \cup {o}) =
              (ToSet(sent) \cup ToSet(batch) \cup ToSet(buffer))
                \cup ((Events(ToSet(commands)) \ {o}) \cup {c})
      BY <2>2, <3>1, <3>4, OneForAnother DEF Partition, Placed
    <3>8. ToSet(accepted') = ToSet(accepted) \cup {c}
      BY <2>7
    <3> QED
      BY <2>1, <2>2, <3>2, <3>3, <3>5, <3>6, <3>7, <3>8 DEF Partition, Placed
  <2> QED
    BY <1>1, <1>b, <2>5, <2>6, <2>7, TryAddSets
<1>2. ASSUME NEW c \in Calls, Send(c) PROVE (OnceEach /\ Partition)'
  <2>1. /\ UNCHANGED <<buffer, batch, sent, worker, commands, accepted, replaced>>
        /\ stage[c] = "unused" /\ \A d \in Calls \ {c} : op'[d] = op[d]
    <3>1. PICK kind \in {"add", "flush"} : op' = [op EXCEPT ![c] = kind]
      BY <1>2, SendEffect
    <3> QED
      BY <1>0, <1>2, <3>1, SendEffect
  <2>2. c \notin ToSet(commands)
    BY <1>a, <2>1 DEF Placed
  <2>3. Events(ToSet(commands))' = Events(ToSet(commands))
    BY <1>b, <2>1, <2>2 DEF Events
  <2> QED
    BY <2>1, <2>3 DEF Partition, OnceEach
<1>3. ASSUME NEW c \in Calls, Commit(c) PROVE (OnceEach /\ Partition)'
  <2>1. /\ UNCHANGED <<buffer, batch, sent, worker, replaced, op>>
        /\ stage[c] = "reserved" /\ commands' = Append(commands, c)
    BY <1>3, CommitEffect
  <2>2. c \notin Placed
    BY <1>a, <2>1
  <2>3. OnceEach'
    BY <1>0, <1>b, <2>1, <2>2, OnceMore DEF Placed, OnceEach
  <2>4. /\ ToSet(commands') = ToSet(commands) \cup {c}
        /\ \/ op[c] = "flush" /\ accepted' = accepted
           \/ op[c] # "flush" /\ ToSet(accepted') = ToSet(accepted) \cup {c}
    BY <1>3, CommitSets
  <2>5. Events(ToSet(commands))' =
           Events(ToSet(commands)) \cup (IF op[c] = "flush" THEN {} ELSE {c})
    BY <2>1, <2>4 DEF Events
  <2> QED
    <3>1. CASE op[c] = "flush"
      BY <2>1, <2>2, <2>3, <2>4, <2>5, <3>1 DEF Partition, Placed
    <3>2. CASE op[c] # "flush"
      <4>1. worker # "dead" =>
              (ToSet(accepted) \cup {c}) \ replaced =
                (ToSet(sent) \cup ToSet(batch) \cup ToSet(buffer))
                  \cup (Events(ToSet(commands)) \cup {c})
        BY <2>2, OneMore DEF Partition, Placed
      <4>2. /\ ToSet(accepted') = ToSet(accepted) \cup {c}
            /\ Events(ToSet(commands))' = Events(ToSet(commands)) \cup {c}
        BY <2>4, <2>5, <3>2
      <4>3. UNCHANGED <<buffer, batch, sent, worker, replaced>>
        BY <2>1
      <4>4. ToSet(commands') = ToSet(commands) \cup {c}
        BY <2>4
      <4> QED
        BY <2>2, <2>3, <4>1, <4>2, <4>3, <4>4 DEF Partition, Placed
    <3> QED
      BY <3>1, <3>2
<1>4. ASSUME NEW c \in Calls, Refused(c) PROVE (OnceEach /\ Partition)'
  <2>1. /\ UNCHANGED <<buffer, batch, sent, worker, commands, accepted, replaced>>
        /\ \A d \in ToSet(commands) : op'[d] = op[d]
    BY <1>0, <1>a, <1>b, <1>4 DEF Refused, Finish, Placed
  <2>2. Events(ToSet(commands))' = Events(ToSet(commands))
    BY <2>1 DEF Events
  <2> QED
    BY <2>1, <2>2 DEF Partition, OnceEach
<1>5. ASSUME NEW c \in Calls, Shutdown(c) PROVE (OnceEach /\ Partition)'
  <2>1. /\ UNCHANGED <<buffer, batch, sent, worker, commands, accepted, replaced>>
        /\ \A d \in ToSet(commands) : op'[d] = op[d]
    BY <1>0, <1>a, <1>b, <1>5 DEF Shutdown, Start, Close, Placed
  <2>2. Events(ToSet(commands))' = Events(ToSet(commands))
    BY <2>1 DEF Events
  <2> QED
    BY <2>1, <2>2 DEF Partition, OnceEach
<1>6. ASSUME NEW c \in Calls, Observe(c) PROVE (OnceEach /\ Partition)'
  <2>1. /\ UNCHANGED <<buffer, batch, sent, worker, commands, accepted, replaced>>
        /\ \A d \in ToSet(commands) : op'[d] = op[d]
    BY <1>0, <1>a, <1>b, <1>6 DEF Observe, Finish, Placed
  <2>2. Events(ToSet(commands))' = Events(ToSet(commands))
    BY <2>1 DEF Events
  <2> QED
    BY <2>1, <2>2 DEF Partition, OnceEach
<1>7. ASSUME NEW c \in Calls, AckLost(c) PROVE (OnceEach /\ Partition)'
  <2>1. /\ UNCHANGED <<buffer, batch, sent, worker, commands, accepted, replaced>>
        /\ \A d \in ToSet(commands) : op'[d] = op[d]
    BY <1>0, <1>a, <1>b, <1>7 DEF AckLost, Close, Placed
  <2>2. Events(ToSet(commands))' = Events(ToSet(commands))
    BY <2>1 DEF Events
  <2> QED
    BY <2>1, <2>2 DEF Partition, OnceEach
<1>8. ASSUME NEW c \in Calls, Join(c) PROVE (OnceEach /\ Partition)'
  <2>1. /\ UNCHANGED <<buffer, batch, sent, worker, commands, accepted, replaced>>
        /\ \A d \in ToSet(commands) : op'[d] = op[d]
    BY <1>0, <1>a, <1>b, <1>8 DEF Join, Finish, Placed
  <2>2. Events(ToSet(commands))' = Events(ToSet(commands))
    BY <2>1 DEF Events
  <2> QED
    BY <2>1, <2>2 DEF Partition, OnceEach
<1>9. ASSUME NEW c \in Calls, Cancel(c) PROVE (OnceEach /\ Partition)'
  <2>1. /\ UNCHANGED <<buffer, batch, sent, worker, commands, accepted, replaced>>
        /\ \A d \in ToSet(commands) : op'[d] = op[d]
    BY <1>9, CancelEffect
  <2>2. Events(ToSet(commands))' = Events(ToSet(commands))
    BY <2>1 DEF Events
  <2> QED
    BY <2>1, <2>2 DEF Partition, OnceEach
<1>10. CASE DropBatcher
  <2>1. /\ UNCHANGED <<buffer, batch, sent, worker, commands, accepted, replaced>>
        /\ \A d \in ToSet(commands) : op'[d] = op[d]
    BY <1>0, <1>a, <1>b, <1>10 DEF DropBatcher, Close, Placed
  <2>2. Events(ToSet(commands))' = Events(ToSet(commands))
    BY <2>1 DEF Events
  <2> QED
    BY <2>1, <2>2 DEF Partition, OnceEach
<1>11. CASE ProcessAdd
  <2>1. /\ UNCHANGED <<op, sent, accepted, replaced>> /\ worker # "dead"
    BY <1>11, ProcessAddEffect
  <2>2. /\ TakeHead /\ op[Head(commands)] # "flush" /\ ToSet(batch) = {}
        /\ ToSet(batch') \cup ToSet(buffer') = ToSet(buffer) \cup {Head(commands)}
        /\ ToSet(batch') = {} \/ ToSet(buffer') = {}
    BY <1>b, <1>11, ProcessAddSets
  <2>3. /\ Head(commands) \in ToSet(commands) /\ OnceEach'
        /\ ToSet(commands') = ToSet(commands) \ {Head(commands)}
    BY <1>b, <2>2, HeadSets
  <2>4. /\ Events(ToSet(commands))' = Events(ToSet(commands)) \ {Head(commands)}
        /\ Head(commands) \in Events(ToSet(commands))
    BY <2>1, <2>2, <2>3 DEF Events
  <2> QED
    BY <2>1, <2>2, <2>3, <2>4 DEF Partition
<1>12. CASE ProcessFlush
  <2>1. /\ UNCHANGED <<op, sent, accepted, replaced>> /\ worker # "dead"
        /\ op[Head(commands)] = "flush" /\ TakeHead /\ batch = <<>>
    BY <1>12, ProcessFlushEffect
  <2>2. \/ UNCHANGED <<buffer, batch>>
        \/ batch' = buffer /\ buffer' = <<>>
    BY <1>12, ProcessFlushEffect
  <2>3. /\ Head(commands) \in ToSet(commands) /\ OnceEach'
        /\ ToSet(commands') = ToSet(commands) \ {Head(commands)}
    BY <1>b, <2>1, HeadSets
  <2>4. Events(ToSet(commands))' = Events(ToSet(commands))
    BY <2>1, <2>3 DEF Events
  <2> QED
    BY <2>1, <2>2, <2>3, <2>4, EmptySet DEF Partition
<1>13. CASE Tick
  <2>1. /\ UNCHANGED <<op, sent, commands, accepted, replaced>>
        /\ worker # "dead"
        /\ ToSet(batch') \cup ToSet(buffer') = ToSet(batch) \cup ToSet(buffer)
        /\ ToSet(batch') = {} \/ ToSet(buffer') = {} \/ UNCHANGED <<batch, buffer>>
    BY <1>13, EmptySet DEF Tick
  <2>2. Events(ToSet(commands))' = Events(ToSet(commands))
    BY <2>1 DEF Events
  <2> QED
    BY <2>1, <2>2 DEF Partition, OnceEach
<1>14. CASE SeeClosing
  <2>1. /\ UNCHANGED <<op, sent, commands, accepted, replaced>>
        /\ worker # "dead"
        /\ ToSet(batch') \cup ToSet(buffer') = ToSet(batch) \cup ToSet(buffer)
        /\ ToSet(batch') = {} \/ ToSet(buffer') = {} \/ UNCHANGED <<batch, buffer>>
    BY <1>14, EmptySet DEF SeeClosing
  <2>2. Events(ToSet(commands))' = Events(ToSet(commands))
    BY <2>1 DEF Events
  <2> QED
    BY <2>1, <2>2 DEF Partition, OnceEach
<1>15. CASE Drained
  <2>1. /\ UNCHANGED <<op, sent, commands, accepted, replaced>>
        /\ worker # "dead"
        /\ ToSet(batch') \cup ToSet(buffer') = ToSet(batch) \cup ToSet(buffer)
        /\ ToSet(batch') = {} \/ ToSet(buffer') = {} \/ UNCHANGED <<batch, buffer>>
    BY <1>15, EmptySet DEF Drained
  <2>2. Events(ToSet(commands))' = Events(ToSet(commands))
    BY <2>1 DEF Events
  <2> QED
    BY <2>1, <2>2 DEF Partition, OnceEach
<1>16. CASE Submitted
  <2>1. /\ UNCHANGED <<op, buffer, commands, accepted, replaced>>
        /\ worker # "dead" /\ batch' = <<>> /\ sent' = sent \o batch
    BY <1>16, SubmittedEffect
  <2>2. ToSet(sent') = ToSet(sent) \cup ToSet(batch)
    BY <1>0, <2>1, ConcatSet
  <2>3. Events(ToSet(commands))' = Events(ToSet(commands))
    BY <2>1 DEF Events
  <2> QED
    BY <2>1, <2>2, <2>3, EmptySet DEF Partition, OnceEach
<1>17. CASE WorkerDies
  <2>1. /\ worker' = "dead" /\ commands' = <<>> /\ buffer' = <<>> /\ batch' = <<>>
        /\ sent' = sent
    BY <1>17 DEF WorkerDies
  <2>2. 1..Len(commands') = {}
    BY <2>1
  <2> QED
    BY <2>1, <2>2, EmptySet DEF Partition, OnceEach
<1>18. CASE UNCHANGED vars
  <2>1. Events(ToSet(commands))' = Events(ToSet(commands))
    BY <1>18 DEF Events, vars
  <2> QED
    BY <1>18, <2>1 DEF Partition, OnceEach, vars
<1> QED
  BY <1>1, <1>2, <1>3, <1>4, <1>5, <1>6, <1>7, <1>8, <1>9, <1>10, <1>11,
     <1>12, <1>13, <1>14, <1>15, <1>16, <1>17, <1>18
     DEF Next, Terminated

\* No batch fails after a shutdown has returned.
LEMMA OkStep ==
  ASSUME TypeOK, CallsOK, WorkerOK, OkMeansNone, [Next]_vars
  PROVE  OkMeansNone'
<1> USE DEF CallTypes, queueVars, workVars, ledgerVars, callVars, history
<1>0. CallTypes
  BY TypeParts
<1>1. ASSUME NEW c \in Calls, TryAdd(c) PROVE OkMeansNone'
  <2>1. /\ failures' = failures /\ op' = [op EXCEPT ![c] = "tryAdd"]
        /\ \A d \in Calls \ {c} : result'[d] = result[d]
    BY <1>0, <1>1, TryAddEffect
  <2> QED
    BY <1>0, <2>1 DEF OkMeansNone
<1>2. ASSUME NEW c \in Calls, Send(c) PROVE OkMeansNone'
  <2>1. /\ failures' = failures /\ result' = result
        /\ \A d \in Calls : op'[d] = "shutdown" => op[d] = "shutdown"
    BY <1>0, <1>2, SendEffect
  <2> QED
    BY <1>0, <2>1 DEF OkMeansNone
<1>3. ASSUME NEW c \in Calls, Commit(c) PROVE OkMeansNone'
  <2>1. /\ UNCHANGED <<failures, op>> /\ op[c] # "shutdown"
        /\ \A d \in Calls \ {c} : result'[d] = result[d]
    BY <1>0, <1>3, CommitEffect DEF CallsOK
  <2> QED
    BY <1>0, <2>1 DEF OkMeansNone
<1>4. ASSUME NEW c \in Calls, Refused(c) PROVE OkMeansNone'
  BY <1>0, <1>4 DEF Refused, Finish, OkMeansNone, CallsOK
<1>5. ASSUME NEW c \in Calls, Shutdown(c) PROVE OkMeansNone'
  BY <1>0, <1>5 DEF Shutdown, Start, Close, OkMeansNone, CallsOK
<1>6. ASSUME NEW c \in Calls, Observe(c) PROVE OkMeansNone'
  BY <1>0, <1>6 DEF Observe, Finish, OkMeansNone, CallsOK
<1>7. ASSUME NEW c \in Calls, AckLost(c) PROVE OkMeansNone'
  BY <1>0, <1>7 DEF AckLost, Close, OkMeansNone, CallsOK
<1>8. ASSUME NEW c \in Calls, Join(c) PROVE OkMeansNone'
  BY <1>0, <1>8 DEF Join, Finish, OkMeansNone, CallsOK
<1>9. ASSUME NEW c \in Calls, Cancel(c) PROVE OkMeansNone'
  <2>1. /\ UNCHANGED <<failures, op>> /\ result' = [result EXCEPT ![c] = "cancelled"]
    BY <1>9, CancelEffect
  <2> QED
    BY <1>0, <2>1 DEF OkMeansNone
<1>10. CASE DropBatcher
  BY <1>0, <1>10 DEF DropBatcher, Close, OkMeansNone, CallsOK
<1>11. CASE ProcessAdd
  <2>1. UNCHANGED <<op, result, failures>>
    BY <1>11, ProcessAddEffect
  <2> QED
    BY <2>1 DEF OkMeansNone
<1>12. CASE ProcessFlush
  <2>1. UNCHANGED <<op, result, failures>>
    BY <1>12, ProcessFlushEffect
  <2> QED
    BY <2>1 DEF OkMeansNone
<1>13. CASE Tick
  BY <1>0, <1>13 DEF Tick, OkMeansNone, CallsOK
<1>14. CASE SeeClosing
  BY <1>0, <1>14 DEF SeeClosing, OkMeansNone, CallsOK
<1>15. CASE Drained
  BY <1>0, <1>15 DEF Drained, OkMeansNone, CallsOK
<1>16. CASE Submitted
  <2>1. worker # "finished" /\ UNCHANGED <<op, result>>
    BY <1>16, SubmittedEffect DEF WorkerOK
  <2>2. \A d \in Calls : ~(op[d] = "shutdown" /\ result[d] = "ok")
    BY <2>1 DEF CallsOK, Answered
  <2> QED
    BY <2>1, <2>2 DEF OkMeansNone
<1>17. CASE WorkerDies
  BY <1>0, <1>17 DEF WorkerDies, Close, OkMeansNone, CallsOK
<1>18. CASE UNCHANGED vars
  BY <1>18 DEF vars, OkMeansNone
<1> QED
  BY <1>1, <1>2, <1>3, <1>4, <1>5, <1>6, <1>7, <1>8, <1>9, <1>10, <1>11,
     <1>12, <1>13, <1>14, <1>15, <1>16, <1>17, <1>18
     DEF Next, Terminated

\* What a queued flush owes does not change with what is elsewhere.
LEMMA QueueFrame ==
  ASSUME TypeOK, QueueOwed, commands' = commands, Taken \subseteq Taken',
         \A d \in ToSet(commands) : op'[d] = op[d] /\ owed'[d] = owed[d]
  PROVE  QueueOwed'
<1>1. \A i \in 1..Len(commands) : commands[i] \in ToSet(commands)
  BY InSet, TypeParts DEF QueueTypes
<1>2. Len(commands) \in Nat
  BY InSet, TypeParts DEF QueueTypes
<1> SUFFICES ASSUME NEW n \in 1..Len(commands), op'[commands[n]] = "flush"
             PROVE  owed'[commands[n]] \subseteq Taken' \cup Ahead(n)'
  BY DEF QueueOwed
<1>3. owed[commands[n]] \subseteq Taken \cup Ahead(n)
  BY <1>1 DEF QueueOwed
<1>4. Ahead(n)' = Ahead(n)
  BY <1>1, <1>2 DEF Ahead, Events
<1> QED
  BY <1>1, <1>3, <1>4

\* What is ahead depends on the places ahead alone.
LEMMA AheadSame ==
  ASSUME NEW n, \A i \in 1..(n - 1) :
                   i \in 1..Len(commands) /\ commands'[i] = commands[i],
         \A i \in 1..Len(commands) : commands[i] \in ToSet(commands),
         \A d \in ToSet(commands) : op'[d] = op[d]
  PROVE  Ahead(n)' = Ahead(n)
<1>1. {commands'[i] : i \in 1..(n - 1)} = {commands[i] : i \in 1..(n - 1)}
  OBVIOUS
<1>2. \A d \in {commands[i] : i \in 1..(n - 1)} : op'[d] = op[d]
  OBVIOUS
<1> QED
  BY <1>1, <1>2 DEF Ahead, Events

\* A command goes to the end; a flush owes at most what is queued then.
LEMMA QueueAppend ==
  ASSUME TypeOK, QueueOwed, NEW c \in Calls, commands' = Append(commands, c),
         Taken \subseteq Taken',
         \A d \in ToSet(commands) : op'[d] = op[d] /\ owed'[d] = owed[d],
         op'[c] = "flush" => owed'[c] \subseteq Taken' \cup Events(ToSet(commands))
  PROVE  QueueOwed'
<1>1. /\ \A i \in 1..Len(commands) : commands[i] \in ToSet(commands)
      /\ ToSet(commands) = {commands[i] : i \in 1..Len(commands)}
      /\ Len(commands) \in Nat /\ commands \in Seq(Calls)
  BY InSet, TypeParts DEF QueueTypes
<1>2. /\ Len(commands') = Len(commands) + 1 /\ commands'[Len(commands) + 1] = c
      /\ \A i \in 1..Len(commands) : commands'[i] = commands[i]
  BY <1>1, AppendFacts
<1> SUFFICES ASSUME NEW n \in 1..Len(commands'), op'[commands'[n]] = "flush"
             PROVE  owed'[commands'[n]] \subseteq Taken' \cup Ahead(n)'
  BY DEF QueueOwed
<1>3. CASE n \in 1..Len(commands)
  <2>1. owed[commands[n]] \subseteq Taken \cup Ahead(n)
    BY <1>1, <1>2, <1>3 DEF QueueOwed
  <2>2. Ahead(n)' = Ahead(n)
    <3>1. \A i \in 1..(n - 1) :
             i \in 1..Len(commands) /\ commands'[i] = commands[i]
      BY <1>1, <1>2, <1>3
    <3> QED
      BY <1>1, <3>1, AheadSame
  <2> QED
    BY <1>1, <1>2, <1>3, <2>1, <2>2
<1>4. CASE n = Len(commands) + 1
  <2>1. Ahead(n)' = Events(ToSet(commands))
    <3>1. {commands'[i] : i \in 1..(n - 1)} = ToSet(commands)
      BY <1>1, <1>2, <1>4
    <3> QED
      BY <3>1 DEF Ahead, Events
  <2> QED
    BY <1>2, <1>4, <2>1
<1> QED
  BY <1>1, <1>2, <1>3, <1>4

\* DropOldest takes an event out behind every flush.
LEMMA QueueReplace ==
  ASSUME TypeOK, QueueOwed, NEW c \in Calls, NEW p \in 1..Len(commands),
         commands' = Append(RemoveAt(commands, p), c), Taken \subseteq Taken',
         \A d \in ToSet(commands) : op'[d] = op[d] /\ owed'[d] = owed[d],
         op'[c] # "flush",
         \A i \in 1..Len(commands) : op[commands[i]] = "flush" => i < p
  PROVE  QueueOwed'
<1> DEFINE r == RemoveAt(commands, p)
<1>1. /\ \A i \in 1..Len(commands) : commands[i] \in ToSet(commands)
      /\ Len(commands) \in Nat /\ commands \in Seq(Calls)
  BY InSet, TypeParts DEF QueueTypes
<1>2. /\ r \in Seq(Calls) /\ Len(r) = Len(commands) - 1
      /\ \A i \in 1..(Len(commands) - 1) :
           r[i] = IF i < p THEN commands[i] ELSE commands[i + 1]
  BY <1>1, RemoveAtFacts
<1>3. commands' = Append(r, c)
  OBVIOUS
<1> HIDE DEF r
<1>4. /\ Len(commands') = Len(commands) /\ commands'[Len(commands)] = c
      /\ \A i \in 1..(Len(commands) - 1) : commands'[i] = r[i]
  <2>1. /\ Len(Append(r, c)) = Len(r) + 1 /\ Append(r, c)[Len(r) + 1] = c
        /\ \A i \in 1..Len(r) : Append(r, c)[i] = r[i]
    BY <1>2, AppendFacts
  <2>2. Len(r) + 1 = Len(commands)
    BY <1>1, <1>2
  <2> QED
    BY <1>2, <1>3, <2>1, <2>2
<1>5. \A i \in 1..Len(commands') : i = Len(commands) \/ i \in 1..(Len(commands) - 1)
  BY <1>1, <1>4
<1>6. \A i \in 1..(Len(commands) - 1) : i < p => commands'[i] = commands[i]
  BY <1>2, <1>4
<1>7. ASSUME NEW n \in 1..(Len(commands) - 1), ~(n < p)
      PROVE  op'[commands'[n]] # "flush"
  <2>1. /\ n + 1 \in 1..Len(commands) /\ ~(n + 1 < p)
        /\ commands'[n] = commands[n + 1]
    BY <1>1, <1>2, <1>4, <1>7
  <2> QED
    BY <1>1, <2>1
<1> SUFFICES ASSUME NEW n \in 1..Len(commands'), op'[commands'[n]] = "flush"
             PROVE  owed'[commands'[n]] \subseteq Taken' \cup Ahead(n)'
  BY DEF QueueOwed
<1>8. n \in 1..(Len(commands) - 1) /\ n < p
  BY <1>4, <1>5, <1>7
<1>9. /\ n \in 1..Len(commands) /\ commands'[n] = commands[n]
      /\ \A i \in 1..(n - 1) : i \in 1..Len(commands) /\ commands'[i] = commands[i]
  BY <1>1, <1>6, <1>8
<1>10. owed[commands[n]] \subseteq Taken \cup Ahead(n)
  BY <1>1, <1>9 DEF QueueOwed
<1>11. Ahead(n)' = Ahead(n)
  BY <1>1, <1>9, AheadSame
<1> QED
  BY <1>1, <1>9, <1>10, <1>11

\* The head of the queue moves on, or was a flush.
LEMMA QueueHead ==
  ASSUME TypeOK, OnceEach, QueueOwed, TakeHead, UNCHANGED <<op, owed>>,
         Taken \subseteq Taken',
         op[Head(commands)] = "flush" \/ Head(commands) \in Taken'
  PROVE  QueueOwed'
<1>1. /\ Head(commands) = commands[1]
      /\ Len(commands) \in Nat \ {0} /\ Len(commands') = Len(commands) - 1
      /\ \A i \in 1..Len(commands') :
           commands'[i] = commands[i + 1] /\ i + 1 \in 1..Len(commands)
  BY HeadSets
<1> SUFFICES ASSUME NEW n \in 1..Len(commands'), op[commands'[n]] = "flush"
             PROVE  owed[commands'[n]] \subseteq Taken' \cup Ahead(n)'
  BY DEF QueueOwed
<1>2. owed[commands'[n]] \subseteq Taken \cup Ahead(n + 1)
  BY <1>1 DEF QueueOwed
<1>3. ASSUME NEW d \in Ahead(n + 1) PROVE d \in Taken' \cup Ahead(n)'
  <2>1. PICK i \in 1..((n + 1) - 1) : d = commands[i] /\ op[d] # "flush"
    BY <1>3 DEF Ahead, Events
  <2>2. CASE i = 1
    BY <1>1, <2>1, <2>2
  <2>3. CASE i # 1
    <3>1. /\ i - 1 \in 1..(n - 1) /\ i - 1 \in 1..Len(commands')
          /\ (i - 1) + 1 = i
      BY <1>1, <2>1, <2>3
    <3>2. commands'[i - 1] = d
      BY <1>1, <2>1, <3>1
    <3> QED
      BY <2>1, <3>1, <3>2 DEF Ahead, Events
  <2> QED
    BY <2>2, <2>3
<1> QED
  BY <1>2, <1>3

\* What the head owes has left the queue.
LEMMA HeadOwed ==
  ASSUME TypeOK, OnceEach, QueueOwed, TakeHead, op[Head(commands)] = "flush"
  PROVE  owed[Head(commands)] \subseteq Taken
<1>1. Head(commands) = commands[1] /\ 1 \in 1..Len(commands)
  BY HeadSets
<1>2. Ahead(1) = {}
  BY DEF Ahead, Events
<1> QED
  BY <1>1, <1>2 DEF QueueOwed

\* A queued flush keeps what it owes before it.
LEMMA QueueOwedStep ==
  ASSUME TypeOK, FreshOK, WorkerOK, OnceEach, Partition, QueueOwed, [Next]_vars
  PROVE  QueueOwed'
<1> USE DEF CallTypes, QueueTypes, WorkTypes, HistoryTypes, queueVars,
            workVars, ledgerVars, callVars, history
<1>0. CallTypes /\ QueueTypes /\ WorkTypes /\ HistoryTypes
  BY TypeParts
<1>a. \A d \in Calls : stage[d] \in {"unused", "waiting", "reserved"} => d \notin Placed
  BY DEF FreshOK
<1>b. ToSet(commands) \subseteq Calls
  BY <1>0, InSet
<1>1. ASSUME NEW c \in Calls, TryAdd(c) PROVE QueueOwed'
  <2>1. /\ UNCHANGED <<buffer, batch, sent, owed>> /\ stage[c] = "unused"
        /\ op' = [op EXCEPT ![c] = "tryAdd"]
    BY <1>1, TryAddEffect
  <2>2. \A d \in ToSet(commands) : op'[d] = op[d] /\ owed'[d] = owed[d]
    BY <1>0, <1>a, <1>b, <2>1 DEF Placed
  <2>3. Taken \subseteq Taken' /\ op'[c] # "flush"
    BY <1>0, <2>1 DEF Taken
  <2> QED
    BY <1>1, <2>2, <2>3, TryAddSets, QueueFrame, QueueAppend, QueueReplace
<1>2. ASSUME NEW c \in Calls, Send(c) PROVE QueueOwed'
  <2>1. /\ UNCHANGED <<buffer, batch, sent, owed, commands>> /\ stage[c] = "unused"
        /\ \E kind \in {"add", "flush"} : op' = [op EXCEPT ![c] = kind]
    BY <1>2, SendEffect
  <2>2. \A d \in ToSet(commands) : op'[d] = op[d] /\ owed'[d] = owed[d]
    BY <1>0, <1>a, <1>b, <2>1 DEF Placed
  <2> QED
    BY <2>1, <2>2, QueueFrame DEF Taken
<1>3. ASSUME NEW c \in Calls, Commit(c) PROVE QueueOwed'
  <2>1. /\ UNCHANGED <<buffer, batch, sent, op>> /\ stage[c] = "reserved" /\ accepting
        /\ commands' = Append(commands, c)
        /\ \/ op[c] = "flush" /\ owed' = [owed EXCEPT ![c] = ToSet(accepted) \ replaced]
           \/ op[c] # "flush" /\ owed' = owed
    BY <1>3, CommitEffect
  <2>2. \A d \in ToSet(commands) : op'[d] = op[d] /\ owed'[d] = owed[d]
    BY <1>0, <1>a, <1>b, <2>1 DEF Placed
  <2>3. op'[c] = "flush" => owed'[c] \subseteq Taken' \cup Events(ToSet(commands))
    <3>1. ToSet(accepted) \ replaced = Taken \cup Events(ToSet(commands))
      BY <2>1 DEF WorkerOK, Partition, Taken
    <3>2. Taken' = Taken
      BY <2>1 DEF Taken
    <3> QED
      BY <1>0, <2>1, <3>1, <3>2
  <2>4. Taken \subseteq Taken'
    BY <2>1 DEF Taken
  <2> QED
    BY <2>1, <2>2, <2>3, <2>4, QueueAppend
<1>4. ASSUME NEW c \in Calls, Refused(c) PROVE QueueOwed'
  <2>1. /\ UNCHANGED <<commands, owed>> /\ Taken \subseteq Taken'
        /\ \A d \in ToSet(commands) : op'[d] = op[d]
    BY <1>0, <1>a, <1>b, <1>4, EmptySet DEF Refused, Finish, Placed, Taken
  <2> QED
    BY <2>1, QueueFrame
<1>5. ASSUME NEW c \in Calls, Shutdown(c) PROVE QueueOwed'
  <2>1. /\ UNCHANGED <<commands, owed>> /\ Taken \subseteq Taken'
        /\ \A d \in ToSet(commands) : op'[d] = op[d]
    BY <1>0, <1>a, <1>b, <1>5, EmptySet DEF Shutdown, Start, Close, Placed, Taken
  <2> QED
    BY <2>1, QueueFrame
<1>6. ASSUME NEW c \in Calls, Observe(c) PROVE QueueOwed'
  <2>1. /\ UNCHANGED <<commands, owed>> /\ Taken \subseteq Taken'
        /\ \A d \in ToSet(commands) : op'[d] = op[d]
    BY <1>0, <1>a, <1>b, <1>6, EmptySet DEF Observe, Finish, Placed, Taken
  <2> QED
    BY <2>1, QueueFrame
<1>7. ASSUME NEW c \in Calls, AckLost(c) PROVE QueueOwed'
  <2>1. /\ UNCHANGED <<commands, owed>> /\ Taken \subseteq Taken'
        /\ \A d \in ToSet(commands) : op'[d] = op[d]
    BY <1>0, <1>a, <1>b, <1>7, EmptySet DEF AckLost, Close, Placed, Taken
  <2> QED
    BY <2>1, QueueFrame
<1>8. ASSUME NEW c \in Calls, Join(c) PROVE QueueOwed'
  <2>1. /\ UNCHANGED <<commands, owed>> /\ Taken \subseteq Taken'
        /\ \A d \in ToSet(commands) : op'[d] = op[d]
    BY <1>0, <1>a, <1>b, <1>8, EmptySet DEF Join, Finish, Placed, Taken
  <2> QED
    BY <2>1, QueueFrame
<1>9. ASSUME NEW c \in Calls, Cancel(c) PROVE QueueOwed'
  <2>1. /\ UNCHANGED <<commands, owed>> /\ Taken \subseteq Taken'
        /\ \A d \in ToSet(commands) : op'[d] = op[d]
    BY <1>9, CancelEffect DEF Taken
  <2> QED
    BY <2>1, QueueFrame
<1>10. CASE DropBatcher
  <2>1. /\ UNCHANGED <<commands, owed>> /\ Taken \subseteq Taken'
        /\ \A d \in ToSet(commands) : op'[d] = op[d]
    BY <1>0, <1>a, <1>b, <1>10, EmptySet DEF DropBatcher, Close, Placed, Taken
  <2> QED
    BY <2>1, QueueFrame
<1>11. CASE ProcessAdd
  <2>1. /\ UNCHANGED <<op, owed, sent>>
    BY <1>11, ProcessAddEffect
  <2>2. /\ TakeHead /\ ToSet(batch) = {}
        /\ ToSet(batch') \cup ToSet(buffer') = ToSet(buffer) \cup {Head(commands)}
    BY <1>11, ProcessAddSets
  <2>3. Taken \subseteq Taken' /\ Head(commands) \in Taken'
    BY <2>1, <2>2 DEF Taken
  <2> QED
    BY <2>1, <2>2, <2>3, QueueHead
<1>12. CASE ProcessFlush
  <2>1. /\ UNCHANGED <<op, owed, sent>> /\ TakeHead /\ batch = <<>>
        /\ op[Head(commands)] = "flush"
        /\ \/ UNCHANGED <<buffer, batch>>
           \/ batch' = buffer /\ buffer' = <<>>
    BY <1>12, ProcessFlushEffect
  <2>2. Taken \subseteq Taken'
    BY <2>1, EmptySet DEF Taken
  <2> QED
    BY <2>1, <2>2, QueueHead
<1>13. CASE Tick
  <2>1. /\ UNCHANGED <<commands, owed>> /\ Taken \subseteq Taken'
        /\ \A d \in ToSet(commands) : op'[d] = op[d]
    BY <1>0, <1>a, <1>b, <1>13, EmptySet DEF Tick, Placed, Taken
  <2> QED
    BY <2>1, QueueFrame
<1>14. CASE SeeClosing
  <2>1. /\ UNCHANGED <<commands, owed>> /\ Taken \subseteq Taken'
        /\ \A d \in ToSet(commands) : op'[d] = op[d]
    BY <1>0, <1>a, <1>b, <1>14, EmptySet DEF SeeClosing, Placed, Taken
  <2> QED
    BY <2>1, QueueFrame
<1>15. CASE Drained
  <2>1. /\ UNCHANGED <<commands, owed>> /\ Taken \subseteq Taken'
        /\ \A d \in ToSet(commands) : op'[d] = op[d]
    BY <1>0, <1>a, <1>b, <1>15, EmptySet DEF Drained, Placed, Taken
  <2> QED
    BY <2>1, QueueFrame
<1>16. CASE Submitted
  <2>1. /\ UNCHANGED <<op, owed, commands, buffer>> /\ sent' = sent \o batch
    BY <1>16, SubmittedEffect
  <2>2. ToSet(sent') = ToSet(sent) \cup ToSet(batch)
    BY <1>0, <2>1, ConcatSet
  <2>3. Taken \subseteq Taken'
    BY <2>1, <2>2 DEF Taken
  <2> QED
    BY <2>1, <2>3, QueueFrame
<1>17. CASE WorkerDies
  <2>1. commands' = <<>>
    BY <1>17 DEF WorkerDies
  <2>2. 1..Len(commands') = {}
    BY <2>1
  <2> QED
    BY <2>2 DEF QueueOwed
<1>18. CASE UNCHANGED vars
  <2>1. UNCHANGED <<commands, owed, op>> /\ Taken \subseteq Taken'
    BY <1>18 DEF vars, Taken
  <2> QED
    BY <2>1, QueueFrame
<1> QED
  BY <1>1, <1>2, <1>3, <1>4, <1>5, <1>6, <1>7, <1>8, <1>9, <1>10, <1>11,
     <1>12, <1>13, <1>14, <1>15, <1>16, <1>17, <1>18
     DEF Next, Terminated

\* The batch of an acknowledgement holds the rest of what is owed.
LEMMA AckOwedStep ==
  ASSUME TypeOK, FreshOK, OnceEach, QueueOwed, AckOwed, [Next]_vars
  PROVE  AckOwed'
<1> USE DEF CallTypes, QueueTypes, WorkTypes, HistoryTypes, queueVars,
            workVars, ledgerVars, callVars, history
<1>0. CallTypes /\ QueueTypes /\ WorkTypes /\ HistoryTypes
  BY TypeParts
<1>a. \A d \in Calls : stage[d] \in {"unused", "waiting", "reserved"} => d \notin Placed
  BY DEF FreshOK
<1>b. ToSet(commands) \subseteq Calls
  BY <1>0, InSet
<1>1. ASSUME NEW c \in Calls, TryAdd(c) PROVE AckOwed'
  <2>1. UNCHANGED <<ackTo, owed, sent, batch>>
    BY <1>1, TryAddEffect
  <2> QED
    BY <2>1 DEF AckOwed
<1>2. ASSUME NEW c \in Calls, Send(c) PROVE AckOwed'
  <2>1. UNCHANGED <<ackTo, owed, sent, batch>>
    BY <1>2, SendEffect
  <2> QED
    BY <2>1 DEF AckOwed
<1>3. ASSUME NEW c \in Calls, Commit(c) PROVE AckOwed'
  <2>1. UNCHANGED <<ackTo, sent, batch>> /\ stage[c] = "reserved"
    BY <1>3, CommitEffect
  <2>2. ackTo # NoCall => owed'[ackTo] = owed[ackTo]
    BY <1>0, <1>a, <1>3, <2>1, CommitEffect DEF Placed
  <2> QED
    BY <2>1, <2>2 DEF AckOwed
<1>4. ASSUME NEW c \in Calls, Refused(c) PROVE AckOwed'
  BY <1>4 DEF Refused, Finish, AckOwed
<1>5. ASSUME NEW c \in Calls, Shutdown(c) PROVE AckOwed'
  BY <1>5 DEF Shutdown, Start, Close, AckOwed
<1>6. ASSUME NEW c \in Calls, Observe(c) PROVE AckOwed'
  BY <1>6 DEF Observe, Finish, AckOwed
<1>7. ASSUME NEW c \in Calls, AckLost(c) PROVE AckOwed'
  BY <1>7 DEF AckLost, Close, AckOwed
<1>8. ASSUME NEW c \in Calls, Join(c) PROVE AckOwed'
  BY <1>8 DEF Join, Finish, AckOwed
<1>9. ASSUME NEW c \in Calls, Cancel(c) PROVE AckOwed'
  <2>1. UNCHANGED <<ackTo, owed, sent, batch>>
    BY <1>9, CancelEffect
  <2> QED
    BY <2>1 DEF AckOwed
<1>10. CASE DropBatcher
  BY <1>10 DEF DropBatcher, Close, AckOwed
<1>11. CASE ProcessAdd
  <2>1. UNCHANGED <<ackTo, owed, sent>> /\ batch = <<>>
    BY <1>11, ProcessAddEffect
  <2> QED
    BY <2>1, EmptySet DEF AckOwed
<1>12. CASE ProcessFlush
  <2>1. UNCHANGED <<owed, sent>> /\ batch = <<>>
    BY <1>12, ProcessFlushEffect
  <2>2. owed[Head(commands)] \subseteq Taken
    BY <1>12, ProcessFlushEffect, HeadOwed
  <2>3. \/ UNCHANGED <<batch, ackTo>>
        \/ batch' = buffer /\ ackTo' = Head(commands)
    BY <1>12, ProcessFlushEffect
  <2> QED
    BY <2>1, <2>2, <2>3, EmptySet DEF AckOwed, Taken
<1>13. CASE Tick
  BY <1>13, EmptySet DEF Tick, AckOwed
<1>14. CASE SeeClosing
  BY <1>14 DEF SeeClosing, AckOwed
<1>15. CASE Drained
  BY <1>15, EmptySet DEF Drained, AckOwed
<1>16. CASE Submitted
  <2>1. ackTo' = NoCall
    BY <1>16, SubmittedEffect
  <2> QED
    BY <2>1 DEF AckOwed
<1>17. CASE WorkerDies
  BY <1>17 DEF WorkerDies, AckOwed
<1>18. CASE UNCHANGED vars
  BY <1>18 DEF vars, AckOwed
<1> QED
  BY <1>1, <1>2, <1>3, <1>4, <1>5, <1>6, <1>7, <1>8, <1>9, <1>10, <1>11,
     <1>12, <1>13, <1>14, <1>15, <1>16, <1>17, <1>18
     DEF Next, Terminated

\* What has been reported stays so: a later failure has nothing of what is sent.
LEMMA ReportedKept ==
  ASSUME TypeOK, Partition, NEW c \in Calls, NEW seen, NEW more,
         Reported(c, seen), seen \subseteq more, owed'[c] = owed[c],
         ToSet(sent) \subseteq ToSet(sent'),
         failures' = failures \/ failures' = Append(failures, ToSet(batch))
  PROVE  Reported(c, more)'
<1>1. failures \in Seq(SUBSET Calls) /\ batch \in Seq(Calls)
  BY TypeParts DEF LedgerTypes, WorkTypes
<1>2. ToSet(batch) \in SUBSET Calls /\ ToSet(batch) \cap owed[c] = {}
  BY <1>1, InSet DEF Partition, Reported
<1>3. CASE failures' = failures
  BY <1>3 DEF Reported
<1>4. CASE failures' = Append(failures, ToSet(batch))
  <2>1. /\ Len(failures') = Len(failures) + 1
        /\ failures'[Len(failures) + 1] = ToSet(batch)
        /\ \A k \in 1..Len(failures) : failures'[k] = failures[k]
        /\ DOMAIN failures = 1..Len(failures) /\ Len(failures) \in Nat
        /\ DOMAIN failures' = 1..(Len(failures) + 1)
    <3>1. /\ Len(Append(failures, ToSet(batch))) = Len(failures) + 1
          /\ Append(failures, ToSet(batch))[Len(failures) + 1] = ToSet(batch)
          /\ \A k \in 1..Len(failures) :
               Append(failures, ToSet(batch))[k] = failures[k]
          /\ Append(failures, ToSet(batch)) \in Seq(SUBSET Calls)
      BY <1>1, <1>2, AppendFacts
    <3>2. failures' \in Seq(SUBSET Calls) /\ Len(failures') = Len(failures) + 1
      BY <1>4, <3>1
    <3>3. DOMAIN failures = 1..Len(failures) /\ Len(failures) \in Nat
      BY <1>1
    <3>4. DOMAIN failures' = 1..Len(failures')
      BY <3>2
    <3> QED
      BY <1>4, <3>1, <3>2, <3>3, <3>4
  <2>2. \A k \in DOMAIN failures' : k \in DOMAIN failures \/ k = Len(failures) + 1
    BY <2>1
  <2>3. \A k \in DOMAIN failures' : failures'[k] \cap owed[c] # {} => k \in seen
    BY <1>2, <2>1, <2>2 DEF Reported
  <2> QED
    BY <2>3 DEF Reported
<1> QED
  BY <1>3, <1>4

\* An acknowledgement covers what its flush owes.
LEMMA AckedStep ==
  ASSUME TypeOK, SnapshotsOK, FreshOK, OnceEach, Partition, QueueOwed,
         AckOwed, AckedOK, [Next]_vars
  PROVE  AckedOK'
<1> USE DEF CallTypes, WorkTypes, HistoryTypes, LedgerTypes, queueVars,
            workVars, ledgerVars, callVars, history
<1>0. CallTypes /\ WorkTypes /\ HistoryTypes /\ LedgerTypes
  BY TypeParts
<1>a. \A d \in Calls : stage[d] \in {"unused", "waiting", "reserved"} => d \notin Placed
  BY DEF FreshOK
<1>1. ASSUME NEW c \in Calls, TryAdd(c) PROVE AckedOK'
  <2>1. UNCHANGED <<sent, failures>>
    BY <1>1, TryAddEffect
  <2>2. \A d \in Calls : stage'[d] = "acked" =>
           stage[d] = "acked" /\ snap'[d] = snap[d] /\ owed'[d] = owed[d]
    BY <1>0, <1>1, TryAddEffect
  <2> QED
    BY <2>1, <2>2, ReportedKept DEF AckedOK
<1>2. ASSUME NEW c \in Calls, Send(c) PROVE AckedOK'
  <2>1. UNCHANGED <<sent, failures>>
    BY <1>2, SendEffect
  <2>2. \A d \in Calls : stage'[d] = "acked" =>
           stage[d] = "acked" /\ snap'[d] = snap[d] /\ owed'[d] = owed[d]
    BY <1>0, <1>2, SendEffect
  <2> QED
    BY <2>1, <2>2, ReportedKept DEF AckedOK
<1>3. ASSUME NEW c \in Calls, Commit(c) PROVE AckedOK'
  <2>1. UNCHANGED <<sent, failures>>
    BY <1>3, CommitEffect
  <2>2. \A d \in Calls : stage'[d] = "acked" =>
           stage[d] = "acked" /\ snap'[d] = snap[d] /\ owed'[d] = owed[d]
    BY <1>0, <1>3, CommitEffect
  <2> QED
    BY <2>1, <2>2, ReportedKept DEF AckedOK
<1>4. ASSUME NEW c \in Calls, Refused(c) PROVE AckedOK'
  <2>1. UNCHANGED <<sent, failures>>
    BY <1>4 DEF Refused, Finish
  <2>2. \A d \in Calls : stage'[d] = "acked" =>
           stage[d] = "acked" /\ snap'[d] = snap[d] /\ owed'[d] = owed[d]
    BY <1>0, <1>4 DEF Refused, Finish
  <2> QED
    BY <2>1, <2>2, ReportedKept DEF AckedOK
<1>5. ASSUME NEW c \in Calls, Shutdown(c) PROVE AckedOK'
  <2>1. UNCHANGED <<sent, failures>>
    BY <1>5 DEF Shutdown, Start, Close
  <2>2. \A d \in Calls : stage'[d] = "acked" =>
           stage[d] = "acked" /\ snap'[d] = snap[d] /\ owed'[d] = owed[d]
    BY <1>0, <1>5 DEF Shutdown, Start, Close
  <2> QED
    BY <2>1, <2>2, ReportedKept DEF AckedOK
<1>6. ASSUME NEW c \in Calls, Observe(c) PROVE AckedOK'
  <2>1. UNCHANGED <<sent, failures>>
    BY <1>6 DEF Observe, Finish
  <2>2. \A d \in Calls : stage'[d] = "acked" =>
           stage[d] = "acked" /\ snap'[d] = snap[d] /\ owed'[d] = owed[d]
    BY <1>0, <1>6 DEF Observe, Finish
  <2> QED
    BY <2>1, <2>2, ReportedKept DEF AckedOK
<1>7. ASSUME NEW c \in Calls, AckLost(c) PROVE AckedOK'
  <2>1. UNCHANGED <<sent, failures>>
    BY <1>7 DEF AckLost, Close
  <2>2. \A d \in Calls : stage'[d] = "acked" =>
           stage[d] = "acked" /\ snap'[d] = snap[d] /\ owed'[d] = owed[d]
    BY <1>0, <1>7 DEF AckLost, Close
  <2> QED
    BY <2>1, <2>2, ReportedKept DEF AckedOK
<1>8. ASSUME NEW c \in Calls, Join(c) PROVE AckedOK'
  <2>1. UNCHANGED <<sent, failures>>
    BY <1>8 DEF Join, Finish
  <2>2. \A d \in Calls : stage'[d] = "acked" =>
           stage[d] = "acked" /\ snap'[d] = snap[d] /\ owed'[d] = owed[d]
    BY <1>0, <1>8 DEF Join, Finish
  <2> QED
    BY <2>1, <2>2, ReportedKept DEF AckedOK
<1>9. ASSUME NEW c \in Calls, Cancel(c) PROVE AckedOK'
  <2>1. UNCHANGED <<sent, failures>>
    BY <1>9, CancelEffect
  <2>2. \A d \in Calls : stage'[d] = "acked" =>
           stage[d] = "acked" /\ snap'[d] = snap[d] /\ owed'[d] = owed[d]
    BY <1>0, <1>9, CancelEffect
  <2> QED
    BY <2>1, <2>2, ReportedKept DEF AckedOK
<1>10. CASE DropBatcher
  <2>1. UNCHANGED <<sent, failures>>
    BY <1>10 DEF DropBatcher, Close
  <2>2. \A d \in Calls : stage'[d] = "acked" =>
           stage[d] = "acked" /\ snap'[d] = snap[d] /\ owed'[d] = owed[d]
    BY <1>0, <1>10 DEF DropBatcher, Close
  <2> QED
    BY <2>1, <2>2, ReportedKept DEF AckedOK
<1>11. CASE ProcessAdd
  <2>1. /\ UNCHANGED <<sent, failures, snap, owed>> /\ TakeHead /\ stage' = Handed
    BY <1>11, ProcessAddEffect
  <2>2. \A d \in Calls : stage'[d] = "acked" => stage[d] = "acked"
    BY <1>0, <2>1, HeadEffect
  <2> QED
    BY <2>1, <2>2, ReportedKept DEF AckedOK
<1>12. CASE ProcessFlush
  <2>1. /\ UNCHANGED <<sent, failures, owed>> /\ TakeHead /\ batch = <<>>
        /\ Head(commands) \in Calls /\ Handed \in [Calls -> Stages]
        /\ owed[Head(commands)] \subseteq Taken
    BY <1>0, <1>12, ProcessFlushEffect, HeadEffect, HeadOwed DEF Stages
  <2>2. \A d \in Calls : Handed[d] = "acked" => stage[d] = "acked"
    BY <1>0, <2>1, HeadEffect
  <2>3. CASE stage' = Handed /\ snap' = snap
    BY <2>1, <2>2, <2>3, ReportedKept DEF AckedOK
  <2>4. CASE /\ buffer = <<>>
             /\ stage' = [Handed EXCEPT ![Head(commands)] = "acked"]
             /\ snap' = [snap EXCEPT ![Head(commands)] =
                           [through |-> Len(failures),
                            failures |-> Len(failures) - confirmed]]
    <3>0. PICK h \in Calls : h = Head(commands)
      BY <2>1
    <3>1. \A d \in Calls \ {h} : stage'[d] = "acked" =>
             stage[d] = "acked" /\ snap'[d] = snap[d]
      BY <1>0, <2>1, <2>2, <2>4, <3>0
    <3>2. snap'[h].through = Len(failures)
      BY <1>0, <2>1, <2>4, <3>0
    <3>3. owed[h] \subseteq ToSet(sent)
      BY <2>1, <2>4, <3>0, EmptySet DEF Taken
    <3>4. DOMAIN failures' = 1..Len(failures)
      BY <1>0, <2>1
    <3>5. Reported(h, 1..snap[h].through)'
      BY <2>1, <3>2, <3>3, <3>4 DEF Reported
    <3> QED
      BY <2>1, <3>1, <3>5, ReportedKept DEF AckedOK
  <2> QED
    BY <1>12, <2>3, <2>4, ProcessFlushEffect, AckEffect
<1>13. CASE Tick
  <2>1. UNCHANGED <<sent, failures>>
    BY <1>13 DEF Tick
  <2>2. \A d \in Calls : stage'[d] = "acked" =>
           stage[d] = "acked" /\ snap'[d] = snap[d] /\ owed'[d] = owed[d]
    BY <1>0, <1>13 DEF Tick
  <2> QED
    BY <2>1, <2>2, ReportedKept DEF AckedOK
<1>14. CASE SeeClosing
  <2>1. UNCHANGED <<sent, failures>>
    BY <1>14 DEF SeeClosing
  <2>2. \A d \in Calls : stage'[d] = "acked" =>
           stage[d] = "acked" /\ snap'[d] = snap[d] /\ owed'[d] = owed[d]
    BY <1>0, <1>14 DEF SeeClosing
  <2> QED
    BY <2>1, <2>2, ReportedKept DEF AckedOK
<1>15. CASE Drained
  <2>1. UNCHANGED <<sent, failures>>
    BY <1>15 DEF Drained
  <2>2. \A d \in Calls : stage'[d] = "acked" =>
           stage[d] = "acked" /\ snap'[d] = snap[d] /\ owed'[d] = owed[d]
    BY <1>0, <1>15 DEF Drained
  <2> QED
    BY <2>1, <2>2, ReportedKept DEF AckedOK
<1>16. CASE Submitted
  <2>1. /\ owed' = owed /\ sent' = sent \o batch
        /\ failures' = failures \/ failures' = Append(failures, ToSet(batch))
    BY <1>16, SubmittedEffect
  <2>2. ToSet(sent') = ToSet(sent) \cup ToSet(batch)
    BY <1>0, <2>1, ConcatSet
  <2>3. ASSUME NEW d \in Calls, stage[d] = "acked", snap'[d] = snap[d]
        PROVE  Reported(d, 1..snap[d].through)'
    BY <2>1, <2>2, <2>3, ReportedKept DEF AckedOK
  <2>4. CASE stage' = stage /\ snap' = snap
    BY <2>3, <2>4 DEF AckedOK
  <2>5. CASE /\ ackTo # NoCall
             /\ stage' = [stage EXCEPT ![ackTo] = "acked"]
             /\ snap' = [snap EXCEPT ![ackTo] =
                           [through |-> Len(failures'),
                            failures |-> Len(failures') - confirmed]]
    <3>1. PICK a \in Calls : a = ackTo
      BY <1>0, <2>5
    <3>2. \A d \in Calls \ {a} : stage'[d] = "acked" =>
             stage[d] = "acked" /\ snap'[d] = snap[d]
      BY <1>0, <2>5, <3>1
    <3>3. snap'[a].through = Len(failures')
      BY <1>0, <2>5, <3>1
    <3>4. owed[a] \subseteq ToSet(sent')
      BY <2>2, <2>5, <3>1 DEF AckOwed
    <3>5. DOMAIN failures' = 1..Len(failures')
      <4>1. failures' \in Seq(SUBSET Calls)
        BY LedgerTypesStep DEF LedgerTypes
      <4> QED
        BY <4>1
    <3>6. Reported(a, 1..snap[a].through)'
      BY <2>1, <3>3, <3>4, <3>5 DEF Reported
    <3> QED
      BY <2>3, <3>2, <3>6 DEF AckedOK
  <2> QED
    BY <1>16, <2>4, <2>5, SubmittedEffect, AckEffect
<1>17. CASE WorkerDies
  <2>1. UNCHANGED <<sent, failures>>
    BY <1>17 DEF WorkerDies, Close
  <2>2. \A d \in Calls : stage'[d] = "acked" =>
           stage[d] = "acked" /\ snap'[d] = snap[d] /\ owed'[d] = owed[d]
    BY <1>0, <1>17 DEF WorkerDies, Close
  <2> QED
    BY <2>1, <2>2, ReportedKept DEF AckedOK
<1>18. CASE UNCHANGED vars
  BY <1>18 DEF vars, AckedOK, Reported
<1> QED
  BY <1>1, <1>2, <1>3, <1>4, <1>5, <1>6, <1>7, <1>8, <1>9, <1>10, <1>11,
     <1>12, <1>13, <1>14, <1>15, <1>16, <1>17, <1>18
     DEF Next, Terminated

\* A flush that was answered stays covered.
LEMMA CoversStep ==
  ASSUME TypeOK, SnapshotsOK, NothingConfirmedUnseen, CallsOK, Partition,
         AckedOK, FlushCovers, [Next]_vars
  PROVE  FlushCovers'
<1> USE DEF CallTypes, HistoryTypes, queueVars, workVars, ledgerVars,
            callVars, history
<1>0. CallTypes /\ HistoryTypes
  BY TypeParts
<1>a. \A d \in Calls : op[d] = "flush" /\ Answered(d) => Reported(d, told)
  BY DEF FlushCovers, Reported
<1>1. ASSUME NEW c \in Calls, TryAdd(c) PROVE FlushCovers'
  <2>1. /\ ToSet(sent) \subseteq ToSet(sent') /\ told \subseteq told'
        /\ failures' = failures
    BY <1>1, TryAddEffect
  <2>2. \A d \in Calls : op'[d] = "flush" /\ Answered(d)' =>
           op[d] = "flush" /\ Answered(d) /\ owed'[d] = owed[d]
    BY <1>0, <1>1, TryAddEffect DEF Answered, CallsOK
  <2> QED
    BY <1>a, <2>1, <2>2, ReportedKept DEF FlushCovers, Reported
<1>2. ASSUME NEW c \in Calls, Send(c) PROVE FlushCovers'
  <2>1. /\ ToSet(sent) \subseteq ToSet(sent') /\ told \subseteq told'
        /\ failures' = failures
    BY <1>2, SendEffect
  <2>2. \A d \in Calls : op'[d] = "flush" /\ Answered(d)' =>
           op[d] = "flush" /\ Answered(d) /\ owed'[d] = owed[d]
    BY <1>0, <1>2, SendEffect DEF Answered, CallsOK
  <2> QED
    BY <1>a, <2>1, <2>2, ReportedKept DEF FlushCovers, Reported
<1>3. ASSUME NEW c \in Calls, Commit(c) PROVE FlushCovers'
  <2>1. /\ ToSet(sent) \subseteq ToSet(sent') /\ told \subseteq told'
        /\ failures' = failures
    BY <1>3, CommitEffect
  <2>2. \A d \in Calls : op'[d] = "flush" /\ Answered(d)' =>
           op[d] = "flush" /\ Answered(d) /\ owed'[d] = owed[d]
    BY <1>0, <1>3, CommitEffect DEF Answered, CallsOK
  <2> QED
    BY <1>a, <2>1, <2>2, ReportedKept DEF FlushCovers, Reported
<1>4. ASSUME NEW c \in Calls, Refused(c) PROVE FlushCovers'
  <2>1. /\ ToSet(sent) \subseteq ToSet(sent') /\ told \subseteq told'
        /\ failures' = failures
    BY <1>4 DEF Refused, Finish
  <2>2. \A d \in Calls : op'[d] = "flush" /\ Answered(d)' =>
           op[d] = "flush" /\ Answered(d) /\ owed'[d] = owed[d]
    BY <1>0, <1>4 DEF Refused, Finish, Answered
  <2> QED
    BY <1>a, <2>1, <2>2, ReportedKept DEF FlushCovers, Reported
<1>5. ASSUME NEW c \in Calls, Shutdown(c) PROVE FlushCovers'
  <2>1. /\ ToSet(sent) \subseteq ToSet(sent') /\ told \subseteq told'
        /\ failures' = failures
    BY <1>5 DEF Shutdown, Start, Close
  <2>2. \A d \in Calls : op'[d] = "flush" /\ Answered(d)' =>
           op[d] = "flush" /\ Answered(d) /\ owed'[d] = owed[d]
    BY <1>0, <1>5 DEF Shutdown, Start, Close, Answered
  <2> QED
    BY <1>a, <2>1, <2>2, ReportedKept DEF FlushCovers, Reported
<1>6. ASSUME NEW c \in Calls, Observe(c) PROVE FlushCovers'
  <2>1. /\ UNCHANGED <<sent, failures, owed, op>> /\ stage[c] = "acked"
        /\ told' = told \cup
             ((snap[c].through - snap[c].failures + 1)..snap[c].through)
        /\ \A d \in Calls \ {c} : result'[d] = result[d]
    BY <1>0, <1>6 DEF Observe, Finish
  <2>2. \A d \in Calls \ {c} : op'[d] = "flush" /\ Answered(d)' => Reported(d, told)'
    BY <1>a, <2>1, ReportedKept DEF Answered
  <2>3. Reported(c, 1..snap[c].through)
    BY <2>1 DEF AckedOK
  <2>4. 1..snap[c].through \subseteq told'
    <3>1. /\ snap[c].through - snap[c].failures <= confirmed
          /\ snap[c].through \in Nat /\ snap[c].failures \in Nat
          /\ confirmed \in Nat
      BY <1>0, <2>1, TypeParts DEF SnapshotsOK, Snapshots, LedgerTypes
    <3>2. 1..snap[c].through \subseteq
             1..confirmed \cup
               ((snap[c].through - snap[c].failures + 1)..snap[c].through)
      BY <3>1
    <3> QED
      BY <2>1, <3>2 DEF NothingConfirmedUnseen
  <2>5. Reported(c, told)'
    BY <2>1, <2>3, <2>4, ReportedKept
  <2> QED
    BY <2>2, <2>5 DEF FlushCovers, Reported
<1>7. ASSUME NEW c \in Calls, AckLost(c) PROVE FlushCovers'
  <2>1. /\ ToSet(sent) \subseteq ToSet(sent') /\ told \subseteq told'
        /\ failures' = failures
    BY <1>7 DEF AckLost, Close
  <2>2. \A d \in Calls : op'[d] = "flush" /\ Answered(d)' =>
           op[d] = "flush" /\ Answered(d) /\ owed'[d] = owed[d]
    BY <1>0, <1>7 DEF AckLost, Close, Answered
  <2> QED
    BY <1>a, <2>1, <2>2, ReportedKept DEF FlushCovers, Reported
<1>8. ASSUME NEW c \in Calls, Join(c) PROVE FlushCovers'
  <2>1. /\ UNCHANGED <<sent, failures, owed, op>> /\ stage[c] = "joining"
        /\ told' = IF worker = "dead" THEN told ELSE DOMAIN failures
        /\ \A d \in Calls \ {c} : result'[d] = result[d]
    BY <1>0, <1>8 DEF Join, Finish
  <2>2. told \subseteq told'
    <3>1. told \subseteq 1..Len(failures) /\ DOMAIN failures = 1..Len(failures)
      BY TypeParts DEF LedgerTypes
    <3> QED
      BY <2>1, <3>1
  <2>3. \A d \in Calls \ {c} : op'[d] = "flush" /\ Answered(d)' => Reported(d, told)'
    BY <1>a, <2>1, <2>2, ReportedKept DEF Answered
  <2>4. ASSUME op[c] = "flush", Answered(c)' PROVE Reported(c, told)'
    <3>1. worker # "dead"
      BY <1>0, <1>8, <2>4 DEF Join, Finish, Answered
    <3>2. owed[c] = {}
      BY <2>1, <2>4, <3>1 DEF CallsOK
    <3> QED
      BY <2>1, <3>2 DEF Reported
  <2> QED
    BY <2>1, <2>3, <2>4 DEF FlushCovers, Reported
<1>9. ASSUME NEW c \in Calls, Cancel(c) PROVE FlushCovers'
  <2>1. /\ ToSet(sent) \subseteq ToSet(sent') /\ told \subseteq told'
        /\ failures' = failures
    BY <1>9, CancelEffect
  <2>2. \A d \in Calls : op'[d] = "flush" /\ Answered(d)' =>
           op[d] = "flush" /\ Answered(d) /\ owed'[d] = owed[d]
    BY <1>0, <1>9, CancelEffect DEF Answered, CallsOK
  <2> QED
    BY <1>a, <2>1, <2>2, ReportedKept DEF FlushCovers, Reported
<1>10. CASE DropBatcher
  <2>1. /\ ToSet(sent) \subseteq ToSet(sent') /\ told \subseteq told'
        /\ failures' = failures
    BY <1>10 DEF DropBatcher, Close
  <2>2. \A d \in Calls : op'[d] = "flush" /\ Answered(d)' =>
           op[d] = "flush" /\ Answered(d) /\ owed'[d] = owed[d]
    BY <1>0, <1>10 DEF DropBatcher, Close, Answered
  <2> QED
    BY <1>a, <2>1, <2>2, ReportedKept DEF FlushCovers, Reported
<1>11. CASE ProcessAdd
  <2>1. /\ ToSet(sent) \subseteq ToSet(sent') /\ told \subseteq told'
        /\ failures' = failures
    BY <1>11, ProcessAddEffect
  <2>2. \A d \in Calls : op'[d] = "flush" /\ Answered(d)' =>
           op[d] = "flush" /\ Answered(d) /\ owed'[d] = owed[d]
    BY <1>0, <1>11, ProcessAddEffect DEF Answered
  <2> QED
    BY <1>a, <2>1, <2>2, ReportedKept DEF FlushCovers, Reported
<1>12. CASE ProcessFlush
  <2>1. /\ ToSet(sent) \subseteq ToSet(sent') /\ told \subseteq told'
        /\ failures' = failures
    BY <1>12, ProcessFlushEffect
  <2>2. \A d \in Calls : op'[d] = "flush" /\ Answered(d)' =>
           op[d] = "flush" /\ Answered(d) /\ owed'[d] = owed[d]
    BY <1>0, <1>12, ProcessFlushEffect DEF Answered
  <2> QED
    BY <1>a, <2>1, <2>2, ReportedKept DEF FlushCovers, Reported
<1>13. CASE Tick
  <2>1. /\ ToSet(sent) \subseteq ToSet(sent') /\ told \subseteq told'
        /\ failures' = failures
    BY <1>13 DEF Tick
  <2>2. \A d \in Calls : op'[d] = "flush" /\ Answered(d)' =>
           op[d] = "flush" /\ Answered(d) /\ owed'[d] = owed[d]
    BY <1>0, <1>13 DEF Tick, Answered
  <2> QED
    BY <1>a, <2>1, <2>2, ReportedKept DEF FlushCovers, Reported
<1>14. CASE SeeClosing
  <2>1. /\ ToSet(sent) \subseteq ToSet(sent') /\ told \subseteq told'
        /\ failures' = failures
    BY <1>14 DEF SeeClosing
  <2>2. \A d \in Calls : op'[d] = "flush" /\ Answered(d)' =>
           op[d] = "flush" /\ Answered(d) /\ owed'[d] = owed[d]
    BY <1>0, <1>14 DEF SeeClosing, Answered
  <2> QED
    BY <1>a, <2>1, <2>2, ReportedKept DEF FlushCovers, Reported
<1>15. CASE Drained
  <2>1. /\ ToSet(sent) \subseteq ToSet(sent') /\ told \subseteq told'
        /\ failures' = failures
    BY <1>15 DEF Drained
  <2>2. \A d \in Calls : op'[d] = "flush" /\ Answered(d)' =>
           op[d] = "flush" /\ Answered(d) /\ owed'[d] = owed[d]
    BY <1>0, <1>15 DEF Drained, Answered
  <2> QED
    BY <1>a, <2>1, <2>2, ReportedKept DEF FlushCovers, Reported
<1>16. CASE Submitted
  <2>1. /\ UNCHANGED <<owed, op, result, told>> /\ sent' = sent \o batch
        /\ failures' = failures \/ failures' = Append(failures, ToSet(batch))
    BY <1>16, SubmittedEffect
  <2>2. ToSet(sent) \subseteq ToSet(sent')
    BY <2>1, ConcatSet, TypeParts DEF HistoryTypes, WorkTypes
  <2>3. \A d \in Calls : op'[d] = "flush" /\ Answered(d)' => Reported(d, told)'
    BY <1>a, <2>1, <2>2, ReportedKept DEF Answered
  <2> QED
    BY <2>3 DEF FlushCovers, Reported
<1>17. CASE WorkerDies
  <2>1. /\ ToSet(sent) \subseteq ToSet(sent') /\ told \subseteq told'
        /\ failures' = failures
    BY <1>17 DEF WorkerDies, Close
  <2>2. \A d \in Calls : op'[d] = "flush" /\ Answered(d)' =>
           op[d] = "flush" /\ Answered(d) /\ owed'[d] = owed[d]
    BY <1>0, <1>17 DEF WorkerDies, Close, Answered
  <2> QED
    BY <1>a, <2>1, <2>2, ReportedKept DEF FlushCovers, Reported
<1>18. CASE UNCHANGED vars
  BY <1>18 DEF vars, FlushCovers, Answered
<1> QED
  BY <1>1, <1>2, <1>3, <1>4, <1>5, <1>6, <1>7, <1>8, <1>9, <1>10, <1>11,
     <1>12, <1>13, <1>14, <1>15, <1>16, <1>17, <1>18
     DEF Next, Terminated

\* The types that a queue of MaxEvents places gives.
LEMMA TypeStep ==
  ASSUME TypeOK, SnapshotsOK, WaitersOK, PermitsKept, [Next]_vars
  PROVE  TypeOK' /\ PermitsKept'
<1>1. /\ QueueTypes' /\ WorkTypes' /\ CallTypes' /\ LedgerTypes'
      /\ HistoryTypes' /\ PermitsKept'
  BY QueueTypesStep, WorkTypesStep, CallTypesStep, LedgerTypesStep,
     HistoryTypesStep, PermitsStep
<1>2. slots' \in 0..MaxEvents
  <2>1. slots' \in Nat /\ Len(commands') \in Nat
    BY <1>1, InSet DEF QueueTypes
  <2>2. slots' + Len(commands') + Cardinality(Held(stage')) = MaxEvents
    BY PermitsCount
  <2> QED
    BY <2>1, <2>2, ReservedHeld, BatcherAssumption
<1>3. TypeOK'
  BY <1>1, <1>2
     DEF TypeOK, QueueTypes, WorkTypes, CallTypes, LedgerTypes, HistoryTypes
<1> QED
  BY <1>1, <1>3

\* The batcher begins with every permit free and nothing queued.
LEMMA InvInit == Init => Inv
<1> SUFFICES ASSUME Init PROVE Inv
  OBVIOUS
<1>1. MaxEvents \in Nat /\ <<>> \in Seq(Calls) /\ <<>> \in Seq(SUBSET Calls)
  BY BatcherAssumption, EmptySeq
<1>2. TypeOK
  BY <1>1 DEF Init, TypeOK, Ops, Stages, Results, Snapshots, NoSnap, NoCall
<1>3. 1..Len(<<>>) = {} /\ Len(<<>>) = 0 /\ ToSet(<<>>) = {}
  BY EmptySet
<1>4. SnapshotsOK /\ WaitersOK /\ OnceEach /\ QueueOwed
  BY <1>3 DEF Init, SnapshotsOK, WaitersOK, OnceEach, QueueOwed
<1>5. PermitsKept
  <2>1. Reserved = {}
    BY DEF Init, Reserved
  <2>2. Cardinality(Reserved) = 0
    BY <2>1, FS_EmptySet
  <2>3. Len(commands) = 0 /\ waiters = <<>> /\ slots = MaxEvents
    BY <1>3 DEF Init
  <2> QED
    BY <1>1, <2>2, <2>3 DEF PermitsKept
<1>6. NothingConfirmedUnseen
  BY DEF Init, NothingConfirmedUnseen
<1>7. \A c \in Calls : c # NoCall
  BY BatcherAssumption DEF Calls, NoCall
<1>8. FreshOK
  BY <1>3, <1>7 DEF Init, FreshOK, Placed
<1>9. CallsOK /\ WorkerOK /\ Partition /\ AckOwed
  BY <1>3 DEF Init, CallsOK, WorkerOK, Partition, AckOwed, Answered, Events
<1>10. AckedOK /\ FlushCovers /\ OkMeansNone
  BY DEF Init, AckedOK, FlushCovers, OkMeansNone, Answered
<1> QED
  BY <1>2, <1>4, <1>5, <1>6, <1>8, <1>9, <1>10 DEF Inv

\* Every step keeps the invariant.
LEMMA InvStep == Inv /\ [Next]_vars => Inv'
BY TypeStep, SnapshotsStep, WaitersStep, SeenStep, FreshStep, CallsStep,
   WorkerStep, PlacesStep, QueueOwedStep, AckOwedStep, AckedStep, CoversStep,
   OkStep DEF Inv

\* A shutdown returns when the worker has ended, with nothing left.
LEMMA InvDrains == Inv => ShutdownDrains
<1> SUFFICES ASSUME Inv, NEW c \in Calls, op[c] = "shutdown", Answered(c)
             PROVE  /\ ToSet(accepted) \ replaced = ToSet(sent)
                    /\ result[c] = "ok" => failures = <<>>
  BY DEF ShutdownDrains
<1>1. worker = "finished"
  BY DEF Inv, CallsOK
<1>2. commands = <<>> /\ buffer = <<>> /\ batch = <<>>
  BY <1>1 DEF Inv, WorkerOK
<1>3. Events(ToSet(commands)) = {}
  BY <1>2, EmptySet DEF Events
<1>4. ToSet(accepted) \ replaced = ToSet(sent)
  BY <1>1, <1>2, <1>3, EmptySet DEF Inv, Partition
<1> QED
  BY <1>4 DEF Inv, OkMeansNone

\* The invariant holds in every behaviour.
LEMMA Invariant == Spec => []Inv
BY InvInit, InvStep, PTL DEF Spec

\* Every variable keeps its type, so that the permits stay within the places of
\* the queue and the confirmations within the recorded failures.
THEOREM BatcherTypeOK == Spec => []TypeOK
<1>1. Inv => TypeOK
  BY DEF Inv
<1> QED
  BY Invariant, <1>1, PTL

\* No permit is lost or made by a receipt, a replacement, a refusal, a
\* cancellation or the death of the worker, and none is free while a call
\* waits.  (the semaphore of admission.rs)
THEOREM PermitsAreKept == Spec => []PermitsKept
<1>1. Inv => PermitsKept
  BY DEF Inv
<1> QED
  BY Invariant, <1>1, PTL

\* A flush that returns an answer has had every event sent that was admitted
\* before it, and each failed batch of theirs was reported to some caller.
\* (Watermarks and the acknowledgement of worker.rs)
THEOREM FlushSpeaksForAll == Spec => []FlushCovers
<1>1. Inv => FlushCovers
  BY DEF Inv
<1> QED
  BY Invariant, <1>1, PTL

\* No cancelled wait and no old snapshot confirms a failure that no caller was
\* told of.  (confirm of failure.rs)
THEOREM FailuresAreTold == Spec => []NothingConfirmedUnseen
<1>1. Inv => NothingConfirmedUnseen
  BY DEF Inv
<1> QED
  BY Invariant, <1>1, PTL

\* A shutdown that returns without a join error has sent every event that was
\* admitted and not replaced, and returns Ok only when no batch has failed.
\* (join of shutdown.rs)
THEOREM ShutdownSendsAll == Spec => []ShutdownDrains
BY Invariant, InvDrains, PTL

-----------------------------------------------------------------------------
(* The order of the events                                                 *)

\* What left the queue, followed by the events in it, is what was admitted and
\* not replaced.
Follows(p, c, S, a, R) == p \o Keep(c, S) = Keep(a, R)

\* One more event at the end of the queue.
LEMMA OneBehind ==
  ASSUME NEW T, NEW p \in Seq(T), NEW c \in Seq(T), NEW a \in Seq(T), NEW e \in T,
         NEW S, NEW R, e \in S, e \in R, Follows(p, c, S, a, R)
  PROVE  Follows(p, Append(c, e), S, Append(a, e), R)
<1>1. Keep(Append(c, e), S) = Append(Keep(c, S), e)
  BY KeepAppend
<1>2. Keep(Append(a, e), R) = Append(Keep(a, R), e)
  BY KeepAppend
<1>3. Keep(c, S) \in Seq(T)
  BY KeepElement
<1> DEFINE k == Keep(c, S)
<1>4. p \o Append(k, e) = Append(p \o k, e)
  BY <1>3
<1> QED
  BY <1>1, <1>2, <1>4 DEF Follows

\* An event is kept out of what stands behind p; p does not have it.
LEMMA OneLess ==
  ASSUME NEW T, NEW p \in Seq(T), NEW k \in Seq(T), NEW rest,
         \A m \in 1..Len(p) : p[m] \in rest
  PROVE  Keep(p \o k, rest) = p \o Keep(k, rest)
<1>1. Keep(p, rest) = p
  BY KeepAll
<1>2. Keep(p \o k, rest) = Keep(p, rest) \o Keep(k, rest)
  BY KeepConcat
<1> QED
  BY <1>1, <1>2

\* One event is taken out of the queue.
LEMMA OneGone ==
  ASSUME NEW T, NEW p \in Seq(T), NEW c \in Seq(T), NEW a \in Seq(T),
         NEW i \in 1..Len(c), NEW S, NEW R,
         \A m, n \in 1..Len(c) : c[m] = c[n] => m = n,
         c[i] \notin ToSet(p), Follows(p, c, S, a, R)
  PROVE  Follows(p, RemoveAt(c, i), S, a, R \ {c[i]})
<1>1. Keep(RemoveAt(c, i), S) = Keep(c, S \ {c[i]})
  <2>1. Keep(SubSeq(c, 1, i - 1) \o SubSeq(c, i + 1, Len(c)), S) = Keep(c, S \ {c[i]})
    BY KeepWithout
  <2> QED
    BY <2>1 DEF RemoveAt
<1>2. PICK rest : rest = T \ {c[i]}
  OBVIOUS
<1>3. \A m \in 1..Len(p) : p[m] \in rest
  <2>1. ToSet(p) = {p[m] : m \in 1..Len(p)} /\ ToSet(p) \subseteq T
    BY InSet
  <2> QED
    BY <1>2, <2>1
<1>4. Keep(Keep(c, S), rest) = Keep(c, S \ {c[i]})
  <2>1. Keep(Keep(c, S), rest) = Keep(c, S \cap rest)
    BY KeepKeep
  <2>2. \A m \in 1..Len(c) : c[m] \in S \cap rest <=> c[m] \in S \ {c[i]}
    BY <1>2
  <2>3. Keep(c, S \cap rest) = Keep(c, S \ {c[i]})
    BY <2>2, KeepSame
  <2> QED
    BY <2>1, <2>3
<1>5. Keep(Keep(a, R), rest) = Keep(a, R \ {c[i]})
  <2>1. Keep(Keep(a, R), rest) = Keep(a, R \cap rest)
    BY KeepKeep
  <2>2. \A m \in 1..Len(a) : a[m] \in R \cap rest <=> a[m] \in R \ {c[i]}
    BY <1>2
  <2>3. Keep(a, R \cap rest) = Keep(a, R \ {c[i]})
    BY <2>2, KeepSame
  <2> QED
    BY <2>1, <2>3
<1>6. PICK k : k = Keep(c, S)
  OBVIOUS
<1>7. k \in Seq(T)
  BY <1>6, KeepElement
<1>8. Keep(p \o k, rest) = p \o Keep(k, rest)
  BY <1>3, <1>7, OneLess
<1> QED
  BY <1>1, <1>4, <1>5, <1>6, <1>8 DEF Follows

\* The head event goes over to what has left the queue.
LEMMA OneTaken ==
  ASSUME NEW T, NEW p \in Seq(T), NEW c \in Seq(T), NEW S, c # <<>>, Head(c) \in S
  PROVE  Append(p, Head(c)) \o Keep(Tail(c), S) = p \o Keep(c, S)
<1> DEFINE h == Head(c)
           u == <<h>>
           k == Keep(Tail(c), S)
<1>1. h \in T /\ Tail(c) \in Seq(T)
  OBVIOUS
<1>2. k \in Seq(T)
  BY <1>1, KeepElement
<1>3. Keep(c, S) = u \o k
  BY KeepTail
<1>4. u \in Seq(T) /\ Append(p, h) = p \o u
  BY <1>1
<1> HIDE DEF h, u, k
<1>5. (p \o u) \o k = p \o (u \o k)
  <2>1. \A x, y, z \in Seq(T) : (x \o y) \o z = x \o (y \o z)
    BY ConcatAssociative
  <2>2. u \in Seq(T) /\ k \in Seq(T)
    BY <1>2, <1>4
  <2> QED
    BY <2>1, <2>2
<1> QED
  BY <1>3, <1>4, <1>5 DEF h, k

\* What has left the queue, in the order it left.
Pipe == sent \o batch \o buffer

\* The pipe is a sequence of calls, with the elements of its parts.
LEMMA PipeFacts ==
  ASSUME TypeOK
  PROVE  Pipe \in Seq(Calls) /\ ToSet(Pipe) = Taken
<1>1. sent \in Seq(Calls) /\ batch \in Seq(Calls) /\ buffer \in Seq(Calls)
  BY DEF TypeOK
<1>2. sent \o batch \in Seq(Calls) /\ ToSet(sent \o batch) = ToSet(sent) \cup ToSet(batch)
  BY <1>1, ConcatSet
<1>3. /\ (sent \o batch) \o buffer \in Seq(Calls)
      /\ ToSet((sent \o batch) \o buffer) = ToSet(sent \o batch) \cup ToSet(buffer)
  <2> DEFINE s == sent \o batch
  <2>1. s \in Seq(Calls) /\ buffer \in Seq(Calls)
    BY <1>1, <1>2
  <2> HIDE DEF s
  <2>2. s \o buffer \in Seq(Calls) /\ ToSet(s \o buffer) = ToSet(s) \cup ToSet(buffer)
    BY <2>1, ConcatSet
  <2> QED
    BY <2>2 DEF s
<1> QED
  BY <1>2, <1>3 DEF Pipe, Taken

\* With the batch empty, the buffer follows what was sent.
LEMMA PipeIdle ==
  ASSUME TypeOK
  PROVE  /\ batch = <<>> => Pipe = sent \o buffer
         /\ TypeOK' /\ batch' = <<>> => Pipe' = sent' \o buffer'
         /\ TypeOK' /\ buffer' = <<>> => Pipe' = sent' \o batch'
<1>1. \A s, t \in Seq(Calls) : s \o t \in Seq(Calls)
  BY ConcatProperties
<1>2. \A s \in Seq(Calls) : s \o <<>> = s
  BY ConcatEmptySeq
<1>3. ASSUME batch = <<>> PROVE Pipe = sent \o buffer
  <2>1. sent \o batch = sent
    BY <1>2, <1>3 DEF TypeOK
  <2> QED
    BY <2>1 DEF Pipe
<1>4. ASSUME TypeOK', batch' = <<>> PROVE Pipe' = sent' \o buffer'
  <2>1. sent' \o batch' = sent'
    BY <1>2, <1>4 DEF TypeOK
  <2> QED
    BY <2>1 DEF Pipe
<1>5. ASSUME TypeOK', buffer' = <<>> PROVE Pipe' = sent' \o batch'
  <2>1. sent' \o batch' \in Seq(Calls)
    BY <1>1, <1>5 DEF TypeOK
  <2>2. (sent' \o batch') \o buffer' = sent' \o batch'
    BY <1>2, <1>5, <2>1
  <2> QED
    BY <2>2 DEF Pipe
<1> QED
  BY <1>3, <1>4, <1>5

\* The order of the events while the worker lives.
Ordered == Follows(Pipe, commands, Adds, accepted, Calls \ replaced)

\* A new operation is not among the queued commands.
LEMMA AddsSame ==
  ASSUME commands \in Seq(Calls), \A d \in ToSet(commands) : op'[d] = op[d]
  PROVE  Keep(commands, Adds') = Keep(commands, Adds)
<1>1. PICK S : S = Adds
  OBVIOUS
<1>2. PICK R : R = Adds'
  OBVIOUS
<1>3. \A i \in 1..Len(commands) : commands[i] \in Calls /\ op'[commands[i]] = op[commands[i]]
  BY InSet
<1>4. \A i \in 1..Len(commands) : commands[i] \in S <=> commands[i] \in R
  BY <1>1, <1>2, <1>3 DEF Adds
<1>5. Keep(commands, S) = Keep(commands, R)
  BY <1>4, KeepSame
<1> QED
  BY <1>1, <1>2, <1>5

\* Nothing but calls and the worker's bookkeeping moves.
LEMMA OrderedFrame ==
  ASSUME TypeOK, Ordered, \A d \in ToSet(commands) : op'[d] = op[d],
         UNCHANGED <<sent, batch, buffer, commands, accepted, replaced>>
  PROVE  Ordered'
<1>1. Keep(commands, Adds') = Keep(commands, Adds)
  BY AddsSame DEF TypeOK
<1>2. Pipe' = Pipe
  BY DEF Pipe
<1> QED
  BY <1>1, <1>2 DEF Ordered, Follows

\* A call that has not queued its command changes no operation of a queued one.
LEMMA FreshOperation ==
  ASSUME TypeOK, FreshOK, NEW c \in Calls, NEW kind, stage[c] = "unused",
         op' = [op EXCEPT ![c] = kind]
  PROVE  /\ c \notin ToSet(commands) /\ c \notin replaced
         /\ \A d \in ToSet(commands) : op'[d] = op[d]
<1>1. c \notin Placed
  BY DEF FreshOK
<1>2. c \notin ToSet(commands) /\ c \notin replaced
  BY <1>1 DEF Placed
<1>3. ToSet(commands) \subseteq Calls
  BY InSet DEF TypeOK
<1> QED
  BY <1>2, <1>3 DEF TypeOK

\* An admission, alone or in place of the oldest event.
LEMMA OrderedTryAdd ==
  ASSUME Inv, Ordered, NEW c \in Calls, TryAdd(c)
  PROVE  Ordered'
<1>1. /\ TypeOK /\ FreshOK /\ OnceEach
      /\ commands \in Seq(Calls) /\ accepted \in Seq(Calls) /\ op \in [Calls -> Ops]
      /\ Pipe \in Seq(Calls) /\ ToSet(Pipe) = Taken
  BY PipeFacts DEF Inv, TypeOK
<1>2. /\ stage[c] = "unused" /\ op' = [op EXCEPT ![c] = "tryAdd"]
      /\ UNCHANGED <<sent, batch, buffer, worker>>
  BY <1>1, TryAddEffect
<1>3. /\ c \notin ToSet(commands) /\ c \notin replaced
      /\ \A d \in ToSet(commands) : op'[d] = op[d]
  BY <1>1, <1>2, FreshOperation
<1>4. Pipe' = Pipe
  BY <1>2 DEF Pipe
<1>5. PICK S : S = Adds'
  OBVIOUS
<1>6. c \in S
  BY <1>1, <1>2, <1>5 DEF Adds
<1>7. Follows(Pipe, commands, S, accepted, Calls \ replaced)
  BY <1>1, <1>3, <1>5, AddsSame DEF Ordered, Follows
<1>8. CASE UNCHANGED <<commands, accepted, replaced>>
  BY <1>1, <1>2, <1>3, <1>8, OrderedFrame
<1>9. CASE /\ commands' = Append(commands, c) /\ accepted' = Append(accepted, c)
           /\ replaced' = replaced
  <2>1. PICK R : R = Calls \ replaced
    OBVIOUS
  <2>2. PICK p : p = Pipe
    OBVIOUS
  <2>3. PICK k : k = commands
    OBVIOUS
  <2>4. PICK a : a = accepted
    OBVIOUS
  <2>5. /\ p \in Seq(Calls) /\ k \in Seq(Calls) /\ a \in Seq(Calls)
        /\ c \in S /\ c \in R /\ Follows(p, k, S, a, R)
    BY <1>1, <1>3, <1>6, <1>7, <2>1, <2>2, <2>3, <2>4
  <2>6. Follows(p, Append(k, c), S, Append(a, c), R)
    BY <2>5, OneBehind
  <2> QED
    BY <1>4, <1>5, <1>9, <2>1, <2>2, <2>3, <2>4, <2>6 DEF Ordered
<1>10. CASE /\ Oldest <= Len(commands)
            /\ commands' = Append(RemoveAt(commands, Oldest), c)
            /\ accepted' = Append(accepted, c)
            /\ replaced' = replaced \cup {commands[Oldest]}
  <2>1. PICK R : R = Calls \ replaced
    OBVIOUS
  <2>2. PICK p : p = Pipe
    OBVIOUS
  <2>3. PICK i : i = Oldest
    OBVIOUS
  <2>4. PICK k : k = commands
    OBVIOUS
  <2>5. PICK a : a = accepted
    OBVIOUS
  <2>6. /\ p \in Seq(Calls) /\ k \in Seq(Calls) /\ a \in Seq(Calls)
        /\ Follows(p, k, S, a, R)
    BY <1>1, <1>7, <2>1, <2>2, <2>4, <2>5
  <2>7. i \in 1..Len(k)
    BY <1>1, <1>10, <2>3, <2>4, OldestFacts
  <2>8. \A m, n \in 1..Len(k) : k[m] = k[n] => m = n
    BY <1>1, <2>4 DEF OnceEach
  <2>9. k[i] \in ToSet(commands)
    BY <1>1, <2>4, <2>7, InSet
  <2>10. k[i] \notin ToSet(p)
    <3>1. ToSet(commands) \cap Taken = {}
      BY DEF Inv, Partition, Taken
    <3> QED
      BY <1>1, <2>2, <2>9, <3>1
  <2>11. PICK r : r = RemoveAt(k, i)
    OBVIOUS
  <2>12. PICK Q : Q = R \ {k[i]}
    OBVIOUS
  <2>13. Follows(p, r, S, a, Q)
    BY <2>6, <2>7, <2>8, <2>10, <2>11, <2>12, OneGone
  <2>14. r \in Seq(Calls) /\ c \in Q
    <3>1. r \in Seq(Calls)
      BY <2>6, <2>7, <2>11, RemoveAtFacts
    <3> QED
      BY <1>3, <2>1, <2>9, <2>12, <3>1
  <2>15. p \in Seq(Calls) /\ a \in Seq(Calls) /\ c \in S
    BY <1>6, <2>6
  <2>16. Follows(p, Append(r, c), S, Append(a, c), Q)
    BY <2>13, <2>14, <2>15, OneBehind
  <2>17. Q = Calls \ replaced'
    BY <1>10, <2>1, <2>3, <2>4, <2>12
  <2> QED
    BY <1>4, <1>5, <1>10, <2>2, <2>3, <2>4, <2>5, <2>11, <2>16, <2>17 DEF Ordered
<1> QED
  BY <1>1, <1>8, <1>9, <1>10, TryAddEffect

\* A permit becomes a command: an event goes to the end, a flush counts for none.
LEMMA OrderedCommit ==
  ASSUME Inv, Ordered, NEW c \in Calls, Commit(c)
  PROVE  Ordered'
<1>1. /\ TypeOK /\ FreshOK
      /\ commands \in Seq(Calls) /\ accepted \in Seq(Calls)
      /\ Pipe \in Seq(Calls)
  BY PipeFacts DEF Inv, TypeOK
<1>2. /\ stage[c] = "reserved" /\ commands' = Append(commands, c)
      /\ UNCHANGED <<sent, batch, buffer, op, replaced>>
      /\ \/ op[c] = "flush" /\ accepted' = accepted
         \/ op[c] # "flush" /\ accepted' = Append(accepted, c)
  BY <1>1, CommitEffect
<1>3. c \notin replaced
  BY <1>1, <1>2 DEF FreshOK, Placed
<1>4. Pipe' = Pipe /\ Adds' = Adds
  BY <1>2 DEF Pipe, Adds
<1>5. PICK S : S = Adds
  OBVIOUS
<1>6. CASE op[c] = "flush" /\ accepted' = accepted
  <2>1. c \notin S
    BY <1>5, <1>6 DEF Adds
  <2>2. Keep(Append(commands, c), S) = Keep(commands, S)
    BY <1>1, <2>1, KeepAppend
  <2> QED
    BY <1>2, <1>4, <1>5, <1>6, <2>2 DEF Ordered, Follows
<1>7. CASE op[c] # "flush" /\ accepted' = Append(accepted, c)
  <2>1. PICK R : R = Calls \ replaced
    OBVIOUS
  <2>2. PICK p : p = Pipe
    OBVIOUS
  <2>3. PICK k : k = commands
    OBVIOUS
  <2>4. PICK a : a = accepted
    OBVIOUS
  <2>5. /\ p \in Seq(Calls) /\ k \in Seq(Calls) /\ a \in Seq(Calls)
        /\ c \in S /\ c \in R /\ Follows(p, k, S, a, R)
    BY <1>1, <1>3, <1>5, <1>7, <2>1, <2>2, <2>3, <2>4 DEF Ordered, Adds
  <2>6. Follows(p, Append(k, c), S, Append(a, c), R)
    BY <2>5, OneBehind
  <2> QED
    BY <1>2, <1>4, <1>5, <1>7, <2>1, <2>2, <2>3, <2>4, <2>6 DEF Ordered
<1> QED
  BY <1>2, <1>6, <1>7

\* The worker receives: an event goes over to the pipe.
LEMMA OrderedProcessAdd ==
  ASSUME Inv, TypeOK', Ordered, ProcessAdd
  PROVE  Ordered'
<1>1. TypeOK /\ commands \in Seq(Calls) /\ sent \in Seq(Calls) /\ buffer \in Seq(Calls)
  BY DEF Inv, TypeOK
<1>2. /\ batch = <<>> /\ op[Head(commands)] # "flush" /\ TakeHead
      /\ UNCHANGED <<op, accepted, replaced, sent>>
      /\ \/ batch' = Append(buffer, Head(commands)) /\ buffer' = <<>>
         \/ buffer' = Append(buffer, Head(commands)) /\ batch' = batch
  BY <1>1, ProcessAddEffect
<1>3. /\ commands # <<>> /\ commands' = Tail(commands) /\ Head(commands) \in Calls
  BY <1>1, <1>2, HeadEffect
<1>4. Pipe = sent \o buffer /\ Pipe \in Seq(Calls)
  BY <1>1, <1>2, PipeIdle, PipeFacts
<1>5. Pipe' = sent \o Append(buffer, Head(commands))
  BY <1>1, <1>2, PipeIdle
<1>6. Pipe' = Append(Pipe, Head(commands))
  BY <1>1, <1>3, <1>4, <1>5
<1>7. PICK S : S = Adds
  OBVIOUS
<1>8. PICK p : p = Pipe
  OBVIOUS
<1>9. Head(commands) \in S /\ Adds' = S
  BY <1>2, <1>3, <1>7 DEF Adds
<1>10. PICK k : k = commands
  OBVIOUS
<1>11. p \in Seq(Calls) /\ k \in Seq(Calls) /\ k # <<>> /\ Head(k) \in S
  BY <1>1, <1>3, <1>4, <1>8, <1>9, <1>10
<1>12. Append(p, Head(k)) \o Keep(Tail(k), S) = p \o Keep(k, S)
  BY <1>11, OneTaken
<1> QED
  BY <1>2, <1>3, <1>6, <1>7, <1>8, <1>9, <1>10, <1>12 DEF Ordered, Follows

\* The worker receives a flush: the events stay in line.
LEMMA OrderedProcessFlush ==
  ASSUME Inv, TypeOK', Ordered, ProcessFlush
  PROVE  Ordered'
<1>1. TypeOK /\ commands \in Seq(Calls)
  BY DEF Inv, TypeOK
<1>2. /\ batch = <<>> /\ op[Head(commands)] = "flush" /\ TakeHead
      /\ UNCHANGED <<op, accepted, replaced, sent>>
      /\ \/ UNCHANGED <<buffer, batch>>
         \/ batch' = buffer /\ buffer' = <<>>
  BY <1>1, ProcessFlushEffect
<1>3. /\ commands # <<>> /\ commands' = Tail(commands)
  BY <1>1, <1>2, HeadEffect
<1>4. Pipe' = Pipe
  BY <1>1, <1>2, PipeIdle DEF Pipe
<1>5. PICK S : S = Adds
  OBVIOUS
<1>6. Head(commands) \notin S /\ Adds' = S
  BY <1>2, <1>5 DEF Adds
<1>7. Keep(Tail(commands), S) = Keep(commands, S)
  BY <1>1, <1>3, <1>6, KeepTail
<1> QED
  BY <1>2, <1>3, <1>4, <1>5, <1>6, <1>7 DEF Ordered, Follows

\* The rest of the worker: events move along the pipe.
LEMMA OrderedWorker ==
  ASSUME Inv, TypeOK', Ordered, Tick \/ Drained \/ SeeClosing \/ Submitted
  PROVE  Ordered'
<1>1. TypeOK /\ sent \in Seq(Calls) /\ batch \in Seq(Calls) /\ buffer \in Seq(Calls)
  BY DEF Inv, TypeOK
<1>2. UNCHANGED <<commands, op, accepted, replaced>>
  BY DEF Tick, Drained, SeeClosing, Submitted, queueVars, callVars, history
<1>3. Pipe' = Pipe
  <2>1. CASE Submitted
    <3>1. sent' = sent \o batch /\ batch' = <<>> /\ buffer' = buffer
      BY <2>1 DEF Submitted
    <3> QED
      BY <1>1, <3>1, PipeIdle DEF Pipe
  <2>2. CASE Tick \/ Drained \/ SeeClosing
    <3>1. /\ batch = <<>> /\ sent' = sent
          /\ \/ UNCHANGED <<batch, buffer>>
             \/ batch' = buffer /\ buffer' = <<>>
      BY <2>2 DEF Tick, Drained, SeeClosing, history
    <3> QED
      BY <1>1, <3>1, PipeIdle DEF Pipe
  <2> QED
    BY <2>1, <2>2
<1> QED
  BY <1>2, <1>3 DEF Ordered, Adds

\* Every step of a living worker keeps the order; a dead one stays dead.
LEMMA OrderStep ==
  ASSUME Inv, EventsKeptInOrder, [Next]_vars
  PROVE  EventsKeptInOrder'
<1> USE DEF queueVars, workVars, ledgerVars, callVars, history
<1>1. TypeOK /\ FreshOK /\ TypeOK'
  <2>1. Inv'
    BY InvStep
  <2> QED
    BY <2>1 DEF Inv
<1>2. worker = "dead" => worker' = "dead"
  BY DEF Next, TryAdd, Send, Commit, Refused, Shutdown, Observe, AckLost, Join, Cancel,
     DropBatcher, ProcessAdd, ProcessFlush, Tick, SeeClosing, Drained, Submitted,
     WorkerDies, Terminated, Running, vars
<1>3. SUFFICES ASSUME worker # "dead", worker' # "dead"
               PROVE  Ordered'
  BY <1>2 DEF EventsKeptInOrder, Ordered, Follows, Pipe
<1>4. Ordered
  BY <1>3 DEF EventsKeptInOrder, Ordered, Follows, Pipe
<1>5. ASSUME NEW c \in Calls, TryAdd(c) PROVE Ordered'
  BY <1>4, <1>5, OrderedTryAdd
<1>6. ASSUME NEW c \in Calls, Commit(c) PROVE Ordered'
  BY <1>4, <1>6, OrderedCommit
<1>7. ASSUME NEW c \in Calls, Send(c) \/ Shutdown(c) PROVE Ordered'
  <2>1. PICK kind : op' = [op EXCEPT ![c] = kind] /\ stage[c] = "unused"
    BY <1>7 DEF Send, Shutdown, Start
  <2>2. UNCHANGED <<sent, batch, buffer, commands, accepted, replaced>>
    BY <1>7 DEF Send, Shutdown
  <2> QED
    BY <1>1, <1>4, <2>1, <2>2, FreshOperation, OrderedFrame
<1>8. ASSUME NEW c \in Calls,
             Refused(c) \/ Observe(c) \/ AckLost(c) \/ Join(c) \/ Cancel(c)
      PROVE  Ordered'
  <2>1. UNCHANGED <<op, sent, batch, buffer, commands, accepted, replaced>>
    BY <1>8 DEF Refused, Observe, AckLost, Join, Cancel
  <2> QED
    BY <1>1, <1>4, <2>1, OrderedFrame
<1>9. CASE DropBatcher \/ UNCHANGED vars
  <2>1. UNCHANGED <<op, sent, batch, buffer, commands, accepted, replaced>>
    BY <1>9 DEF DropBatcher, vars
  <2> QED
    BY <1>1, <1>4, <2>1, OrderedFrame
<1>10. CASE ProcessAdd
  BY <1>1, <1>4, <1>10, OrderedProcessAdd
<1>11. CASE ProcessFlush
  BY <1>1, <1>4, <1>11, OrderedProcessFlush
<1>12. CASE Tick \/ Drained \/ SeeClosing \/ Submitted
  BY <1>1, <1>4, <1>12, OrderedWorker
<1>13. CASE WorkerDies
  BY <1>3, <1>13 DEF WorkerDies
<1> QED
  BY <1>5, <1>6, <1>7, <1>8, <1>9, <1>10, <1>11, <1>12, <1>13 DEF Next, Terminated

\* While the worker lives, an admitted event that was not replaced is in exactly
\* one place, and the events are sent in the order of their admission: through
\* receipts, batches, flushes and replacements, for any number of calls and any
\* size of the queue.  (admission.rs against worker.rs)
THEOREM EventsStayInOrder == Spec => []EventsKeptInOrder
<1>1. Init => EventsKeptInOrder
  <2> SUFFICES ASSUME Init PROVE EventsKeptInOrder
    OBVIOUS
  <2>1. PICK s : s = <<>>
    OBVIOUS
  <2>2. s \in Seq(Calls) /\ Len(s) = 0 /\ s \o s = s
    BY <2>1, EmptySeq, ConcatEmptySeq
  <2>3. \A S : Keep(s, S) = s
    <3> TAKE S
    <3>1. \A i \in 1..Len(s) : s[i] \notin S
      BY <2>2
    <3> QED
      BY <2>1, <2>2, <3>1, KeepNone
  <2>4. sent = s /\ batch = s /\ buffer = s /\ commands = s /\ accepted = s
    BY <2>1 DEF Init
  <2> QED
    BY <2>2, <2>3, <2>4 DEF EventsKeptInOrder
<1>2. Inv /\ EventsKeptInOrder /\ [Next]_vars => EventsKeptInOrder'
  BY OrderStep
<1> QED
  BY <1>1, <1>2, Invariant, PTL DEF Spec
=============================================================================

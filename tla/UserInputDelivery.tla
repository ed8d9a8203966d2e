------------------------- MODULE UserInputDelivery -------------------------
(***************************************************************************)
(* What a session promises about the inputs it accepts: the lifecycle      *)
(*                                                                         *)
(*     Queued -> Dispatching -> Claimed -> Delivered                       *)
(*        |  <-                                                            *)
(*        +-> Withdrawn                                                    *)
(*                                                                         *)
(* with claiming and delivering each one indivisible step. Receive decides *)
(* the claim under the queue's lock; the mailbox hears of it later, under  *)
(* its own (UserInputSession shows that its records never contradict this  *)
(* specification).                                                         *)
(***************************************************************************)
EXTENDS Naturals, Sequences, FiniteSets, SequencesExt

CONSTANTS
  Inputs,    \* input ids a client may submit
  Capacity   \* bound on undelivered inputs

VARIABLES
  arrived,   \* accepted inputs in order of acceptance
  phase,     \* where each input is in the lifecycle
  log        \* user inputs in the canonical transcript

vars == <<arrived, phase, log>>

Lifecycle == {"Absent", "Queued", "Dispatching", "Claimed", "Delivered", "Withdrawn"}

TypeOK ==
  /\ arrived \in Seq(Inputs)
  /\ phase \in [Inputs -> Lifecycle]
  /\ log \in Seq(Inputs)

Init ==
  /\ arrived = << >>
  /\ phase = [i \in Inputs |-> "Absent"]
  /\ log = << >>

In(ph, sts) == {i \in Inputs : ph[i] \in sts}
Moved(ids, to) == [i \in Inputs |-> IF i \in ids THEN to ELSE phase[i]]

\* The oldest input still queued.
IsNext(arr, ph, i) ==
  \E n \in DOMAIN arr :
    /\ arr[n] = i
    /\ ph[i] = "Queued"
    /\ \A m \in 1 .. (n - 1) : ph[arr[m]] # "Queued"

\* Ordinary inputs are released one at a time, in order, when none is in flight.
Released(arr, ph) ==
  IF In(ph, {"Dispatching", "Claimed"}) = {}
  THEN {ph} \cup {[ph EXCEPT ![i] = "Dispatching"] : i \in {j \in Inputs : IsNext(arr, ph, j)}}
  ELSE {ph}

Accept(i) ==
  /\ phase[i] = "Absent"
  /\ Cardinality(In(phase, {"Queued", "Dispatching", "Claimed"})) < Capacity
  /\ arrived' = Append(arrived, i)
  /\ phase' \in Released(arrived', Moved({i}, "Queued"))
  /\ UNCHANGED log

Release ==
  /\ phase' \in Released(arrived, phase)
  /\ UNCHANGED <<arrived, log>>

SendNow(ids) ==
  /\ ids \subseteq In(phase, {"Queued"})
  /\ phase' = Moved(ids, "Dispatching")
  /\ UNCHANGED <<arrived, log>>

Withdraw(i) ==
  /\ phase[i] = "Queued"
  /\ phase' = Moved({i}, "Withdrawn")
  /\ UNCHANGED <<arrived, log>>

GiveBack(ids) ==
  /\ ids \subseteq In(phase, {"Dispatching"})
  /\ phase' = Moved(ids, "Queued")
  /\ UNCHANGED <<arrived, log>>

Claim(ids) ==
  /\ ids \subseteq In(phase, {"Dispatching"})
  /\ phase' = Moved(ids, "Claimed")
  /\ UNCHANGED <<arrived, log>>

\* All that is claimed is written to the transcript at once.
Deliver ==
  /\ \E order \in SetToSeqs(In(phase, {"Claimed"})) : log' = log \o order
  /\ phase' = Moved(In(phase, {"Claimed"}), "Delivered")
  /\ UNCHANGED arrived

Next ==
  \/ \E i \in Inputs : Accept(i) \/ Withdraw(i)
  \/ \E ids \in SUBSET Inputs : SendNow(ids) \/ GiveBack(ids) \/ Claim(ids)
  \/ Release
  \/ Deliver

Spec == Init /\ [][Next]_vars

\* Exactly once: the transcript holds each delivered input once, no other.
ExactlyOnce == IsInjective(log) /\ Range(log) = In(phase, {"Delivered"})
=============================================================================

---------------------- MODULE UserInputDeliveryProofs ----------------------
(***************************************************************************)
(* The lifecycle delivers each input at most once: what enters the         *)
(* transcript is claimed, and what is in the transcript never is again.    *)
(***************************************************************************)
EXTENDS UserInputDelivery, SequenceFilterProofs

\* Only finitely many inputs were ever accepted.
Accepted == \A i \in Inputs : phase[i] # "Absent" => i \in Range(arrived)

Inv == TypeOK /\ ExactlyOnce /\ Accepted

\* Moving inputs between the states of the lifecycle keeps the type of `phase'.
LEMMA MovedKeepsType ==
  ASSUME TypeOK, NEW ids, NEW to \in Lifecycle
  PROVE  Moved(ids, to) \in [Inputs -> Lifecycle]
BY DEF TypeOK, Moved

\* A release makes at most one queued input dispatching.
LEMMA ReleasedFacts ==
  ASSUME NEW arr, NEW ph \in [Inputs -> Lifecycle], NEW next \in Released(arr, ph)
  PROVE  /\ next \in [Inputs -> Lifecycle]
         /\ \A j \in Inputs : next[j] = "Absent" => ph[j] = "Absent"
         /\ In(next, {"Delivered"}) = In(ph, {"Delivered"})
<1>1. CASE next = ph
  BY <1>1
<1>2. ASSUME NEW i \in Inputs, IsNext(arr, ph, i), next = [ph EXCEPT ![i] = "Dispatching"]
      PROVE  /\ next \in [Inputs -> Lifecycle]
             /\ \A j \in Inputs : next[j] = "Absent" => ph[j] = "Absent"
             /\ In(next, {"Delivered"}) = In(ph, {"Delivered"})
  <2>1. ph[i] = "Queued"
    BY <1>2 DEF IsNext
  <2>2. next \in [Inputs -> Lifecycle]
    BY <1>2 DEF Lifecycle
  <2>3. \A j \in Inputs : /\ next[j] = "Delivered" <=> ph[j] = "Delivered"
                          /\ next[j] = "Absent" => ph[j] = "Absent"
    BY <1>2, <2>1
  <2> QED
    BY <2>2, <2>3 DEF In
<1> QED
  BY <1>1, <1>2 DEF Released

\* An ordering of a finite set lists each of its elements once.
LEMMA OrderingFacts ==
  ASSUME NEW C, IsFiniteSet(C), NEW order \in SetToSeqs(C)
  PROVE  order \in Seq(C) /\ IsInjective(order) /\ Range(order) = C
<1> DEFINE n == Cardinality(C)
<1>1. n \in Nat
  BY FS_CardinalityType
<1>2. /\ order \in [1 .. n -> C]
      /\ \A i, j \in 1 .. n : i # j => order[i] # order[j]
  BY DEF SetToSeqs
<1> HIDE DEF n
<1>3. order \in Injection(1 .. n, C)
  BY <1>2 DEF Injection, IsInjective
<1>4. IsFiniteSet(1 .. n) /\ Cardinality(1 .. n) = n
  <2>1. Cardinality(1 .. n) = IF 1 > n THEN 0 ELSE n - 1 + 1
    BY <1>1, FS_Interval
  <2> QED
    BY <1>1, <2>1, FS_Interval
<1>5. order \in Surjection(1 .. n, C)
  BY <1>3, <1>4, FS_Injection DEF n
<1>6. Range(order) = C
  BY <1>5 DEF Surjection, Range
<1>7. order \in Seq(C) /\ IsInjective(order)
  BY <1>1, <1>2 DEF IsInjective
<1> QED
  BY <1>6, <1>7

\* Concatenating repetition-free sequences without a common element.
LEMMA ConcatInjective ==
  ASSUME NEW T, NEW s \in Seq(T), NEW t \in Seq(T),
         IsInjective(s), IsInjective(t), Range(s) \cap Range(t) = {}
  PROVE  IsInjective(s \o t) /\ Range(s \o t) = Range(s) \cup Range(t)
<1> DEFINE u == s \o t
<1>1. /\ u \in Seq(T) /\ Len(s) \in Nat /\ Len(t) \in Nat
      /\ DOMAIN s = 1 .. Len(s) /\ DOMAIN t = 1 .. Len(t)
      /\ DOMAIN u = 1 .. (Len(s) + Len(t))
  BY ConcatProperties
<1>2. \A i \in 1 .. (Len(s) + Len(t)) :
        u[i] = IF i <= Len(s) THEN s[i] ELSE t[i - Len(s)]
  BY ConcatProperties
<1> HIDE DEF u
<1>3. ASSUME NEW i \in DOMAIN u
      PROVE  \/ i \in DOMAIN s /\ u[i] = s[i]
             \/ i - Len(s) \in DOMAIN t /\ u[i] = t[i - Len(s)] /\ i \in Nat
  BY <1>1, <1>2
<1>4. IsInjective(u)
  <2>1. SUFFICES ASSUME NEW i \in DOMAIN u, NEW j \in DOMAIN u, u[i] = u[j]
                 PROVE  i = j
    BY DEF IsInjective
  <2>2. CASE i \in DOMAIN s /\ u[i] = s[i]
    <3>1. ~ (j - Len(s) \in DOMAIN t /\ u[j] = t[j - Len(s)])
      BY <2>1, <2>2 DEF Range
    <3>2. j \in DOMAIN s /\ u[j] = s[j]
      BY <3>1, <1>3
    <3> QED
      BY <2>1, <2>2, <3>2 DEF IsInjective
  <2>3. CASE i - Len(s) \in DOMAIN t /\ u[i] = t[i - Len(s)]
    <3>1. ~ (j \in DOMAIN s /\ u[j] = s[j])
      BY <2>1, <2>3 DEF Range
    <3>2. j - Len(s) \in DOMAIN t /\ u[j] = t[j - Len(s)]
      BY <3>1, <1>3
    <3>3. i - Len(s) = j - Len(s)
      BY <2>1, <2>3, <3>2 DEF IsInjective
    <3> QED
      BY <1>1, <3>3
  <2> QED
    BY <1>3, <2>2, <2>3
<1>5. Range(u) \subseteq Range(s) \cup Range(t)
  BY <1>3 DEF Range
<1>6. Range(s) \subseteq Range(u)
  <2>1. \A i \in DOMAIN s : i \in DOMAIN u /\ u[i] = s[i]
    BY <1>1, <1>2
  <2> QED
    BY <2>1 DEF Range
<1>7. Range(t) \subseteq Range(u)
  <2>1. \A i \in DOMAIN t : i + Len(s) \in DOMAIN u /\ u[i + Len(s)] = t[i]
    BY <1>1, <1>2
  <2> QED
    BY <2>1 DEF Range
<1> QED
  BY <1>4, <1>5, <1>6, <1>7 DEF u

\* Appending in any order what is claimed keeps the transcript without repetition.
LEMMA DeliverKeepsInv ==
  ASSUME Inv, Deliver
  PROVE  Inv'
<1> DEFINE C == In(phase, {"Claimed"})
<1>0. /\ log \in Seq(Inputs) /\ phase \in [Inputs -> Lifecycle]
      /\ IsInjective(log) /\ Range(log) = In(phase, {"Delivered"})
  BY DEF Inv, TypeOK, ExactlyOnce
<1>1. PICK order \in SetToSeqs(C) : log' = log \o order
  BY DEF Deliver
<1>2. phase' = Moved(C, "Delivered") /\ arrived' = arrived
  BY DEF Deliver
<1>3. IsFiniteSet(C)
  <2>1. C \in SUBSET Range(arrived)
    BY DEF Inv, Accepted, In
  <2>2. IsFiniteSet(Range(arrived))
    BY FiniteRange DEF Inv, TypeOK
  <2> QED
    BY <2>1, <2>2, FS_Subset
<1>4. C \in SUBSET Inputs /\ C \cap Range(log) = {}
  BY <1>0 DEF In
<1> HIDE DEF C
<1>5. order \in Seq(C) /\ IsInjective(order) /\ Range(order) = C
  BY <1>3, OrderingFacts
<1>6. order \in Seq(Inputs)
  BY <1>4, <1>5, SeqMonotonic
<1>7. log' \in Seq(Inputs)
  BY <1>0, <1>1, <1>6
<1>8. IsInjective(log') /\ Range(log') = Range(log) \cup C
  BY <1>0, <1>1, <1>4, <1>5, <1>6, ConcatInjective
<1>9. phase' \in [Inputs -> Lifecycle]
  BY <1>2, MovedKeepsType DEF Inv, Lifecycle
<1>10. In(phase', {"Delivered"}) = In(phase, {"Delivered"}) \cup C
  BY <1>2, <1>4 DEF In, Moved
<1>11. Accepted'
  BY <1>2, <1>0 DEF Inv, Accepted, Moved, C, In
<1> QED
  BY <1>0, <1>2, <1>7, <1>8, <1>9, <1>10, <1>11 DEF Inv, TypeOK, ExactlyOnce

\* Moving inputs that were accepted keeps the invariant.
LEMMA MovedKeepsInv ==
  ASSUME Inv, NEW from \in Lifecycle \ {"Absent", "Delivered"},
         NEW to \in Lifecycle \ {"Absent", "Delivered"},
         NEW ids, \A i \in ids : i \in Inputs => phase[i] = from,
         phase' = Moved(ids, to), UNCHANGED <<arrived, log>>
  PROVE  Inv'
<1>1. phase' \in [Inputs -> Lifecycle]
  BY MovedKeepsType DEF Inv
<1>2. \A i \in Inputs : phase'[i] = "Delivered" <=> phase[i] = "Delivered"
  BY DEF Inv, TypeOK, Moved
<1>3. In(phase', {"Delivered"}) = In(phase, {"Delivered"})
  BY <1>2 DEF In
<1>4. Accepted'
  BY DEF Inv, Accepted, Moved
<1> QED
  BY <1>1, <1>3, <1>4 DEF Inv, TypeOK, ExactlyOnce

\* Accepting an input, with the release that may follow it.
LEMMA AcceptKeepsInv ==
  ASSUME Inv, NEW i \in Inputs, Accept(i)
  PROVE  Inv'
<1> DEFINE ph == Moved({i}, "Queued")
<1>0. /\ arrived \in Seq(Inputs) /\ phase \in [Inputs -> Lifecycle]
      /\ phase[i] = "Absent" /\ arrived' = Append(arrived, i) /\ log' = log
      /\ phase' \in Released(arrived', ph)
  BY DEF Inv, TypeOK, Accept
<1>1. ph \in [Inputs -> Lifecycle]
  BY MovedKeepsType DEF Inv, Lifecycle
<1>2. /\ phase' \in [Inputs -> Lifecycle]
      /\ \A j \in Inputs : phase'[j] # "Absent" => ph[j] # "Absent" \/ j = i
      /\ In(phase', {"Delivered"}) = In(ph, {"Delivered"})
  <2> HIDE DEF ph
  <2>1. \A j \in Inputs : phase'[j] # "Absent" => ph[j] # "Absent"
    BY <1>0, <1>1 DEF Released, IsNext
  <2> QED
    BY <1>0, <1>1, <2>1, ReleasedFacts
<1>3. \A j \in Inputs : /\ ph[j] = "Delivered" <=> phase[j] = "Delivered"
                        /\ ph[j] # "Absent" => phase[j] # "Absent" \/ j = i
  BY <1>0 DEF Moved
<1>4. In(ph, {"Delivered"}) = In(phase, {"Delivered"})
  BY <1>3 DEF In
<1>5. arrived' \in Seq(Inputs) /\ Range(arrived') = Range(arrived) \cup {i}
  <2>1. /\ Append(arrived, i) \in Seq(Inputs)
        /\ DOMAIN Append(arrived, i) = DOMAIN arrived \cup {Len(arrived) + 1}
        /\ \A n \in DOMAIN arrived : Append(arrived, i)[n] = arrived[n]
        /\ Append(arrived, i)[Len(arrived) + 1] = i
    BY <1>0
  <2> QED
    BY <1>0, <2>1 DEF Range
<1> HIDE DEF ph
<1>6. Accepted'
  BY <1>2, <1>3, <1>5 DEF Inv, Accepted
<1> QED
  BY <1>0, <1>2, <1>4, <1>5, <1>6 DEF Inv, TypeOK, ExactlyOnce

\* Releasing an input on its own.
LEMMA ReleaseKeepsInv ==
  ASSUME Inv, Release
  PROVE  Inv'
<1>1. /\ phase \in [Inputs -> Lifecycle] /\ UNCHANGED <<arrived, log>>
      /\ phase' \in Released(arrived, phase)
  BY DEF Inv, TypeOK, Release
<1>2. \A j \in Inputs : phase'[j] # "Absent" => phase[j] # "Absent"
  BY <1>1 DEF Released, IsNext
<1>3. Accepted'
  BY <1>1, <1>2 DEF Inv, Accepted
<1> QED
  BY <1>1, <1>3, ReleasedFacts DEF Inv, TypeOK, ExactlyOnce

\* The lifecycle delivers exactly once: the transcript lists each delivered
\* input once and nothing else.
THEOREM LifecycleDeliversOnce == Spec => []ExactlyOnce
<1>1. Init => Inv
  BY EmptySeq DEF Init, Inv, TypeOK, ExactlyOnce, Accepted, Lifecycle, In, Range, IsInjective
<1>2. Inv /\ [Next]_vars => Inv'
  <2>1. SUFFICES ASSUME Inv, [Next]_vars PROVE Inv'
    OBVIOUS
  <2>2. ASSUME NEW i \in Inputs, Accept(i) PROVE Inv'
    BY <2>1, <2>2, AcceptKeepsInv
  <2>3. ASSUME NEW i \in Inputs, Withdraw(i) PROVE Inv'
    BY <2>1, <2>3, MovedKeepsInv DEF Withdraw, Lifecycle
  <2>4. ASSUME NEW ids \in SUBSET Inputs, SendNow(ids) PROVE Inv'
    BY <2>1, <2>4, MovedKeepsInv DEF SendNow, In, Lifecycle
  <2>5. ASSUME NEW ids \in SUBSET Inputs, GiveBack(ids) PROVE Inv'
    BY <2>1, <2>5, MovedKeepsInv DEF GiveBack, In, Lifecycle
  <2>6. ASSUME NEW ids \in SUBSET Inputs, Claim(ids) PROVE Inv'
    BY <2>1, <2>6, MovedKeepsInv DEF Claim, In, Lifecycle
  <2>7. CASE Release
    BY <2>1, <2>7, ReleaseKeepsInv
  <2>8. CASE Deliver
    BY <2>1, <2>8, DeliverKeepsInv
  <2>9. CASE UNCHANGED vars
    BY <2>1, <2>9 DEF vars, Inv, TypeOK, ExactlyOnce, Accepted
  <2> QED
    BY <2>1, <2>2, <2>3, <2>4, <2>5, <2>6, <2>7, <2>8, <2>9 DEF Next
<1>3. Inv => ExactlyOnce
  BY DEF Inv
<1> QED
  BY <1>1, <1>2, <1>3, PTL DEF Spec
=============================================================================

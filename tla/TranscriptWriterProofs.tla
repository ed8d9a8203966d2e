----------------------- MODULE TranscriptWriterProofs -----------------------
(***************************************************************************)
(* Proofs about the history of a session, for every size of the batches    *)
(* and every number of turns, entries and failures: its types, that a      *)
(* barrier that answers Ok speaks for all that was sent, that the host     *)
(* shows what the store holds, and that the session keeps the promise of   *)
(* DurableHistory.                                                         *)
(***************************************************************************)
EXTENDS TranscriptWriter, SequenceTheorems, TLAPS

-----------------------------------------------------------------------------
(* The inductive invariant                                                 *)

\* p is a prefix of s.
Prefix(p, s) == Len(p) <= Len(s) /\ \A k \in DOMAIN p : p[k] = s[k]

Increasing(s) == \A k, l \in DOMAIN s : k < l => s[k] < s[l]

Sends(m, n, op) == n \in DOMAIN m /\ m[n].op = op

Awaits(m, n, at) == Sends(m, n, "Barrier") /\ m[n].stage = at

\* The entries behind d are in the channel,
RestSent(d, m, e) ==
  \A k \in DOMAIN e : k > Len(d) =>
    \E n \in DOMAIN m : Sends(m, n, "Append") /\ m[n].id = e[k]

\* and nothing else is,
OnlyRest(d, m, e) ==
  \A n \in DOMAIN m : Sends(m, n, "Append") =>
    \E k \in DOMAIN e : k > Len(d) /\ m[n].id = e[k]

\* in their order;
InOrder(m) ==
  \A n, l \in DOMAIN m :
    Sends(m, n, "Append") /\ Sends(m, l, "Append") /\ n < l => m[n].id < m[l].id

\* a mark comes behind its entry.
MarksBehind(m, e) ==
  \A n \in DOMAIN m : Sends(m, n, "UpdateFlags") =>
    /\ \E k \in DOMAIN e : m[n].id = e[k]
    /\ \A l \in DOMAIN m : Sends(m, l, "Append") /\ n < l => m[l].id # m[n].id

\* What a writer has stored and gathered, d, and the appends in its channel, m, are
\* together the entries e of its turn.
Aligned(d, m, e) ==
  Prefix(d, e) /\ RestSent(d, m, e) /\ OnlyRest(d, m, e) /\ InOrder(m) /\ MarksBehind(m, e)

\* The marks that are not yet stored are in the channel.
MarksSent(f, s, m) ==
  \A i \in Ids : f[i] # s[i] => \E n \in DOMAIN m : Sends(m, n, "UpdateFlags") /\ m[n].id = i

Working == stage \in {"running", "flushing", "storing", "failed", "closing"}

\* The writer of a turn that has settled writes no more.
Quiet(t) ==
  /\ \A n \in DOMAIN mail[t] : mail[t][n].op = "Shutdown"
  /\ pending[t] = << >> \/ broken[t]

StoreOK ==
  /\ Increasing(disk)
  /\ \A k \in DOMAIN disk : disk[k] <= fresh
  /\ \A i \in Ids : i \notin Members(disk) => marked[i] = "plain"
  /\ session = "rest" => shown = disk

TurnsOK ==
  /\ stage = "none" <=> session # "turn"
  /\ session = "turn" => turn \in Turns
  /\ \A t \in Turns :
       /\ t > turn => /\ writer[t] = "none" /\ mail[t] = << >>
                      /\ pending[t] = << >> /\ ~broken[t]
       /\ (t = turn /\ Working) \/ Quiet(t)
  /\ stage = "running" => commit # "pending"
  /\ stage \in {"flushing", "storing", "failed"} => commit = "pending"
  /\ stage = "kept" => disk = entries /\ marked = flags /\ commit # "pending"

EntriesOK ==
  Working =>
    /\ writer[turn] = "alive"
    /\ Increasing(entries)
    /\ \A k \in DOMAIN entries : entries[k] <= fresh
    /\ stage \in {"flushing", "storing"} =>
         fresh \in Ids /\ \A k \in DOMAIN entries : entries[k] < fresh

\* The channel of the running turn, and the barrier it waits for.
MailOK ==
  Working =>
    LET m == mail[turn]
    IN  /\ \A n \in DOMAIN m : m[n].op # "Shutdown"
        /\ \A n \in DOMAIN m : Sends(m, n, "UpdateFlags") =>
             m[n].mark = "truncated" /\ flags[m[n].id] = "truncated"
        /\ stage = "running" => \A n \in DOMAIN m : m[n].op # "Barrier"
        /\ stage \in {"failed", "flushing"} =>
             \A n \in DOMAIN m : Sends(m, n, "Barrier") => m[n].stage = "flushing"
        /\ stage \in {"flushing", "closing"} =>
             IF answer = "none"
               THEN /\ Awaits(m, Len(m), stage)
                    /\ \A n \in DOMAIN m : Awaits(m, n, stage) => n = Len(m)
               ELSE /\ m = << >>
                    /\ IF answer = "Ok" THEN ~broken[turn] /\ pending[turn] = << >>
                                        ELSE broken[turn]
        /\ stage = "storing" => m = << >> /\ pending[turn] = << >> /\ ~broken[turn]

\* While its writer has not failed, the turn is in the store, in the batch or in the
\* channel; behind a failed compaction nothing more is written.
WrittenOK ==
  Working /\ ~broken[turn] =>
    \/ /\ Aligned(disk \o pending[turn], mail[turn], entries)
       /\ MarksSent(flags, marked, mail[turn])
    \/ /\ commit = "pending" /\ stage \in {"failed", "closing"}
       /\ pending[turn] = << >>
       /\ \A n \in DOMAIN mail[turn] : mail[turn][n].op = "Barrier"

IInv == TypeOK /\ StoreOK /\ TurnsOK /\ EntriesOK /\ MailOK /\ WrittenOK
-----------------------------------------------------------------------------
(* Sequences                                                               *)

\* The fields of an operation of the channel.
LEMMA OpFields ==
  ASSUME NEW o \in Ops
  PROVE  /\ o.op \in {"Append", "UpdateFlags", "Barrier", "Shutdown"}
         /\ o.op = "Append" => o.id \in Ids
         /\ o.op = "UpdateFlags" => o.id \in Ids /\ o.mark \in Marks
         /\ o.op = "Barrier" => o.stage \in {"flushing", "closing"}
BY DEF Ops, Append_, UpdateFlags, Barrier, Shutdown

\* The head and the tail of a sequence, by their places.
LEMMA TailFacts ==
  ASSUME NEW S, NEW s \in Seq(S), s # << >>
  PROVE  /\ Tail(s) \in Seq(S) /\ Head(s) = s[1] /\ 1 \in DOMAIN s
         /\ Len(Tail(s)) = Len(s) - 1
         /\ \A n \in DOMAIN Tail(s) : n + 1 \in DOMAIN s /\ Tail(s)[n] = s[n + 1] /\ n \in Nat
         /\ \A n \in DOMAIN s : n \in Nat /\ (n # 1 => n - 1 \in DOMAIN Tail(s) /\ Tail(s)[n - 1] = s[n])
OBVIOUS

\* Two sequences, one behind the other, by their places.
LEMMA ConcatFacts ==
  ASSUME NEW S, NEW s \in Seq(S), NEW r \in Seq(S)
  PROVE  /\ s \o r \in Seq(S)
         /\ Len(s \o r) = Len(s) + Len(r)
         /\ \A n \in DOMAIN s : n \in DOMAIN (s \o r) /\ (s \o r)[n] = s[n] /\ n \in 1 .. Len(s)
         /\ \A n \in DOMAIN r : Len(s) + n \in DOMAIN (s \o r) /\ (s \o r)[Len(s) + n] = r[n] /\ n \in 1 .. Len(r)
         /\ \A n \in DOMAIN (s \o r) : n \in DOMAIN s \/ (n - Len(s) \in DOMAIN r /\ n = Len(s) + (n - Len(s)))
OBVIOUS

\* Where an element of two sequences comes from.
LEMMA ConcatCases ==
  ASSUME NEW S, NEW s \in Seq(S), NEW r \in Seq(S), NEW n \in DOMAIN (s \o r)
  PROVE  \/ n \in DOMAIN s /\ (s \o r)[n] = s[n]
         \/ \E l \in DOMAIN r : (s \o r)[n] = r[l]
<1>1. n \in DOMAIN s \/ (n - Len(s) \in DOMAIN r /\ n = Len(s) + (n - Len(s)))
  BY ConcatFacts
<1>2. \A l \in DOMAIN r : (s \o r)[Len(s) + l] = r[l]
  BY ConcatFacts
<1>3. \A k \in DOMAIN s : (s \o r)[k] = s[k]
  BY ConcatFacts
<1> QED
  BY <1>1, <1>2, <1>3

\* An element behind two sequences is one behind the second.
LEMMA AppendConcat ==
  ASSUME NEW S, NEW s \in Seq(S), NEW r \in Seq(S), NEW x \in S
  PROVE  s \o Append(r, x) = Append(s \o r, x)
OBVIOUS

\* A prefix that is not shorter is the whole.
LEMMA PrefixWhole ==
  ASSUME NEW S, NEW p \in Seq(S), NEW s \in Seq(S), Prefix(p, s), Len(s) <= Len(p)
  PROVE  p = s
<1>1. Len(p) = Len(s)
  BY DEF Prefix
<1>2. \A k \in 1 .. Len(p) : p[k] = s[k]
  BY DEF Prefix
<1> QED
  BY <1>1, <1>2, SeqEqual

\* The first part of a prefix is a prefix.
LEMMA PrefixConcat ==
  ASSUME NEW S, NEW p \in Seq(S), NEW q \in Seq(S), NEW s \in Seq(S), Prefix(p \o q, s)
  PROVE  Prefix(p, s)
<1>1. Len(p \o q) = Len(p) + Len(q) /\ Len(q) >= 0 /\ DOMAIN p = 1 .. Len(p)
  BY ConcatFacts
<1>2. \A k \in DOMAIN p : (p \o q)[k] = p[k] /\ k \in DOMAIN (p \o q)
  BY ConcatFacts
<1> QED
  BY <1>1, <1>2 DEF Prefix

\* A prefix of an increasing sequence is increasing.
LEMMA PrefixIncreasing ==
  ASSUME NEW p \in Seq(Ids), NEW s \in Seq(Ids), Prefix(p, s), Increasing(s)
  PROVE  Increasing(p)
<1>1. DOMAIN p \subseteq DOMAIN s
  BY DEF Prefix
<1> QED
  BY <1>1 DEF Prefix, Increasing

-----------------------------------------------------------------------------
(* What the operations of the channel do to an aligned turn                *)

\* What lies before the others in an increasing sequence.
LEMMA IncreasingOrder ==
  ASSUME NEW s \in Seq(Ids), Increasing(s), NEW k \in DOMAIN s, NEW l \in DOMAIN s
  PROVE  /\ s[k] \in Nat /\ s[l] \in Nat /\ k \in Nat /\ l \in Nat
         /\ s[k] < s[l] => k < l
         /\ s[k] = s[l] => k = l
<1>0. s[k] \in Ids /\ s[l] \in Ids /\ k \in 1 .. Len(s) /\ l \in 1 .. Len(s)
  OBVIOUS
<1>1. s[k] \in Nat /\ s[l] \in Nat /\ k \in Nat /\ l \in Nat
  BY <1>0 DEF Ids
<1>2. k < l \/ k = l \/ l < k
  BY <1>1
<1> QED
  BY <1>1, <1>2 DEF Increasing

\* A writer takes the next entry of its turn from the channel.
LEMMA AlignedTakeAppend ==
  ASSUME NEW d \in Seq(Ids), NEW m \in Seq(Ops), NEW e \in Seq(Ids),
         Increasing(e), Aligned(d, m, e), m # << >>, Head(m).op = "Append"
  PROVE  Head(m).id \in Ids /\ Aligned(Append(d, Head(m).id), Tail(m), e)
<1> DEFINE x == Head(m).id
           b == Append(d, x)
           q == Tail(m)
<1>1. Head(m) = m[1] /\ 1 \in DOMAIN m /\ m[1] \in Ops /\ Sends(m, 1, "Append")
  BY TailFacts DEF Sends
<1>2. x \in Ids /\ x \in Nat
  BY <1>1, OpFields DEF Ids
<1>3. PICK k0 \in DOMAIN e : k0 > Len(d) /\ x = e[k0]
  BY <1>1 DEF Aligned, OnlyRest
<1>4. Len(d) \in Nat /\ Len(e) \in Nat /\ DOMAIN e = 1 .. Len(e) /\ DOMAIN d = 1 .. Len(d)
  OBVIOUS
<1>5. Len(d) + 1 \in DOMAIN e /\ k0 \in Nat
  BY <1>3, <1>4
<1>6. k0 = Len(d) + 1
  <2>1. PICK n \in DOMAIN m : Sends(m, n, "Append") /\ m[n].id = e[Len(d) + 1]
    <3>1. Len(d) + 1 > Len(d)
      BY <1>4
    <3> QED
      BY <1>5, <3>1 DEF Aligned, RestSent
  <2>2. n = 1 => k0 = Len(d) + 1
    BY <1>1, <1>3, <1>5, <2>1, IncreasingOrder
  <2>3. n # 1 => x < e[Len(d) + 1]
    <3>1. n # 1 => 1 < n
      BY TailFacts
    <3> QED
      BY <1>1, <2>1, <3>1 DEF Aligned, InOrder
  <2>4. x < e[Len(d) + 1] => k0 < Len(d) + 1
    BY <1>3, <1>5, IncreasingOrder
  <2> QED
    BY <2>2, <2>3, <2>4, <1>3, <1>4, <1>5
<1>7. b \in Seq(Ids) /\ Len(b) = Len(d) + 1 /\ b[Len(d) + 1] = x
      /\ \A k \in DOMAIN b : (k \in DOMAIN d /\ b[k] = d[k]) \/ k = Len(d) + 1
  BY <1>2
<1>8. Prefix(b, e)
  BY <1>3, <1>4, <1>5, <1>6, <1>7 DEF Prefix, Aligned
<1>9. ASSUME NEW k \in DOMAIN e, k > Len(b)
      PROVE  \E n \in DOMAIN q : Sends(q, n, "Append") /\ q[n].id = e[k]
  <2>1. k > Len(d) /\ k # k0
    BY <1>4, <1>6, <1>7, <1>9
  <2>2. PICK n \in DOMAIN m : Sends(m, n, "Append") /\ m[n].id = e[k]
    BY <2>1 DEF Aligned, RestSent
  <2>3. n # 1
    BY <1>1, <1>3, <2>1, <2>2, IncreasingOrder
  <2>4. n - 1 \in DOMAIN q /\ q[n - 1] = m[n]
    BY <2>3, TailFacts
  <2> QED
    BY <2>2, <2>4 DEF Sends
<1>10. ASSUME NEW n \in DOMAIN q, Sends(q, n, "Append")
       PROVE  \E k \in DOMAIN e : k > Len(b) /\ q[n].id = e[k]
  <2>1. n + 1 \in DOMAIN m /\ q[n] = m[n + 1] /\ Sends(m, n + 1, "Append") /\ 1 < n + 1
    BY <1>10, TailFacts DEF Sends
  <2>2. PICK k \in DOMAIN e : k > Len(d) /\ q[n].id = e[k]
    BY <2>1 DEF Aligned, OnlyRest
  <2>3. m[1].id < m[n + 1].id
    BY <1>1, <2>1 DEF Aligned, InOrder
  <2>5. e[k0] < e[k]
    BY <1>1, <1>3, <2>1, <2>2, <2>3
  <2>4. k0 < k /\ k \in Nat
    BY <2>5, IncreasingOrder
  <2> QED
    BY <1>4, <1>6, <1>7, <2>2, <2>4
<1>11. ASSUME NEW n \in DOMAIN q, NEW l \in DOMAIN q,
              Sends(q, n, "Append"), Sends(q, l, "Append"), n < l
       PROVE  q[n].id < q[l].id
  <2>1. /\ n + 1 \in DOMAIN m /\ q[n] = m[n + 1] /\ Sends(m, n + 1, "Append")
        /\ l + 1 \in DOMAIN m /\ q[l] = m[l + 1] /\ Sends(m, l + 1, "Append")
        /\ n + 1 < l + 1
    BY <1>11, TailFacts DEF Sends
  <2> QED
    BY <2>1 DEF Aligned, InOrder
<1>12. ASSUME NEW n \in DOMAIN q, Sends(q, n, "UpdateFlags")
       PROVE  /\ \E k \in DOMAIN e : q[n].id = e[k]
              /\ \A l \in DOMAIN q : Sends(q, l, "Append") /\ n < l => q[l].id # q[n].id
  <2>1. n + 1 \in DOMAIN m /\ q[n] = m[n + 1] /\ Sends(m, n + 1, "UpdateFlags")
    BY <1>12, TailFacts DEF Sends
  <2>2. ASSUME NEW l \in DOMAIN q, Sends(q, l, "Append"), n < l
        PROVE  q[l].id # q[n].id
    <3>1. l + 1 \in DOMAIN m /\ q[l] = m[l + 1] /\ Sends(m, l + 1, "Append") /\ n + 1 < l + 1
      BY <2>2, TailFacts DEF Sends
    <3> QED
      BY <2>1, <3>1 DEF Aligned, MarksBehind
  <2> QED
    BY <2>1, <2>2 DEF Aligned, MarksBehind
<1> QED
  BY <1>2, <1>8, <1>9, <1>10, <1>11, <1>12 DEF Aligned, RestSent, OnlyRest, InOrder, MarksBehind

\* What is no append leaves the order as it is.
LEMMA AlignedTakeOther ==
  ASSUME NEW d \in Seq(Ids), NEW m \in Seq(Ops), NEW e \in Seq(Ids),
         Aligned(d, m, e), m # << >>, Head(m).op # "Append"
  PROVE  Aligned(d, Tail(m), e)
<1> DEFINE q == Tail(m)
<1>1. ~Sends(m, 1, "Append")
  BY TailFacts DEF Sends
<1>2. \A n \in DOMAIN q : n + 1 \in DOMAIN m /\ q[n] = m[n + 1] /\ n \in Nat
  BY TailFacts
<1>3. \A n \in DOMAIN m : n # 1 => n - 1 \in DOMAIN q /\ q[n - 1] = m[n]
  BY TailFacts
<1>4. ASSUME NEW k \in DOMAIN e, k > Len(d)
      PROVE  \E n \in DOMAIN q : Sends(q, n, "Append") /\ q[n].id = e[k]
  <2>1. PICK n \in DOMAIN m : Sends(m, n, "Append") /\ m[n].id = e[k]
    BY <1>4 DEF Aligned, RestSent
  <2> QED
    BY <1>1, <1>3, <2>1 DEF Sends
<1>5. ASSUME NEW n \in DOMAIN q, Sends(q, n, "Append")
      PROVE  \E k \in DOMAIN e : k > Len(d) /\ q[n].id = e[k]
  <2>1. n + 1 \in DOMAIN m /\ q[n] = m[n + 1] /\ Sends(m, n + 1, "Append")
    BY <1>2, <1>5 DEF Sends
  <2> QED
    BY <2>1 DEF Aligned, OnlyRest
<1>6. ASSUME NEW n \in DOMAIN q, NEW l \in DOMAIN q,
             Sends(q, n, "Append"), Sends(q, l, "Append"), n < l
      PROVE  q[n].id < q[l].id
  <2>1. /\ n + 1 \in DOMAIN m /\ q[n] = m[n + 1] /\ Sends(m, n + 1, "Append")
        /\ l + 1 \in DOMAIN m /\ q[l] = m[l + 1] /\ Sends(m, l + 1, "Append")
        /\ n + 1 < l + 1
    BY <1>2, <1>6 DEF Sends
  <2> QED
    BY <2>1 DEF Aligned, InOrder
<1>7. ASSUME NEW n \in DOMAIN q, Sends(q, n, "UpdateFlags")
      PROVE  /\ \E k \in DOMAIN e : q[n].id = e[k]
             /\ \A l \in DOMAIN q : Sends(q, l, "Append") /\ n < l => q[l].id # q[n].id
  <2>1. n + 1 \in DOMAIN m /\ q[n] = m[n + 1] /\ Sends(m, n + 1, "UpdateFlags")
    BY <1>2, <1>7 DEF Sends
  <2>2. ASSUME NEW l \in DOMAIN q, Sends(q, l, "Append"), n < l
        PROVE  q[l].id # q[n].id
    <3>1. l + 1 \in DOMAIN m /\ q[l] = m[l + 1] /\ Sends(m, l + 1, "Append") /\ n + 1 < l + 1
      BY <1>2, <2>2 DEF Sends
    <3> QED
      BY <2>1, <3>1 DEF Aligned, MarksBehind
  <2> QED
    BY <2>1, <2>2 DEF Aligned, MarksBehind
<1> QED
  BY <1>4, <1>5, <1>6, <1>7 DEF Aligned, RestSent, OnlyRest, InOrder, MarksBehind

\* When a mark comes to the head of the channel, its entry has been taken.
LEMMA AlignedMark ==
  ASSUME NEW d \in Seq(Ids), NEW m \in Seq(Ops), NEW e \in Seq(Ids),
         Aligned(d, m, e), m # << >>, Head(m).op = "UpdateFlags"
  PROVE  Head(m).id \in Members(d)
<1>1. Head(m) = m[1] /\ 1 \in DOMAIN m /\ Sends(m, 1, "UpdateFlags") /\ ~Sends(m, 1, "Append")
  BY TailFacts DEF Sends
<1>2. PICK k \in DOMAIN e : m[1].id = e[k]
  BY <1>1 DEF Aligned, MarksBehind
<1>3. ~(k > Len(d))
  <2> SUFFICES ASSUME k > Len(d) PROVE FALSE
    OBVIOUS
  <2>1. PICK n \in DOMAIN m : Sends(m, n, "Append") /\ m[n].id = e[k]
    BY DEF Aligned, RestSent
  <2>2. n # 1 /\ n \in Nat /\ n >= 1
    BY <1>1, <2>1
  <2>3. 1 < n
    BY <2>2
  <2> QED
    BY <1>1, <1>2, <2>1, <2>3 DEF Aligned, MarksBehind
<1>4. k \in DOMAIN d /\ d[k] = e[k]
  BY <1>3 DEF Aligned, Prefix
<1> QED
  BY <1>1, <1>2, <1>4 DEF Members

\* When nothing is left in the channel, all is taken.
LEMMA AlignedDone ==
  ASSUME NEW d \in Seq(Ids), NEW m \in Seq(Ops), NEW e \in Seq(Ids),
         Aligned(d, m, e), \A n \in DOMAIN m : m[n].op # "Append"
  PROVE  d = e
<1>1. \A k \in DOMAIN e : ~(k > Len(d))
  BY DEF Aligned, RestSent, Sends
<1>2. Len(e) <= Len(d)
  BY <1>1
<1> QED
  BY <1>2, PrefixWhole DEF Aligned

\* One more at the end.
LEMMA IncreasingConcat ==
  ASSUME NEW e \in Seq(Ids), NEW r \in Seq(Ids), Increasing(e), Increasing(r),
         \A k \in DOMAIN e, l \in DOMAIN r : e[k] < r[l]
  PROVE  Increasing(e \o r)
<1> SUFFICES ASSUME NEW k \in DOMAIN (e \o r), NEW l \in DOMAIN (e \o r), k < l
             PROVE  (e \o r)[k] < (e \o r)[l]
  BY DEF Increasing
<1>0. k \in Nat /\ l \in Nat /\ Len(e) \in Nat /\ DOMAIN e = 1 .. Len(e)
  BY ConcatFacts
<1>1. CASE l \in DOMAIN e
  <2>1. k \in DOMAIN e
    BY <1>0, <1>1, ConcatFacts
  <2> QED
    BY <1>1, <2>1, ConcatFacts DEF Increasing
<1>2. CASE l \notin DOMAIN e
  <2>1. l - Len(e) \in DOMAIN r /\ (e \o r)[l] = r[l - Len(e)]
    BY <1>2, ConcatFacts
  <2>2. CASE k \in DOMAIN e
    BY <2>1, <2>2, ConcatFacts
  <2>3. CASE k \notin DOMAIN e
    <3>1. k - Len(e) \in DOMAIN r /\ (e \o r)[k] = r[k - Len(e)]
      BY <2>3, ConcatFacts
    <3>2. k - Len(e) < l - Len(e)
      BY <1>0
    <3> QED
      BY <2>1, <3>1, <3>2 DEF Increasing
  <2> QED
    BY <2>2, <2>3
<1> QED
  BY <1>1, <1>2

\* New entries go to the end of the turn and to the end of the channel.
LEMMA AlignedExtend ==
  ASSUME NEW d \in Seq(Ids), NEW m \in Seq(Ops), NEW e \in Seq(Ids), NEW r \in Seq(Ids),
         NEW o \in Seq(Ops), Len(o) = Len(r),
         \A n \in DOMAIN r : o[n].op = "Append" /\ o[n].id = r[n],
         Increasing(r), \A k \in DOMAIN e, l \in DOMAIN r : e[k] < r[l],
         Aligned(d, m, e)
  PROVE  Aligned(d, m \o o, e \o r)
<1> DEFINE q == m \o o
           f == e \o r
<1>0. /\ DOMAIN o = DOMAIN r /\ Len(m) \in Nat /\ Len(e) \in Nat /\ Len(d) \in Nat
      /\ Len(d) <= Len(e) /\ DOMAIN m = 1 .. Len(m) /\ DOMAIN e = 1 .. Len(e)
  BY DEF Aligned, Prefix
<1>1. \A n \in DOMAIN m : n \in DOMAIN q /\ q[n] = m[n] /\ n \in Nat /\ n <= Len(m)
  BY ConcatFacts
<1>2. \A k \in DOMAIN e : k \in DOMAIN f /\ f[k] = e[k]
  BY ConcatFacts
<1>3. \A n \in DOMAIN r : /\ Len(m) + n \in DOMAIN q /\ q[Len(m) + n] = o[n]
                          /\ Len(e) + n \in DOMAIN f /\ f[Len(e) + n] = r[n] /\ n \in Nat /\ n >= 1
  BY <1>0, ConcatFacts
<1>4. \A n \in DOMAIN q : n \in DOMAIN m \/ (n - Len(m) \in DOMAIN r /\ n = Len(m) + (n - Len(m)))
  BY <1>0, ConcatFacts
<1>5. \A k \in DOMAIN f : k \in DOMAIN e \/ (k - Len(e) \in DOMAIN r /\ k = Len(e) + (k - Len(e)))
  BY <1>0, ConcatFacts
<1>6. Prefix(d, f)
  <2>1. Len(d) <= Len(f)
    BY <1>0, ConcatFacts
  <2>2. \A k \in DOMAIN d : k \in DOMAIN e /\ d[k] = e[k]
    BY <1>0 DEF Aligned, Prefix
  <2> QED
    BY <1>2, <2>1, <2>2 DEF Prefix
<1>7. RestSent(d, q, f)
  <2> SUFFICES ASSUME NEW k \in DOMAIN f, k > Len(d)
               PROVE  \E n \in DOMAIN q : Sends(q, n, "Append") /\ q[n].id = f[k]
    BY DEF RestSent
  <2>1. CASE k \in DOMAIN e
    <3>1. PICK n \in DOMAIN m : Sends(m, n, "Append") /\ m[n].id = e[k]
      BY <2>1 DEF Aligned, RestSent
    <3> QED
      BY <1>1, <1>2, <2>1, <3>1 DEF Sends
  <2>2. CASE k \notin DOMAIN e
    <3>1. k - Len(e) \in DOMAIN r /\ f[k] = r[k - Len(e)]
      BY <1>3, <1>5, <2>2
    <3> QED
      BY <1>3, <3>1 DEF Sends
  <2> QED
    BY <2>1, <2>2
<1>a. \A n \in DOMAIN q : n \in Nat /\ n >= 1 /\ (n <= Len(m) \/ n > Len(m))
  BY <1>0, ConcatFacts
<1>8. ASSUME NEW n \in DOMAIN q, Sends(q, n, "Append"), n <= Len(m)
      PROVE  /\ n \in DOMAIN m /\ Sends(m, n, "Append") /\ q[n] = m[n]
             /\ \E k \in DOMAIN e : k > Len(d) /\ q[n].id = e[k]
  <2>1. n \in DOMAIN m
    BY <1>0, <1>8, <1>a
  <2>2. q[n] = m[n] /\ Sends(m, n, "Append")
    BY <1>1, <1>8, <2>1 DEF Sends
  <2> QED
    BY <2>1, <2>2 DEF Aligned, OnlyRest
<1>b. ASSUME NEW n \in DOMAIN q, n > Len(m)
      PROVE  n - Len(m) \in DOMAIN r /\ q[n].id = r[n - Len(m)] /\ q[n].op = "Append"
  <2>1. n \notin DOMAIN m
    BY <1>0, <1>b, <1>a
  <2>2. n - Len(m) \in DOMAIN r /\ n = Len(m) + (n - Len(m))
    BY <1>4, <2>1
  <2>3. q[Len(m) + (n - Len(m))] = o[n - Len(m)]
    BY <1>3, <2>2
  <2> QED
    BY <2>2, <2>3
<1>9. OnlyRest(d, q, f)
  <2> SUFFICES ASSUME NEW n \in DOMAIN q, Sends(q, n, "Append")
               PROVE  \E k \in DOMAIN f : k > Len(d) /\ q[n].id = f[k]
    BY DEF OnlyRest
  <2>1. CASE n <= Len(m)
    BY <1>2, <1>8, <2>1
  <2>2. CASE n > Len(m)
    <3>1. n - Len(m) \in DOMAIN r /\ q[n].id = r[n - Len(m)]
      BY <1>b, <2>2
    <3>2. Len(e) + (n - Len(m)) \in DOMAIN f /\ f[Len(e) + (n - Len(m))] = q[n].id
          /\ n - Len(m) \in Nat /\ n - Len(m) >= 1
      BY <1>3, <3>1
    <3>3. Len(e) + (n - Len(m)) > Len(d)
      BY <1>0, <3>2
    <3> QED
      BY <3>2, <3>3
  <2> QED
    BY <1>a, <2>1, <2>2
<1>10. InOrder(q)
  <2> SUFFICES ASSUME NEW n \in DOMAIN q, NEW l \in DOMAIN q,
                      Sends(q, n, "Append"), Sends(q, l, "Append"), n < l
               PROVE  q[n].id < q[l].id
    BY DEF InOrder
  <2>1. CASE n <= Len(m) /\ l <= Len(m)
    <3>1. Sends(m, n, "Append") /\ q[n] = m[n] /\ n \in DOMAIN m
      BY <1>8, <2>1
    <3>2. Sends(m, l, "Append") /\ q[l] = m[l] /\ l \in DOMAIN m
      BY <1>8, <2>1
    <3> QED
      BY <3>1, <3>2 DEF Aligned, InOrder
  <2>2. CASE n <= Len(m) /\ l > Len(m)
    <3>1. PICK k \in DOMAIN e : q[n].id = e[k]
      BY <1>8, <2>2
    <3>2. l - Len(m) \in DOMAIN r /\ q[l].id = r[l - Len(m)]
      BY <1>b, <2>2
    <3> QED
      BY <3>1, <3>2
  <2>3. CASE n > Len(m) /\ l > Len(m)
    <3>1. n - Len(m) \in DOMAIN r /\ q[n].id = r[n - Len(m)]
      BY <1>b, <2>3
    <3>2. l - Len(m) \in DOMAIN r /\ q[l].id = r[l - Len(m)]
      BY <1>b, <2>3
    <3>3. n - Len(m) < l - Len(m)
      BY <1>0, <1>a
    <3> QED
      BY <3>1, <3>2, <3>3 DEF Increasing
  <2>4. n <= Len(m) \/ l > Len(m)
    BY <1>0, <1>a
  <2> QED
    BY <1>a, <2>1, <2>2, <2>3, <2>4
<1>11. MarksBehind(q, f)
  <2> SUFFICES ASSUME NEW n \in DOMAIN q, Sends(q, n, "UpdateFlags")
               PROVE  /\ \E k \in DOMAIN f : q[n].id = f[k]
                      /\ \A l \in DOMAIN q : Sends(q, l, "Append") /\ n < l => q[l].id # q[n].id
    BY DEF MarksBehind
  <2>1. n \in DOMAIN m
    <3>1. CASE n - Len(m) \in DOMAIN r /\ n = Len(m) + (n - Len(m))
      <4>1. q[n] = o[n - Len(m)]
        BY <1>3, <3>1
      <4> QED
        BY <3>1, <4>1 DEF Sends
    <3> QED
      BY <1>4, <3>1
  <2>2. q[n] = m[n] /\ Sends(m, n, "UpdateFlags")
    BY <1>1, <2>1 DEF Sends
  <2>3. PICK k \in DOMAIN e : q[n].id = e[k]
    BY <2>1, <2>2 DEF Aligned, MarksBehind
  <2>4. ASSUME NEW l \in DOMAIN q, Sends(q, l, "Append"), n < l
        PROVE  q[l].id # q[n].id
    <3>1. CASE l <= Len(m)
      BY <1>8, <2>1, <2>2, <2>4, <3>1 DEF Aligned, MarksBehind
    <3>2. CASE l > Len(m)
      <4>1. l - Len(m) \in DOMAIN r /\ q[l].id = r[l - Len(m)]
        BY <1>b, <3>2
      <4>2. e[k] < r[l - Len(m)]
        BY <4>1
      <4>3. e[k] \in Ids
        OBVIOUS
      <4>4. e[k] \in Nat
        BY <4>3 DEF Ids
      <4> QED
        BY <2>3, <4>1, <4>2, <4>4
    <3> QED
      BY <1>a, <3>1, <3>2
  <2> QED
    BY <1>2, <2>3, <2>4
<1> QED
  BY <1>6, <1>7, <1>9, <1>10, <1>11 DEF Aligned

\* Anything else that is sent, a mark for an entry or a barrier.
LEMMA AlignedSend ==
  ASSUME NEW d \in Seq(Ids), NEW m \in Seq(Ops), NEW e \in Seq(Ids), NEW o \in Ops,
         o.op # "Append", o.op = "UpdateFlags" => \E k \in DOMAIN e : o.id = e[k],
         Aligned(d, m, e)
  PROVE  Aligned(d, m \o <<o>>, e)
<1> DEFINE q == m \o <<o>>
<1>0. <<o>> \in Seq(Ops) /\ Len(m) \in Nat /\ DOMAIN m = 1 .. Len(m)
  OBVIOUS
<1>1. \A n \in DOMAIN m : n \in DOMAIN q /\ q[n] = m[n] /\ n \in Nat /\ n <= Len(m)
  BY <1>0, ConcatFacts
<1>2. \A n \in DOMAIN q : n \in Nat /\ (n \in DOMAIN m \/ (n = Len(m) + 1 /\ q[n] = o))
  OBVIOUS
<1>3. \A n \in DOMAIN q : Sends(q, n, "Append") => n \in DOMAIN m /\ Sends(m, n, "Append") /\ q[n] = m[n]
  BY <1>1, <1>2 DEF Sends
<1>4. RestSent(d, q, e)
  BY <1>1 DEF Aligned, RestSent, Sends
<1>5. OnlyRest(d, q, e)
  BY <1>3 DEF Aligned, OnlyRest
<1>6. InOrder(q)
  BY <1>3 DEF Aligned, InOrder
<1>7. MarksBehind(q, e)
  <2> SUFFICES ASSUME NEW n \in DOMAIN q, Sends(q, n, "UpdateFlags")
               PROVE  /\ \E k \in DOMAIN e : q[n].id = e[k]
                      /\ \A l \in DOMAIN q : Sends(q, l, "Append") /\ n < l => q[l].id # q[n].id
    BY DEF MarksBehind
  <2>1. CASE n \in DOMAIN m
    <3>1. q[n] = m[n] /\ Sends(m, n, "UpdateFlags")
      BY <1>1, <2>1, <2>1 DEF Sends
    <3> QED
      BY <1>3, <2>1, <3>1 DEF Aligned, MarksBehind
  <2>2. CASE n = Len(m) + 1 /\ q[n] = o
    <3>1. \A l \in DOMAIN q : Sends(q, l, "Append") => ~(n < l)
      BY <1>0, <1>1, <1>3, <2>2
    <3> QED
      BY <2>2, <3>1 DEF Sends
  <2> QED
    BY <1>2, <2>1, <2>2
<1> QED
  BY <1>4, <1>5, <1>6, <1>7 DEF Aligned

\* A turn that begins, and one whose compaction was stored.
LEMMA AlignedStart ==
  ASSUME NEW e \in Seq(Ids)
  PROVE  Aligned(e, << >>, e)
<1>1. \A k \in DOMAIN e : ~(k > Len(e))
  OBVIOUS
<1> QED
  BY <1>1 DEF Aligned, Prefix, RestSent, OnlyRest, InOrder, MarksBehind

\* The same for the marks.
LEMMA MarksTake ==
  ASSUME NEW f \in [Ids -> Marks], NEW s \in [Ids -> Marks], NEW m \in Seq(Ops),
         m # << >>, MarksSent(f, s, m)
  PROVE  /\ Head(m).op # "UpdateFlags" => MarksSent(f, s, Tail(m))
         /\ Head(m).op = "UpdateFlags" /\ Head(m).mark = f[Head(m).id] =>
              MarksSent(f, [s EXCEPT ![Head(m).id] = Head(m).mark], Tail(m))
<1>1. \A n \in DOMAIN m : n # 1 => n - 1 \in DOMAIN Tail(m) /\ Tail(m)[n - 1] = m[n]
  BY TailFacts
<1>2. Head(m) = m[1] /\ m[1] \in Ops
  BY TailFacts
<1>3. ASSUME NEW i \in Ids, NEW n \in DOMAIN m, Sends(m, n, "UpdateFlags"), m[n].id = i, n # 1
      PROVE  \E l \in DOMAIN Tail(m) : Sends(Tail(m), l, "UpdateFlags") /\ Tail(m)[l].id = i
  BY <1>1, <1>3 DEF Sends
<1>4. Head(m).op # "UpdateFlags" => MarksSent(f, s, Tail(m))
  BY <1>2, <1>3 DEF MarksSent, Sends
<1>5. ASSUME Head(m).op = "UpdateFlags", Head(m).mark = f[Head(m).id]
      PROVE  MarksSent(f, [s EXCEPT ![Head(m).id] = Head(m).mark], Tail(m))
  <2>1. Head(m).id \in Ids
    BY <1>2, <1>5, OpFields
  <2> DEFINE s2 == [s EXCEPT ![Head(m).id] = Head(m).mark]
  <2> SUFFICES ASSUME NEW i \in Ids, f[i] # s2[i]
               PROVE  \E l \in DOMAIN Tail(m) : Sends(Tail(m), l, "UpdateFlags") /\ Tail(m)[l].id = i
    BY DEF MarksSent
  <2>2. i # Head(m).id /\ f[i] # s[i]
    BY <1>5, <2>1
  <2>3. PICK n \in DOMAIN m : Sends(m, n, "UpdateFlags") /\ m[n].id = i
    BY <2>2 DEF MarksSent
  <2> QED
    BY <1>2, <1>3, <2>2, <2>3
<1> QED
  BY <1>4, <1>5

\* What is sent besides leaves the marks in the channel.
LEMMA MarksSend ==
  ASSUME NEW f, NEW s, NEW m \in Seq(Ops), NEW o \in Seq(Ops), MarksSent(f, s, m)
  PROVE  MarksSent(f, s, m \o o)
<1>1. \A n \in DOMAIN m : n \in DOMAIN (m \o o) /\ (m \o o)[n] = m[n]
  BY ConcatFacts
<1> QED
  BY <1>1 DEF MarksSent, Sends

\* Without a mark in the channel, all marks are stored.
LEMMA MarksDone ==
  ASSUME NEW f \in [Ids -> Marks], NEW s \in [Ids -> Marks], NEW m,
         MarksSent(f, s, m), \A n \in DOMAIN m : m[n].op # "UpdateFlags"
  PROVE  f = s
<1>1. \A i \in Ids : f[i] = s[i]
  BY DEF MarksSent, Sends
<1> QED
  BY <1>1

-----------------------------------------------------------------------------
(* What a step of a writer does                                            *)

\* What the store call on a batch, or its absence, leaves.
Rests(t, batch) ==
  /\ disk' = disk /\ pending' = [pending EXCEPT ![t] = batch]
  /\ broken' = broken /\ failures' = failures

Stores(t, batch) ==
  /\ disk' = disk \o batch /\ pending' = [pending EXCEPT ![t] = << >>]
  /\ broken' = broken /\ failures' = failures /\ ~broken[t]

Fails(t, batch) ==
  /\ disk' \in {disk, disk \o batch} /\ ~broken[t]
  /\ pending' \in {[pending EXCEPT ![t] = batch], [pending EXCEPT ![t] = << >>]}
  /\ broken' = [broken EXCEPT ![t] = TRUE]
  /\ failures < MaxFailures /\ failures' = failures + 1

\* The writer takes the head of its channel.
Takes(t, op) ==
  /\ writer[t] = "alive" /\ mail[t] # << >> /\ Head(mail[t]).op = op
  /\ mail' = [mail EXCEPT ![t] = Tail(@)]

\* What the store call on a batch may return.
LEMMA FlushedCases ==
  ASSUME NEW t, NEW batch, NEW o \in Flushed(t, batch)
  PROVE  \/ /\ batch = << >> \/ broken[t]
            /\ o = [disk |-> disk, pending |-> batch, broken |-> broken[t], failures |-> failures]
         \/ /\ batch # << >> /\ ~broken[t]
            /\ o = [disk |-> disk \o batch, pending |-> << >>, broken |-> FALSE, failures |-> failures]
         \/ /\ batch # << >> /\ ~broken[t] /\ failures < MaxFailures
            /\ \E d \in {disk, disk \o batch} :
                 o = [disk |-> d, pending |-> batch, broken |-> TRUE, failures |-> failures + 1]
BY DEF Flushed

\* What it leaves in the state.
LEMMA FlushedLands ==
  ASSUME broken \in [Turns -> BOOLEAN], NEW t \in Turns, NEW batch, NEW o \in Flushed(t, batch),
         disk' = o.disk, pending' = [pending EXCEPT ![t] = o.pending],
         broken' = [broken EXCEPT ![t] = o.broken], failures' = o.failures
  PROVE  /\ \/ Rests(t, batch) /\ (batch = << >> \/ broken[t])
            \/ Stores(t, batch)
            \/ Fails(t, batch)
         /\ o.broken <=> broken'[t]
<1>1. CASE /\ batch = << >> \/ broken[t]
           /\ o = [disk |-> disk, pending |-> batch, broken |-> broken[t], failures |-> failures]
  <2>1. o.disk = disk /\ o.pending = batch /\ o.broken = broken[t] /\ o.failures = failures
    BY <1>1
  <2> QED
    BY <1>1, <2>1 DEF Rests
<1>2. CASE /\ batch # << >> /\ ~broken[t]
           /\ o = [disk |-> disk \o batch, pending |-> << >>, broken |-> FALSE, failures |-> failures]
  <2>1. o.disk = disk \o batch /\ o.pending = << >> /\ o.broken = FALSE /\ o.failures = failures
    BY <1>2
  <2>2. broken' = broken
    BY <1>2, <2>1
  <2> QED
    BY <1>2, <2>1, <2>2 DEF Stores
<1>3. ASSUME batch # << >>, ~broken[t], failures < MaxFailures, NEW d \in {disk, disk \o batch},
             o = [disk |-> d, pending |-> batch, broken |-> TRUE, failures |-> failures + 1]
      PROVE  Fails(t, batch) /\ (o.broken <=> broken'[t])
  <2>1. o.disk = d /\ o.pending = batch /\ o.broken = TRUE /\ o.failures = failures + 1
    BY <1>3
  <2> QED
    BY <1>3, <2>1 DEF Fails
<1> QED
  BY <1>1, <1>2, <1>3, FlushedCases

\* The timer of the writer stores the batch, or fails.
LEMMA WindowEndsEffect ==
  ASSUME TypeOK, NEW t \in Turns, WindowEnds(t)
  PROVE  /\ writer[t] = "alive" /\ mail[t] = << >> /\ pending[t] # << >> /\ ~broken[t]
         /\ Stores(t, pending[t]) \/ Fails(t, pending[t])
<1>1. PICK o \in Flushed(t, pending[t]) :
        /\ disk' = o.disk
        /\ pending' = [pending EXCEPT ![t] = o.pending]
        /\ broken' = [broken EXCEPT ![t] = o.broken]
        /\ failures' = o.failures
  BY DEF WindowEnds
<1>2. broken \in [Turns -> BOOLEAN]
  BY DEF TypeOK
<1>3. writer[t] = "alive" /\ mail[t] = << >> /\ pending[t] # << >> /\ ~broken[t]
  BY DEF WindowEnds
<1> QED
  BY <1>1, <1>2, <1>3, FlushedLands

\* A full batch is stored, or fails; a writer that failed keeps a bounded one.
LEMMA TakeAppendEffect ==
  ASSUME TypeOK, NEW t \in Turns, TakeAppend(t)
  PROVE  /\ Takes(t, "Append") /\ Head(mail[t]).id \in Ids
         /\ \E batch \in Seq(Ids) :
              /\ \/ batch = Append(pending[t], Head(mail[t]).id)
                 \/ batch = pending[t] /\ broken[t]
              /\ Len(batch) <= (IF broken[t] THEN FailedMax ELSE BatchMax)
              /\ \/ Rests(t, batch) /\ (broken[t] \/ Len(batch) < BatchMax)
                 \/ Stores(t, batch) \/ Fails(t, batch)
<1> DEFINE x == Head(mail[t]).id
           b == IF broken[t] /\ Len(pending[t]) >= FailedMax THEN pending[t]
                ELSE Append(pending[t], x)
<1>0. /\ broken \in [Turns -> BOOLEAN] /\ pending[t] \in Seq(Ids) /\ mail[t] \in Seq(Ops)
      /\ Len(pending[t]) <= (IF broken[t] THEN FailedMax ELSE BatchMax - 1)
      /\ BatchMax \in Nat \ {0} /\ FailedMax \in Nat /\ pending \in [Turns -> Seq(Ids)]
  BY WriterAssumption DEF TypeOK
<1>1. writer[t] = "alive" /\ mail[t] # << >> /\ Head(mail[t]).op = "Append"
  BY DEF TakeAppend, Holds
<1>2. x \in Ids
  BY <1>0, <1>1, OpFields, TailFacts
<1>3. mail' = [mail EXCEPT ![t] = Tail(@)]
  BY DEF TakeAppend, Take
<1>4. b \in Seq(Ids) /\ Len(b) <= (IF broken[t] THEN FailedMax ELSE BatchMax)
  BY <1>0, <1>2
<1>7. \/ b = Append(pending[t], x)
      \/ b = pending[t] /\ broken[t]
  OBVIOUS
<1>5. CASE Len(b) >= BatchMax
  <2>1. PICK o \in Flushed(t, b) : Take(t, o)
    BY <1>5 DEF TakeAppend
  <2>2. \/ Rests(t, b) /\ (b = << >> \/ broken[t])
        \/ Stores(t, b) \/ Fails(t, b)
    <3> HIDE DEF b
    <3> QED
      BY <1>0, <2>1, FlushedLands DEF Take
  <2>3. b # << >>
    <3> HIDE DEF b
    <3>1. Len(b) > 0
      BY <1>0, <1>4, <1>5
    <3> QED
      BY <3>1
  <2> QED
    BY <1>0, <1>1, <1>2, <1>3, <1>4, <2>2, <2>3 DEF Takes
<1>6. CASE ~(Len(b) >= BatchMax)
  <2> DEFINE o == [disk |-> disk, pending |-> b, broken |-> broken[t], failures |-> failures]
  <2>1. Take(t, o)
    BY <1>6 DEF TakeAppend
  <2>2. o.disk = disk /\ o.pending = b /\ o.broken = broken[t] /\ o.failures = failures
    OBVIOUS
  <2> HIDE DEF o
  <2>3. Rests(t, b)
    BY <1>0, <2>1, <2>2 DEF Take, Rests
  <2>4. Len(b) < BatchMax
    BY <1>0, <1>4, <1>6
  <2> QED
    BY <1>0, <1>1, <1>2, <1>3, <1>4, <2>3, <2>4 DEF Takes
<1> QED
  BY <1>5, <1>6

\* A barrier stores the batch first, and answers by the writer's failure.
LEMMA TakeBarrierEffect ==
  ASSUME TypeOK, NEW t \in Turns, TakeBarrier(t)
  PROVE  /\ Takes(t, "Barrier")
         /\ \/ Rests(t, pending[t]) /\ (pending[t] = << >> \/ broken[t])
            \/ Stores(t, pending[t]) \/ Fails(t, pending[t])
         /\ answer' = IF t = turn /\ stage = Head(mail[t]).stage
                        THEN IF broken'[t] THEN "Err" ELSE "Ok"
                        ELSE answer
<1>1. PICK o \in Flushed(t, pending[t]) :
        /\ Take(t, o)
        /\ answer' = IF t = turn /\ stage = Head(mail[t]).stage
                       THEN IF o.broken THEN "Err" ELSE "Ok"
                       ELSE answer
  BY DEF TakeBarrier
<1>2. broken \in [Turns -> BOOLEAN]
  BY DEF TypeOK
<1>3. Takes(t, "Barrier")
  BY <1>1 DEF TakeBarrier, Holds, Take, Takes
<1> QED
  BY <1>1, <1>2, <1>3, FlushedLands DEF Take

\* A mark waits for the batch before it, and is refused by a failure.
LEMMA TakeFlagsEffect ==
  ASSUME TypeOK, NEW t \in Turns, TakeFlags(t)
  PROVE  LET i == Head(mail[t]).id
             update == [marked EXCEPT ![i] = Head(mail[t]).mark]
         IN  /\ Takes(t, "UpdateFlags")
             /\ \/ Rests(t, pending[t]) /\ (pending[t] = << >> \/ broken[t])
                \/ Stores(t, pending[t]) \/ Fails(t, pending[t])
             /\ broken[t] => marked' = marked
             /\ marked' \in {marked, update}
             /\ marked' = update \/ i \notin Members(disk') \/ broken'[t]
             /\ marked' = marked \/ i \in Members(disk')
<1> DEFINE m == Head(mail[t])
           upd == [marked EXCEPT ![m.id] = m.mark]
<1>1. PICK o \in Flushed(t, pending[t]) :
        LET update == IF m.id \in Members(o.disk) THEN upd ELSE marked
        IN  \/ /\ Take(t, o)
               /\ marked' = IF o.broken THEN marked ELSE update
            \/ /\ ~o.broken
               /\ o.failures < MaxFailures
               /\ Take(t, [o EXCEPT !.broken = TRUE, !.failures = @ + 1])
               /\ marked' \in {marked, update}
  BY DEF TakeFlags
<1>2. broken \in [Turns -> BOOLEAN] /\ pending \in [Turns -> Seq(Ids)]
  BY DEF TypeOK
<1>3. Takes(t, "UpdateFlags")
  BY <1>1 DEF TakeFlags, Holds, Take, Takes
<1>4. CASE /\ Take(t, o)
           /\ marked' = IF o.broken THEN marked ELSE IF m.id \in Members(o.disk) THEN upd ELSE marked
  <2>1. /\ \/ Rests(t, pending[t]) /\ (pending[t] = << >> \/ broken[t])
           \/ Stores(t, pending[t])
           \/ Fails(t, pending[t])
        /\ o.broken <=> broken'[t]
    BY <1>2, <1>4, FlushedLands DEF Take
  <2>2. disk' = o.disk
    BY <1>4 DEF Take
  <2>3. broken[t] => broken'[t]
    BY <2>1, <1>2 DEF Rests, Stores, Fails
  <2> QED
    BY <1>3, <1>4, <2>1, <2>2, <2>3
<1>5. CASE /\ ~o.broken
           /\ o.failures < MaxFailures
           /\ Take(t, [o EXCEPT !.broken = TRUE, !.failures = @ + 1])
           /\ marked' \in {marked, IF m.id \in Members(o.disk) THEN upd ELSE marked}
  <2> DEFINE q == [o EXCEPT !.broken = TRUE, !.failures = @ + 1]
  <2>1. \/ /\ o = [disk |-> disk, pending |-> << >>, broken |-> FALSE, failures |-> failures]
           /\ pending[t] = << >>
        \/ o = [disk |-> disk \o pending[t], pending |-> << >>, broken |-> FALSE, failures |-> failures]
    BY <1>2, <1>5, FlushedCases
  <2>2. /\ q.disk = o.disk /\ q.pending = << >> /\ q.broken = TRUE /\ q.failures = failures + 1
        /\ o.disk \in {disk, disk \o pending[t]} /\ o.failures = failures
    BY <2>1
  <2>3. ~broken[t]
    BY <1>5, FlushedCases
  <2> HIDE DEF q
  <2>4. /\ disk' = o.disk /\ pending' = [pending EXCEPT ![t] = << >>]
        /\ broken' = [broken EXCEPT ![t] = TRUE] /\ failures' = failures + 1
    BY <1>5, <2>2 DEF Take, q
  <2>5. Fails(t, pending[t])
    BY <1>5, <2>2, <2>3, <2>4 DEF Fails
  <2>6. broken'[t]
    BY <1>2, <2>4
  <2> QED
    BY <1>3, <1>5, <2>3, <2>4, <2>5, <2>6
<1> QED
  BY <1>1, <1>4, <1>5

\* The end of a turn stores what a writer that did not fail still holds.
LEMMA TakeShutdownEffect ==
  ASSUME TypeOK, NEW t \in Turns, TakeShutdown(t)
  PROVE  /\ Takes(t, "Shutdown")
         /\ \/ Rests(t, pending[t]) /\ (pending[t] = << >> \/ broken[t])
            \/ Stores(t, pending[t]) /\ pending[t] # << >>
            \/ Fails(t, pending[t]) /\ pending[t] # << >>
<1>1. PICK o \in Flushed(t, pending[t]) : Take(t, o)
  BY DEF TakeShutdown
<1>2. broken \in [Turns -> BOOLEAN]
  BY DEF TypeOK
<1>3. Takes(t, "Shutdown")
  BY <1>1 DEF TakeShutdown, Holds, Take, Takes
<1>4. CASE pending[t] = << >> \/ broken[t]
  <2>1. o = [disk |-> disk, pending |-> pending[t], broken |-> broken[t], failures |-> failures]
    BY <1>4, FlushedCases
  <2>2. o.disk = disk /\ o.pending = pending[t] /\ o.broken = broken[t] /\ o.failures = failures
    BY <2>1
  <2>3. Rests(t, pending[t])
    BY <1>1, <1>2, <2>2 DEF Take, Rests
  <2> QED
    BY <1>3, <1>4, <2>3
<1>5. CASE ~(pending[t] = << >> \/ broken[t])
  BY <1>1, <1>2, <1>3, <1>5, FlushedLands DEF Take
<1> QED
  BY <1>4, <1>5

\* One call of a writer on a batch.
Writes(t, batch) ==
  /\ batch \in Seq(Ids)
  /\ Len(batch) <= (IF broken[t] THEN FailedMax ELSE BatchMax)
  /\ \/ Rests(t, batch) /\ (broken[t] \/ Len(batch) < BatchMax)
     \/ Stores(t, batch) \/ Fails(t, batch)

\* Without a new entry the batch is within its bound.
LEMMA PendingWrites ==
  ASSUME TypeOK, NEW t \in Turns,
         Rests(t, pending[t]) \/ Stores(t, pending[t]) \/ Fails(t, pending[t])
  PROVE  Writes(t, pending[t])
<1>1. /\ pending[t] \in Seq(Ids) /\ BatchMax \in Nat \ {0} /\ FailedMax \in Nat
      /\ Len(pending[t]) <= (IF broken[t] THEN FailedMax ELSE BatchMax - 1)
  BY WriterAssumption DEF TypeOK
<1>2. /\ Len(pending[t]) <= (IF broken[t] THEN FailedMax ELSE BatchMax)
      /\ broken[t] \/ Len(pending[t]) < BatchMax
  BY <1>1
<1> QED
  BY <1>1, <1>2 DEF Writes

\* What a writer has stored and gathered is the batch behind the store, until it
\* fails; then it stores no more.
LEMMA WritesEffect ==
  ASSUME TypeOK, NEW t \in Turns, NEW batch, Writes(t, batch)
  PROVE  /\ disk' \in Seq(Ids) /\ pending'[t] \in {batch, << >>}
         /\ disk' \in {disk, disk \o batch}
         /\ pending' = [pending EXCEPT ![t] = pending'[t]]
         /\ broken' = [broken EXCEPT ![t] = broken'[t]] /\ broken'[t] \in BOOLEAN
         /\ ~broken'[t] => ~broken[t] /\ disk' \o pending'[t] = disk \o batch
         /\ broken[t] => broken'[t] /\ disk' = disk /\ pending'[t] = batch
         /\ Len(pending'[t]) <= (IF broken'[t] THEN FailedMax ELSE BatchMax - 1)
         /\ failures' \in 0 .. MaxFailures
<1>0. /\ disk \in Seq(Ids) /\ pending \in [Turns -> Seq(Ids)] /\ broken \in [Turns -> BOOLEAN]
      /\ failures \in 0 .. MaxFailures
      /\ batch \in Seq(Ids) /\ BatchMax \in Nat \ {0} /\ FailedMax \in Nat /\ BatchMax <= FailedMax
      /\ MaxFailures \in Nat
      /\ Len(batch) <= (IF broken[t] THEN FailedMax ELSE BatchMax)
  BY WriterAssumption DEF TypeOK, Writes
<1>a. disk \o batch \in Seq(Ids) /\ (disk \o batch) \o << >> = disk \o batch
  BY <1>0
<1>1. CASE Rests(t, batch) /\ (broken[t] \/ Len(batch) < BatchMax)
  <2>1. pending'[t] = batch /\ (broken'[t] <=> broken[t])
    BY <1>0, <1>1 DEF Rests
  <2>2. Len(batch) <= (IF broken[t] THEN FailedMax ELSE BatchMax - 1)
    BY <1>0, <1>1
  <2> QED
    BY <1>0, <1>1, <2>1, <2>2 DEF Rests
<1>2. CASE Stores(t, batch)
  <2>1. pending'[t] = << >> /\ ~broken'[t]
    BY <1>0, <1>2 DEF Stores
  <2>2. Len(<< >>) <= BatchMax - 1
    BY <1>0
  <2> QED
    BY <1>0, <1>a, <1>2, <2>1, <2>2 DEF Stores
<1>3. CASE Fails(t, batch)
  <2>1. broken'[t] /\ ~broken[t] /\ broken' = [broken EXCEPT ![t] = TRUE] /\ broken'[t] = TRUE
    BY <1>0, <1>3 DEF Fails
  <2>2. pending'[t] \in {batch, << >>} /\ pending' = [pending EXCEPT ![t] = pending'[t]]
    BY <1>0, <1>3 DEF Fails
  <2>3. Len(batch) <= FailedMax /\ Len(<< >>) <= FailedMax
    BY <1>0, <2>1
  <2>4. failures' \in 0 .. MaxFailures /\ disk' \in {disk, disk \o batch}
    BY <1>0, <1>3 DEF Fails
  <2> QED
    BY <1>0, <1>a, <2>1, <2>2, <2>3, <2>4
<1> QED
  BY <1>1, <1>2, <1>3 DEF Writes

\* What a writer leaves alone.
Apart == UNCHANGED <<hostVars, stage, turn, entries, flags, commit, fresh>>

\* The step of a writer, by its cause.
Window(t) ==
  /\ mail[t] = << >> /\ pending[t] # << >> /\ ~broken[t]
  /\ Writes(t, pending[t])
  /\ UNCHANGED <<marked, mail, writer, answer>>

Gather(t, batch) ==
  /\ Takes(t, "Append") /\ Head(mail[t]).id \in Ids
  /\ \/ batch = Append(pending[t], Head(mail[t]).id)
     \/ batch = pending[t] /\ broken[t]
  /\ Writes(t, batch)
  /\ UNCHANGED <<marked, writer, answer>>

\* A flush empties the batch or breaks the writer.
Drains(t) ==
  /\ Writes(t, pending[t])
  /\ broken'[t] \/ pending'[t] = << >>

Answers(t) ==
  /\ Takes(t, "Barrier") /\ Drains(t)
  /\ answer' = IF t = turn /\ stage = Head(mail[t]).stage
                 THEN IF broken'[t] THEN "Err" ELSE "Ok"
                 ELSE answer
  /\ UNCHANGED <<marked, writer>>

Marking(t) ==
  LET i == Head(mail[t]).id
      update == [marked EXCEPT ![i] = Head(mail[t]).mark]
  IN  /\ Takes(t, "UpdateFlags") /\ Drains(t)
      /\ marked' \in {marked, update}
      /\ marked' = update \/ i \notin Members(disk') \/ broken'[t]
      /\ marked' = marked \/ i \in Members(disk')
      /\ broken[t] => marked' = marked
      /\ UNCHANGED <<writer, answer>>

Stops(t) ==
  /\ Takes(t, "Shutdown") /\ Writes(t, pending[t])
  /\ pending[t] = << >> \/ broken[t] => Rests(t, pending[t])
  /\ writer' = [writer EXCEPT ![t] = "exited"]
  /\ UNCHANGED <<marked, answer>>

\* A flush that does not break the writer drains the batch.
LEMMA FlushDrains ==
  ASSUME TypeOK, NEW t \in Turns,
         \/ Rests(t, pending[t]) /\ (pending[t] = << >> \/ broken[t])
         \/ Stores(t, pending[t])
         \/ Fails(t, pending[t])
  PROVE  Drains(t)
<1>0. pending \in [Turns -> Seq(Ids)] /\ broken \in [Turns -> BOOLEAN]
  BY DEF TypeOK
<1>1. Writes(t, pending[t])
  BY PendingWrites
<1>2. broken'[t] \/ pending'[t] = << >>
  BY <1>0 DEF Rests, Stores, Fails
<1> QED
  BY <1>1, <1>2 DEF Drains

\* Every step of a writer is one of these.
LEMMA WriterCases ==
  ASSUME TypeOK, NEW t \in Turns, Writer(t)
  PROVE  /\ Apart /\ writer[t] = "alive"
         /\ \/ Window(t)
            \/ \E batch \in Seq(Ids) : Gather(t, batch)
            \/ Answers(t) \/ Marking(t) \/ Stops(t)
<1>1. CASE WindowEnds(t)
  <2>1. Writes(t, pending[t])
    BY <1>1, WindowEndsEffect, PendingWrites
  <2> QED
    BY <1>1, <2>1, WindowEndsEffect DEF WindowEnds, Window, Apart, turnVars
<1>2. CASE TakeAppend(t)
  <2>1. Takes(t, "Append") /\ Head(mail[t]).id \in Ids
    BY <1>2, TakeAppendEffect
  <2>2. PICK batch \in Seq(Ids) :
          /\ \/ batch = Append(pending[t], Head(mail[t]).id)
             \/ batch = pending[t] /\ broken[t]
          /\ Writes(t, batch)
    BY <1>2, TakeAppendEffect DEF Writes
  <2>3. UNCHANGED <<marked, writer, answer>> /\ Apart
    BY <1>2 DEF TakeAppend, Apart, turnVars
  <2> QED
    BY <2>1, <2>2, <2>3 DEF Gather, Takes
<1>3. CASE TakeBarrier(t)
  <2>1. Drains(t)
    BY <1>3, TakeBarrierEffect, FlushDrains
  <2>2. UNCHANGED <<marked, writer>> /\ Apart
    BY <1>3 DEF TakeBarrier, Apart
  <2> QED
    BY <1>3, <2>1, <2>2, TakeBarrierEffect DEF Answers, Takes
<1>4. CASE TakeFlags(t)
  <2>1. Drains(t)
    BY <1>4, TakeFlagsEffect, FlushDrains
  <2>2. UNCHANGED <<writer, answer>> /\ Apart
    BY <1>4 DEF TakeFlags, Apart, turnVars
  <2> QED
    BY <1>4, <2>1, <2>2, TakeFlagsEffect DEF Marking, Takes
<1>5. CASE TakeShutdown(t)
  <2>1. Takes(t, "Shutdown") /\ Writes(t, pending[t])
    BY <1>5, TakeShutdownEffect, PendingWrites
  <2>2. pending[t] = << >> \/ broken[t] => Rests(t, pending[t])
    BY <1>5, TakeShutdownEffect DEF Stores, Fails
  <2>3. UNCHANGED <<marked, answer>> /\ Apart /\ writer' = [writer EXCEPT ![t] = "exited"]
    BY <1>5 DEF TakeShutdown, Apart, turnVars
  <2> QED
    BY <2>1, <2>2, <2>3 DEF Stops, Takes
<1> QED
  BY <1>1, <1>2, <1>3, <1>4, <1>5 DEF Writer

\* The types through a step of a writer.
LEMMA WriterTypes ==
  ASSUME TypeOK, NEW t \in Turns, NEW batch, Writes(t, batch), Apart,
         writer[t] = "alive",
         mail' = mail \/ (mail' = [mail EXCEPT ![t] = Tail(@)] /\ mail[t] # << >>),
         marked' \in [Ids -> Marks], answer' \in {"none", "Ok", "Err"},
         writer' = writer \/ (writer' = [writer EXCEPT ![t] = "exited"] /\ mail' # mail)
  PROVE  TypeOK'
<1>0. /\ mail \in [Turns -> Seq(Ops)] /\ writer \in [Turns -> {"none", "alive", "exited"}]
      /\ pending \in [Turns -> Seq(Ids)] /\ broken \in [Turns -> BOOLEAN] /\ batch \in Seq(Ids)
  BY DEF TypeOK, Writes
<1>1. mail' \in [Turns -> Seq(Ops)]
  <2>1. mail[t] # << >> => Tail(mail[t]) \in Seq(Ops)
    BY <1>0, TailFacts
  <2> QED
    BY <1>0, <2>1
<1>2. writer' \in [Turns -> {"none", "alive", "exited"}]
  BY <1>0
<1>3. /\ disk' \in Seq(Ids) /\ failures' \in 0 .. MaxFailures
      /\ pending' \in [Turns -> Seq(Ids)] /\ broken' \in [Turns -> BOOLEAN]
  <2>0. pending'[t] \in {batch, << >>} /\ broken'[t] \in BOOLEAN
    BY WritesEffect
  <2>4. << >> \in Seq(Ids)
    OBVIOUS
  <2>1. pending'[t] \in Seq(Ids)
    BY <1>0, <2>0, <2>4
  <2>2. pending' = [pending EXCEPT ![t] = pending'[t]] /\ broken' = [broken EXCEPT ![t] = broken'[t]]
    BY WritesEffect
  <2>3. pending' \in [Turns -> Seq(Ids)] /\ broken' \in [Turns -> BOOLEAN]
    BY <1>0, <2>0, <2>1, <2>2
  <2> QED
    BY <2>3, WritesEffect
<1>4. ASSUME NEW u \in Turns
      PROVE  /\ Len(pending'[u]) <= (IF broken'[u] THEN FailedMax ELSE BatchMax - 1)
             /\ writer'[u] = "none" => mail'[u] = << >>
  <2>1. CASE u = t
    BY <1>0, <2>1, WritesEffect
  <2>2. CASE u # t
    <3>1. pending'[u] = pending[u] /\ (broken'[u] <=> broken[u])
      BY <1>0, <2>2, WritesEffect
    <3>2. writer'[u] = writer[u] /\ mail'[u] = mail[u]
      BY <1>0, <2>2
    <3> QED
      BY <3>1, <3>2 DEF TypeOK
  <2> QED
    BY <2>1, <2>2
<1>5. /\ session' \in {"closed", "rest", "turn"} /\ shown' \in Seq(Ids)
      /\ stage' \in Stages /\ turn' \in 0 .. MaxTurns
      /\ entries' \in Seq(Ids) /\ flags' \in [Ids -> Marks]
      /\ commit' \in {"clean", "pending", "committed"} /\ fresh' \in 0 .. MaxEntries
  BY DEF TypeOK, Apart, hostVars
<1> QED
  BY <1>1, <1>2, <1>3, <1>4, <1>5 DEF TypeOK

\* The types through every step of a writer.
LEMMA WriterTypeOK ==
  ASSUME TypeOK, NEW t \in Turns, Writer(t)
  PROVE  TypeOK'
<1>0. Apart /\ writer[t] = "alive" /\ marked \in [Ids -> Marks] /\ answer \in {"none", "Ok", "Err"}
      /\ mail \in [Turns -> Seq(Ops)]
  BY WriterCases DEF TypeOK
<1>a. ASSUME NEW op, Takes(t, op)
      PROVE  mail' = [mail EXCEPT ![t] = Tail(@)] /\ mail[t] # << >> /\ mail' # mail
  <2>1. mail' = [mail EXCEPT ![t] = Tail(@)] /\ mail[t] # << >>
    BY <1>a DEF Takes
  <2>2. Len(mail'[t]) = Len(mail[t]) - 1 /\ Len(mail[t]) \in Nat
    BY <1>0, <2>1, TailFacts
  <2>3. mail'[t] # mail[t]
    BY <2>2
  <2> QED
    BY <2>1, <2>3
<1>1. CASE Window(t)
  BY <1>0, <1>1, WriterTypes DEF Window
<1>2. ASSUME NEW batch \in Seq(Ids), Gather(t, batch)
      PROVE  TypeOK'
  BY <1>0, <1>a, <1>2, WriterTypes DEF Gather
<1>3. CASE Answers(t)
  <2>1. answer' \in {"none", "Ok", "Err"}
    BY <1>0, <1>3 DEF Answers
  <2> QED
    BY <1>0, <1>a, <1>3, <2>1, WriterTypes DEF Answers, Drains
<1>4. CASE Marking(t)
  <2>1. Head(mail[t]).id \in Ids /\ Head(mail[t]).mark \in Marks
    <3>1. Head(mail[t]) \in Ops /\ Head(mail[t]).op = "UpdateFlags"
      BY <1>0, <1>a, <1>4, TailFacts, ElementOfSeq DEF Marking, Takes
    <3> QED
      BY <3>1, OpFields
  <2>2. marked' \in [Ids -> Marks]
    BY <1>0, <1>4, <2>1 DEF Marking
  <2> QED
    BY <1>0, <1>a, <1>4, <2>2, WriterTypes DEF Marking, Drains
<1>5. CASE Stops(t)
  BY <1>0, <1>a, <1>5, WriterTypes DEF Stops
<1> QED
  BY <1>1, <1>2, <1>3, <1>4, <1>5, WriterCases

\* A settled writer only stops.
LEMMA QuietStep ==
  ASSUME TypeOK, NEW t \in Turns, Quiet(t), Writer(t)
  PROVE  /\ Apart /\ UNCHANGED <<disk, marked, answer, pending, broken, failures>>
         /\ mail[t] # << >> /\ mail' = [mail EXCEPT ![t] = Tail(@)]
         /\ writer' = [writer EXCEPT ![t] = "exited"]
         /\ Quiet(t)'
<1>0. mail \in [Turns -> Seq(Ops)] /\ pending \in [Turns -> Seq(Ids)]
  BY DEF TypeOK
<1>1. \A op : Takes(t, op) => op = "Shutdown"
  <2> SUFFICES ASSUME NEW op, Takes(t, op) PROVE op = "Shutdown"
    OBVIOUS
  <2>1. Head(mail[t]) = mail[t][1] /\ 1 \in DOMAIN mail[t]
    BY <1>0, TailFacts DEF Takes
  <2> QED
    BY <2>1 DEF Takes, Quiet
<1>2. ~Window(t)
  BY DEF Window, Quiet
<1>3. Apart /\ Stops(t)
  BY <1>1, <1>2, WriterCases DEF Gather, Answers, Marking
<1>4. Rests(t, pending[t]) /\ Takes(t, "Shutdown")
  BY <1>3 DEF Stops, Quiet
<1>5. UNCHANGED <<disk, pending, broken, failures>>
  BY <1>0, <1>4 DEF Rests
<1>6. mail[t] # << >> /\ mail' = [mail EXCEPT ![t] = Tail(@)] /\ mail'[t] = Tail(mail[t])
  BY <1>0, <1>4 DEF Takes
<1>7. \A n \in DOMAIN Tail(mail[t]) : n + 1 \in DOMAIN mail[t] /\ Tail(mail[t])[n] = mail[t][n + 1]
  BY <1>0, <1>6, TailFacts
<1>8. Quiet(t)'
  BY <1>5, <1>6, <1>7 DEF Quiet
<1> QED
  BY <1>3, <1>5, <1>6, <1>8 DEF Stops

\* The writer of an earlier turn disturbs nothing.
LEMMA QuietStepInv ==
  ASSUME IInv, NEW t \in Turns, ~(t = turn /\ Working), Writer(t)
  PROVE  IInv'
<1>0. TypeOK /\ TypeOK' /\ Quiet(t)
  BY WriterTypeOK DEF IInv, TurnsOK
<1>1. /\ Apart /\ UNCHANGED <<disk, marked, answer, pending, broken, failures>>
      /\ mail[t] # << >> /\ mail' = [mail EXCEPT ![t] = Tail(@)]
      /\ writer' = [writer EXCEPT ![t] = "exited"]
      /\ Quiet(t)'
  BY <1>0, QuietStep
<1>2. UNCHANGED <<session, shown, stage, turn, entries, flags, commit, fresh>>
  BY <1>1 DEF Apart, hostVars
<1>3. mail \in [Turns -> Seq(Ops)] /\ writer \in [Turns -> {"none", "alive", "exited"}]
  BY <1>0 DEF TypeOK
<1>4. \A u \in Turns : u # t => mail'[u] = mail[u] /\ writer'[u] = writer[u]
  BY <1>1, <1>3
<1>5. StoreOK'
  BY <1>1, <1>2 DEF IInv, StoreOK
<1>6. TurnsOK'
  <2>1. ASSUME NEW u \in Turns
        PROVE  /\ u > turn => /\ writer'[u] = "none" /\ mail'[u] = << >>
                              /\ pending[u] = << >> /\ ~broken[u]
               /\ (u = turn /\ Working) \/ Quiet(u)'
    <3>1. CASE u = t
      <4>1. ~(t > turn)
        BY <1>1 DEF IInv, TurnsOK
      <4> QED
        BY <1>1, <3>1, <4>1
    <3>2. CASE u # t
      <4>1. Quiet(u) => Quiet(u)'
        BY <1>1, <1>4, <3>2 DEF Quiet
      <4> QED
        BY <1>4, <3>2, <4>1 DEF IInv, TurnsOK
    <3> QED
      BY <3>1, <3>2
  <2>2. Working' <=> Working
    BY <1>2 DEF Working
  <2> QED
    BY <1>1, <1>2, <2>1, <2>2 DEF IInv, TurnsOK
<1>7. CASE Working
  <2>1. turn \in Turns /\ turn # t
    BY <1>7 DEF IInv, TurnsOK, Working
  <2>2. mail'[turn] = mail[turn] /\ writer'[turn] = writer[turn]
    BY <1>4, <2>1
  <2>3. EntriesOK'
    BY <1>2, <1>7, <2>2 DEF IInv, EntriesOK, Working
  <2>4. MailOK'
    BY <1>1, <1>2, <1>7, <2>2 DEF IInv, MailOK, Working
  <2>5. WrittenOK'
    BY <1>1, <1>2, <1>7, <2>2 DEF IInv, WrittenOK, Working
  <2> QED
    BY <1>0, <1>5, <1>6, <2>3, <2>4, <2>5 DEF IInv
<1>8. CASE ~Working
  <2>1. EntriesOK' /\ MailOK' /\ WrittenOK'
    BY <1>2, <1>8 DEF EntriesOK, MailOK, WrittenOK, Working
  <2> QED
    BY <1>0, <1>5, <1>6, <2>1 DEF IInv
<1> QED
  BY <1>7, <1>8

\* Entries grow at the end.
LEMMA MembersConcat ==
  ASSUME NEW s \in Seq(Ids), NEW r \in Seq(Ids)
  PROVE  Members(s) \subseteq Members(s \o r)
<1>1. \A n \in DOMAIN s : n \in DOMAIN (s \o r) /\ (s \o r)[n] = s[n]
  BY ConcatFacts
<1> QED
  BY <1>1 DEF Members

\* The store keeps its shape when it takes a part of the turn.
LEMMA StoreTakes ==
  ASSUME disk \in Seq(Ids), entries \in Seq(Ids), NEW batch \in Seq(Ids), NEW q \in Seq(Ids),
         disk' = disk \o batch, Prefix(disk \o batch, entries), Increasing(entries),
         \A k \in DOMAIN entries : entries[k] <= fresh
  PROVE  /\ Increasing(disk') /\ \A k \in DOMAIN disk' : disk'[k] <= fresh
         /\ Members(disk) \subseteq Members(disk')
<1>1. disk' \in Seq(Ids)
  OBVIOUS
<1>2. Increasing(disk')
  BY <1>1, PrefixIncreasing
<1>3. DOMAIN disk' \subseteq DOMAIN entries
  BY <1>1 DEF Prefix
<1>4. \A k \in DOMAIN disk' : disk'[k] <= fresh
  BY <1>3 DEF Prefix
<1> QED
  BY <1>2, <1>4, MembersConcat

\* The running turn and its writer; what the invariant says of them.
LEMMA WorkingFacts ==
  ASSUME IInv, Working
  PROVE  /\ TypeOK /\ turn \in Turns /\ session = "turn" /\ writer[turn] = "alive"
         /\ mail[turn] \in Seq(Ops) /\ pending[turn] \in Seq(Ids) /\ disk \in Seq(Ids)
         /\ entries \in Seq(Ids) /\ flags \in [Ids -> Marks] /\ marked \in [Ids -> Marks]
         /\ disk \o pending[turn] \in Seq(Ids)
         /\ Increasing(entries) /\ \A k \in DOMAIN entries : entries[k] <= fresh
         /\ mail \in [Turns -> Seq(Ops)] /\ broken \in [Turns -> BOOLEAN]
         /\ pending \in [Turns -> Seq(Ids)] /\ writer \in [Turns -> {"none", "alive", "exited"}]
<1>1. TypeOK /\ session = "turn" /\ turn \in Turns
  BY DEF IInv, TurnsOK, Working
<1>2. /\ mail \in [Turns -> Seq(Ops)] /\ pending \in [Turns -> Seq(Ids)] /\ disk \in Seq(Ids)
      /\ entries \in Seq(Ids) /\ flags \in [Ids -> Marks] /\ marked \in [Ids -> Marks]
      /\ broken \in [Turns -> BOOLEAN] /\ writer \in [Turns -> {"none", "alive", "exited"}]
  BY <1>1 DEF TypeOK
<1>3. mail[turn] \in Seq(Ops) /\ pending[turn] \in Seq(Ids)
  BY <1>1, <1>2
<1>4. disk \o pending[turn] \in Seq(Ids)
  BY <1>2, <1>3
<1> QED
  BY <1>1, <1>2, <1>3, <1>4 DEF IInv, EntriesOK

\* What the writer of the running turn takes and gathers, before it stores it: the
\* turn stays aligned, or its compaction has failed and there is nothing to take.
Gathered(t, batch) ==
  \/ Aligned(disk \o batch, mail'[t], entries)
  \/ /\ commit = "pending" /\ stage \in {"failed", "closing"}
     /\ batch = << >>
     /\ \A n \in DOMAIN mail'[t] : mail'[t][n].op = "Barrier"

\* The operation that is taken, and those left behind it.
LEMMA TakesHead ==
  ASSUME TypeOK, NEW t \in Turns, NEW op, Takes(t, op)
  PROVE  /\ mail[t] # << >> /\ mail[t] \in Seq(Ops) /\ mail'[t] = Tail(mail[t])
         /\ Head(mail[t]) = mail[t][1] /\ 1 \in DOMAIN mail[t] /\ mail[t][1].op = op
         /\ mail' = [mail EXCEPT ![t] = mail'[t]]
         /\ mail[t][1] \in Ops
         /\ \A n \in DOMAIN mail'[t] : n + 1 \in DOMAIN mail[t] /\ mail'[t][n] = mail[t][n + 1]
<1>1. mail \in [Turns -> Seq(Ops)] /\ mail[t] # << >> /\ mail' = [mail EXCEPT ![t] = Tail(@)]
  BY DEF TypeOK, Takes
<1>2. mail'[t] = Tail(mail[t]) /\ mail[t] \in Seq(Ops)
  BY <1>1
<1> QED
  BY <1>1, <1>2, TailFacts DEF Takes

\* Whatever the writer takes, the turn stays aligned.
LEMMA WriterGathers ==
  ASSUME IInv, Working, ~broken[turn],
         NEW batch \in Seq(Ids),
         \/ Window(turn) /\ batch = pending[turn]
         \/ Gather(turn, batch)
         \/ (Answers(turn) \/ Marking(turn)) /\ batch = pending[turn]
  PROVE  Gathered(turn, batch)
<1>0. /\ TypeOK /\ turn \in Turns /\ mail[turn] \in Seq(Ops) /\ pending[turn] \in Seq(Ids)
      /\ disk \in Seq(Ids) /\ entries \in Seq(Ids) /\ disk \o pending[turn] \in Seq(Ids)
      /\ Increasing(entries)
  BY WorkingFacts
<1>1. CASE Window(turn) /\ batch = pending[turn]
  <2>1. mail'[turn] = mail[turn] /\ pending[turn] # << >>
    BY <1>1 DEF Window
  <2> QED
    BY <1>1, <2>1 DEF Gathered, IInv, WrittenOK
<1>2. CASE Gather(turn, batch)
  <2>1. Takes(turn, "Append") /\ batch = Append(pending[turn], Head(mail[turn]).id)
        /\ Head(mail[turn]).id \in Ids
    BY <1>2 DEF Gather
  <2>2. mail[turn] # << >> /\ mail'[turn] = Tail(mail[turn]) /\ Head(mail[turn]).op = "Append"
        /\ 1 \in DOMAIN mail[turn] /\ mail[turn][1].op = "Append"
    BY <1>0, <2>1, TakesHead
  <2>3. Aligned(disk \o pending[turn], mail[turn], entries)
    BY <2>2 DEF IInv, WrittenOK
  <2>4. Aligned(Append(disk \o pending[turn], Head(mail[turn]).id), mail'[turn], entries)
    BY <1>0, <2>2, <2>3, AlignedTakeAppend
  <2>5. disk \o batch = Append(disk \o pending[turn], Head(mail[turn]).id)
    BY <1>0, <2>1, AppendConcat
  <2> QED
    BY <2>4, <2>5 DEF Gathered
<1>3. ASSUME NEW op, op # "Append", Takes(turn, op), batch = pending[turn]
      PROVE  Gathered(turn, batch)
  <2>1. /\ mail[turn] # << >> /\ mail'[turn] = Tail(mail[turn]) /\ Head(mail[turn]).op # "Append"
        /\ \A n \in DOMAIN mail'[turn] : n + 1 \in DOMAIN mail[turn] /\ mail'[turn][n] = mail[turn][n + 1]
    BY <1>0, <1>3, TakesHead
  <2>2. CASE Aligned(disk \o pending[turn], mail[turn], entries)
    BY <1>0, <1>3, <2>1, <2>2, AlignedTakeOther DEF Gathered
  <2>3. CASE /\ commit = "pending" /\ stage \in {"failed", "closing"}
             /\ pending[turn] = << >>
             /\ \A n \in DOMAIN mail[turn] : mail[turn][n].op = "Barrier"
    BY <1>3, <2>1, <2>3 DEF Gathered
  <2> QED
    BY <2>2, <2>3 DEF IInv, WrittenOK
<1> QED
  BY <1>1, <1>2, <1>3 DEF Answers, Marking

\* A mark that comes to the head while the writer works is one of the turn's, and
\* its entry is gathered.
LEMMA HeadMark ==
  ASSUME IInv, Working, Marking(turn)
  PROVE  LET i == Head(mail[turn]).id
         IN  /\ i \in Ids /\ Head(mail[turn]).mark = flags[i]
             /\ ~broken[turn] => i \in Members(disk \o pending[turn])
                                 /\ MarksSent(flags, marked, mail[turn])
<1>0. /\ TypeOK /\ turn \in Turns /\ mail[turn] \in Seq(Ops)
      /\ disk \o pending[turn] \in Seq(Ids) /\ entries \in Seq(Ids)
  BY WorkingFacts
<1>1. /\ mail[turn] # << >> /\ Head(mail[turn]) = mail[turn][1] /\ 1 \in DOMAIN mail[turn]
      /\ mail[turn][1].op = "UpdateFlags" /\ mail[turn][1] \in Ops
  BY <1>0, TakesHead DEF Marking
<1>2. Head(mail[turn]).id \in Ids
  BY <1>1, OpFields
<1>3. Head(mail[turn]).mark = flags[Head(mail[turn]).id]
  BY <1>1 DEF IInv, MailOK, Sends
<1>4. ~broken[turn] => Aligned(disk \o pending[turn], mail[turn], entries)
                       /\ MarksSent(flags, marked, mail[turn])
  BY <1>1 DEF IInv, WrittenOK
<1> QED
  BY <1>0, <1>1, <1>2, <1>3, <1>4, AlignedMark

\* The store after a step of the running turn's writer.
LEMMA WorkingStore ==
  ASSUME IInv, Working, NEW batch, Writes(turn, batch), Apart,
         ~broken[turn] => Gathered(turn, batch),
         \A i \in Ids : marked'[i] # marked[i] => i \in Members(disk')
  PROVE  StoreOK'
<1>0. /\ TypeOK /\ turn \in Turns /\ session = "turn" /\ pending[turn] \in Seq(Ids)
      /\ disk \in Seq(Ids) /\ entries \in Seq(Ids) /\ Increasing(entries)
      /\ \A k \in DOMAIN entries : entries[k] <= fresh
  BY WorkingFacts
<1>1. batch \in Seq(Ids)
  BY DEF Writes
<1>2. fresh' = fresh /\ session' = "turn"
  BY <1>0 DEF Apart, hostVars
<1>3. /\ Increasing(disk') /\ \A k \in DOMAIN disk' : disk'[k] <= fresh
      /\ Members(disk) \subseteq Members(disk')
  <2>1. CASE disk' = disk
    BY <2>1 DEF IInv, StoreOK
  <2>2. CASE disk' # disk
    <3>1. disk' = disk \o batch /\ ~broken[turn]
      BY <1>0, <2>2, WritesEffect
    <3>2. batch # << >>
      BY <1>0, <2>2, <3>1
    <3>3. Prefix(disk \o batch, entries)
      BY <3>1, <3>2 DEF Gathered, Aligned
    <3> QED
      BY <1>0, <1>1, <3>1, <3>3, StoreTakes
  <2> QED
    BY <2>1, <2>2
<1>4. \A i \in Ids : i \notin Members(disk') => marked'[i] = "plain"
  BY <1>3 DEF IInv, StoreOK
<1> QED
  BY <1>2, <1>3, <1>4 DEF StoreOK

\* The other parts.
LEMMA WorkingTurns ==
  ASSUME IInv, Working, NEW batch, Writes(turn, batch), Apart, UNCHANGED writer,
         mail' = [mail EXCEPT ![turn] = mail'[turn]]
  PROVE  TurnsOK' /\ EntriesOK' /\ Working'
<1>0. /\ turn \in Turns /\ session = "turn" /\ TypeOK
      /\ mail \in [Turns -> Seq(Ops)] /\ broken \in [Turns -> BOOLEAN]
      /\ pending \in [Turns -> Seq(Ids)] /\ writer[turn] = "alive"
  BY WorkingFacts
<1>1. UNCHANGED <<session, shown, stage, turn, entries, flags, commit, fresh, writer>>
  BY DEF Apart, hostVars
<1>2. \A u \in Turns : u # turn => mail'[u] = mail[u] /\ pending'[u] = pending[u] /\ (broken'[u] <=> broken[u])
  BY <1>0, WritesEffect
<1>3. Working' /\ stage # "kept"
  BY <1>1 DEF Working
<1>4. ASSUME NEW u \in Turns
      PROVE  /\ u > turn => /\ writer'[u] = "none" /\ mail'[u] = << >>
                            /\ pending'[u] = << >> /\ ~broken'[u]
             /\ u = turn \/ Quiet(u)'
  <2>1. CASE u = turn
    <3>1. ~(u > turn)
      BY <1>0, <2>1 DEF Turns
    <3> QED
      BY <2>1, <3>1
  <2>2. CASE u # turn
    <3>1. Quiet(u) => Quiet(u)'
      BY <1>2, <2>2 DEF Quiet
    <3> QED
      BY <1>1, <1>2, <2>2, <3>1 DEF IInv, TurnsOK
  <2> QED
    BY <2>1, <2>2
<1>5. TurnsOK'
  BY <1>1, <1>3, <1>4 DEF IInv, TurnsOK
<1>6. EntriesOK'
  BY <1>1, <1>3 DEF IInv, EntriesOK
<1> QED
  BY <1>3, <1>5, <1>6

\* The channel of the running turn after its head was taken.
LEMMA WorkingMail ==
  ASSUME IInv, Working, Apart, UNCHANGED writer,
         \/ Window(turn)
         \/ \E batch \in Seq(Ids) : Gather(turn, batch)
         \/ Answers(turn)
         \/ Marking(turn)
  PROVE  MailOK'
<1>0. /\ TypeOK /\ turn \in Turns /\ mail[turn] \in Seq(Ops)
  BY WorkingFacts
<1>1. UNCHANGED <<session, shown, stage, turn, entries, flags, commit, fresh, writer>>
  BY DEF Apart, hostVars
<1>2. stage \notin {"flushing", "closing"} \/ answer = "none"
  <2> SUFFICES ASSUME stage \in {"flushing", "closing"}, answer # "none"
               PROVE  FALSE
    OBVIOUS
  <2>1. /\ mail[turn] = << >>
        /\ IF answer = "Ok" THEN ~broken[turn] /\ pending[turn] = << >> ELSE broken[turn]
    BY DEF IInv, MailOK
  <2> QED
    BY <2>1 DEF Window, Gather, Answers, Marking, Takes
<1>3. stage # "storing"
  BY DEF IInv, MailOK, Window, Gather, Answers, Marking, Takes
<1>4. CASE Window(turn)
  <2>1. UNCHANGED <<mail, answer>> /\ mail[turn] = << >>
    BY <1>4 DEF Window
  <2>2. stage \notin {"flushing", "closing"}
    BY <1>2, <2>1 DEF IInv, MailOK, Awaits, Sends
  <2> QED
    BY <1>1, <1>3, <2>1, <2>2 DEF IInv, MailOK, Working
<1>5. ASSUME NEW op, Takes(turn, op),
             answer' # answer => op = "Barrier" /\ stage = Head(mail[turn]).stage
                                 /\ answer' = (IF broken'[turn] THEN "Err" ELSE "Ok")
                                 /\ (broken'[turn] \/ pending'[turn] = << >>),
             op = "Barrier" /\ stage = Head(mail[turn]).stage => answer' \in {"Ok", "Err"}
      PROVE  MailOK'
  <2> DEFINE m == mail[turn]
             q == mail'[turn]
  <2>1. /\ m # << >> /\ q = Tail(m) /\ Head(m) = m[1] /\ 1 \in DOMAIN m /\ m[1].op = op
        /\ \A n \in DOMAIN q : n + 1 \in DOMAIN m /\ q[n] = m[n + 1]
    BY <1>0, <1>5, TakesHead
  <2>2. Len(q) = Len(m) - 1 /\ Len(m) \in Nat /\ DOMAIN q = 1 .. Len(q) /\ DOMAIN m = 1 .. Len(m)
        /\ Len(m) >= 1
    BY <1>0, <2>1, TailFacts
  <2> HIDE DEF m, q
  <2>3. /\ \A n \in DOMAIN q : q[n].op # "Shutdown"
        /\ \A n \in DOMAIN q : Sends(q, n, "UpdateFlags") =>
             q[n].mark = "truncated" /\ flags[q[n].id] = "truncated"
        /\ stage = "running" => \A n \in DOMAIN q : q[n].op # "Barrier"
        /\ stage \in {"failed", "flushing"} =>
             \A n \in DOMAIN q : Sends(q, n, "Barrier") => q[n].stage = "flushing"
    BY <2>1 DEF IInv, MailOK, Sends, m
  <2>4. ASSUME stage \in {"flushing", "closing"}
        PROVE  IF answer' = "none"
                 THEN /\ Awaits(q, Len(q), stage)
                      /\ \A n \in DOMAIN q : Awaits(q, n, stage) => n = Len(q)
                 ELSE /\ q = << >>
                      /\ IF answer' = "Ok" THEN ~broken'[turn] /\ pending'[turn] = << >>
                                           ELSE broken'[turn]
    <3>1. answer = "none" /\ Awaits(m, Len(m), stage)
          /\ \A n \in DOMAIN m : Awaits(m, n, stage) => n = Len(m)
      BY <1>2, <2>4 DEF IInv, MailOK, m
    <3>2. CASE op = "Barrier" /\ stage = Head(m).stage
      <4>1. Awaits(m, 1, stage)
        BY <2>1, <3>2 DEF Awaits, Sends
      <4>2. Len(m) = 1
        BY <2>1, <3>1, <4>1
      <4>3. q = << >>
        <5>1. Len(Tail(m)) = 0 /\ Tail(m) \in Seq(Ops)
          BY <1>0, <2>1, <2>2, <4>2, TailFacts DEF m
        <5> QED
          BY <2>1, <5>1
      <4>4. answer' \in {"Ok", "Err"}
        BY <1>5, <3>2 DEF m
      <4>5. answer' = (IF broken'[turn] THEN "Err" ELSE "Ok") /\ (broken'[turn] \/ pending'[turn] = << >>)
        BY <1>5, <3>1, <4>4
      <4> QED
        BY <4>3, <4>4, <4>5
    <3>3. CASE ~(op = "Barrier" /\ stage = Head(m).stage)
      <4>1. answer' = "none"
        BY <1>5, <3>1, <3>3 DEF m
      <4>2. Len(m) # 1
        BY <2>1, <3>1, <3>3 DEF Awaits, Sends
      <4>3. Len(q) \in DOMAIN q /\ Len(q) + 1 = Len(m)
        BY <2>2, <4>2
      <4>4. q[Len(q)] = m[Len(m)]
        BY <2>1, <4>3
      <4>5. Awaits(q, Len(q), stage)
        BY <3>1, <4>3, <4>4 DEF Awaits, Sends
      <4>6. ASSUME NEW n \in DOMAIN q, Awaits(q, n, stage)
            PROVE  n = Len(q)
        <5>1. n + 1 \in DOMAIN m /\ Awaits(m, n + 1, stage)
          BY <2>1, <4>6 DEF Awaits, Sends
        <5>2. n + 1 = Len(m)
          BY <3>1, <5>1
        <5> QED
          BY <2>2, <4>3, <5>2
      <4> QED
        BY <4>1, <4>5, <4>6
    <3> QED
      BY <3>2, <3>3
  <2> QED
    BY <1>1, <1>3, <2>3, <2>4 DEF MailOK, Working, q
<1>6. ASSUME NEW batch \in Seq(Ids), Gather(turn, batch)
      PROVE  MailOK'
  BY <1>5, <1>6 DEF Gather
<1>7. CASE Answers(turn)
  BY <1>5, <1>7 DEF Answers, Drains
<1>8. CASE Marking(turn)
  BY <1>5, <1>8 DEF Marking
<1> QED
  BY <1>4, <1>6, <1>7, <1>8

\* What is written of the turn after a step of its writer.
LEMMA WorkingWritten ==
  ASSUME IInv, Working, NEW batch, Writes(turn, batch), Apart,
         \/ Window(turn) /\ batch = pending[turn]
         \/ Gather(turn, batch)
         \/ (Answers(turn) \/ Marking(turn)) /\ batch = pending[turn]
  PROVE  WrittenOK'
<1>0. /\ TypeOK /\ turn \in Turns /\ mail[turn] \in Seq(Ops) /\ disk \in Seq(Ids)
      /\ pending[turn] \in Seq(Ids) /\ flags \in [Ids -> Marks] /\ marked \in [Ids -> Marks]
  BY WorkingFacts
<1>1. UNCHANGED <<session, shown, stage, turn, entries, flags, commit, fresh>>
  BY DEF Apart, hostVars
<1>2. batch \in Seq(Ids)
  BY DEF Writes
<1> SUFFICES ASSUME ~broken'[turn]
             PROVE  \/ /\ Aligned(disk' \o pending'[turn], mail'[turn], entries)
                       /\ MarksSent(flags, marked', mail'[turn])
                    \/ /\ commit = "pending" /\ stage \in {"failed", "closing"}
                       /\ pending'[turn] = << >>
                       /\ \A n \in DOMAIN mail'[turn] : mail'[turn][n].op = "Barrier"
  BY <1>1 DEF WrittenOK, Working
<1>3. ~broken[turn] /\ disk' \o pending'[turn] = disk \o batch /\ pending'[turn] \in {batch, << >>}
  BY <1>0, WritesEffect
<1>4. Gathered(turn, batch)
  BY <1>2, <1>3, WriterGathers
<1>5. CASE /\ commit = "pending" /\ stage \in {"failed", "closing"}
           /\ batch = << >>
           /\ \A n \in DOMAIN mail'[turn] : mail'[turn][n].op = "Barrier"
  BY <1>3, <1>5
<1>6. CASE Aligned(disk \o batch, mail'[turn], entries)
           /\ MarksSent(flags, marked', mail'[turn])
  BY <1>3, <1>6
<1>7. CASE MarksSent(flags, marked, mail[turn])
  <2>1. CASE Window(turn)
    <3>1. mail'[turn] = mail[turn] /\ marked' = marked
      BY <2>1 DEF Window
    <3> QED
      BY <1>4, <1>5, <1>6, <1>7, <3>1 DEF Gathered
  <2>2. ASSUME NEW op, op # "UpdateFlags", Takes(turn, op), marked' = marked
        PROVE  MarksSent(flags, marked', mail'[turn])
    <3>1. mail[turn] # << >> /\ mail'[turn] = Tail(mail[turn]) /\ Head(mail[turn]).op # "UpdateFlags"
      BY <1>0, <2>2, TakesHead
    <3> QED
      BY <1>0, <1>7, <2>2, <3>1, MarksTake
  <2>3. CASE Gather(turn, batch)
    <3>1. MarksSent(flags, marked', mail'[turn])
      BY <2>2, <2>3 DEF Gather
    <3> QED
      BY <1>4, <1>5, <1>6, <3>1 DEF Gathered
  <2>4. CASE Answers(turn)
    <3>1. MarksSent(flags, marked', mail'[turn])
      BY <2>2, <2>4 DEF Answers
    <3> QED
      BY <1>4, <1>5, <1>6, <3>1 DEF Gathered
  <2>5. CASE Marking(turn)
    <3> DEFINE i == Head(mail[turn]).id
               update == [marked EXCEPT ![i] = Head(mail[turn]).mark]
    <3>1. i \in Ids /\ Head(mail[turn]).mark = flags[i] /\ i \in Members(disk \o pending[turn])
      BY <1>3, <2>5, HeadMark
    <3>2. pending'[turn] = << >> /\ batch = pending[turn]
      BY <2>5 DEF Marking, Drains, Window, Gather, Takes
    <3>3. disk' = disk \o pending[turn]
      <4>1. disk' \in Seq(Ids)
        BY <1>0, WritesEffect
      <4>2. disk' \o << >> = disk'
        BY <4>1
      <4> QED
        BY <1>3, <3>2, <4>2
    <3>4. marked' = update
      BY <2>5, <3>1, <3>3 DEF Marking
    <3>5. mail[turn] # << >> /\ mail'[turn] = Tail(mail[turn]) /\ Head(mail[turn]).op = "UpdateFlags"
      BY <1>0, <2>5, TakesHead DEF Marking
    <3>6. MarksSent(flags, marked', mail'[turn])
      BY <1>0, <1>7, <3>1, <3>4, <3>5, MarksTake
    <3> QED
      BY <1>4, <1>5, <1>6, <3>6 DEF Gathered
  <2> QED
    BY <2>1, <2>3, <2>4, <2>5
<1>8. CASE ~MarksSent(flags, marked, mail[turn])
  <2>1. /\ commit = "pending" /\ stage \in {"failed", "closing"} /\ pending[turn] = << >>
        /\ \A n \in DOMAIN mail[turn] : mail[turn][n].op = "Barrier"
    BY <1>3, <1>8 DEF IInv, WrittenOK
  <2>2. \A op : Takes(turn, op) => op = "Barrier" /\ mail'[turn] = Tail(mail[turn])
                /\ \A n \in DOMAIN mail'[turn] : n + 1 \in DOMAIN mail[turn] /\ mail'[turn][n] = mail[turn][n + 1]
    BY <1>0, <2>1, TakesHead
  <2>3. ~Window(turn) /\ ~Gather(turn, batch) /\ ~Marking(turn)
    BY <2>1, <2>2 DEF Window, Gather, Marking
  <2>4. Takes(turn, "Barrier") /\ batch = pending[turn]
    BY <2>3 DEF Answers
  <2>5. \A n \in DOMAIN mail'[turn] : mail'[turn][n].op = "Barrier"
    BY <2>1, <2>2, <2>4
  <2> QED
    BY <1>3, <2>1, <2>4, <2>5
<1> QED
  BY <1>7, <1>8

\* Every step of the running turn's writer preserves the invariant.
LEMMA WorkingStepInv ==
  ASSUME IInv, Working, Writer(turn)
  PROVE  IInv' /\ Working' /\ ~Stops(turn)
<1>0. /\ TypeOK /\ turn \in Turns /\ mail[turn] \in Seq(Ops) /\ mail \in [Turns -> Seq(Ops)]
  BY WorkingFacts
<1>1. TypeOK' /\ Apart
  BY <1>0, WriterTypeOK, WriterCases
<1>2. ~Stops(turn)
  <2> SUFFICES ASSUME Stops(turn) PROVE FALSE
    OBVIOUS
  <2>1. 1 \in DOMAIN mail[turn] /\ mail[turn][1].op = "Shutdown"
    BY <1>0, TakesHead DEF Stops
  <2> QED
    BY <2>1 DEF IInv, MailOK
<1>3. \/ Window(turn)
      \/ \E batch \in Seq(Ids) : Gather(turn, batch)
      \/ Answers(turn) \/ Marking(turn)
  BY <1>0, <1>2, WriterCases
<1>4. PICK batch \in Seq(Ids) :
        /\ \/ Window(turn) /\ batch = pending[turn]
           \/ Gather(turn, batch)
           \/ (Answers(turn) \/ Marking(turn)) /\ batch = pending[turn]
        /\ Writes(turn, batch)
  BY <1>3 DEF Window, Gather, Answers, Marking, Drains, Writes
<1>5. UNCHANGED writer
  BY <1>3 DEF Window, Gather, Answers, Marking
<1>6. mail' = [mail EXCEPT ![turn] = mail'[turn]]
  BY <1>0, <1>3, TakesHead DEF Window, Gather, Answers, Marking
<1>7. MailOK'
  BY <1>1, <1>3, <1>5, WorkingMail
<1>8. TurnsOK' /\ EntriesOK' /\ Working'
  BY <1>1, <1>4, <1>5, <1>6, WorkingTurns
<1>9. WrittenOK'
  BY <1>1, <1>4, WorkingWritten
<1>10. ~broken[turn] => Gathered(turn, batch)
  BY <1>4, WriterGathers
<1>11. \A i \in Ids : marked'[i] # marked[i] => i \in Members(disk')
  <2>1. CASE Marking(turn)
    <3>1. marked \in [Ids -> Marks] /\ Head(mail[turn]).id \in Ids
      BY <2>1, HeadMark, WorkingFacts
    <3> QED
      BY <2>1, <3>1 DEF Marking
  <2>2. CASE ~Marking(turn)
    BY <1>3, <2>2 DEF Window, Gather, Answers
  <2> QED
    BY <2>1, <2>2
<1>12. StoreOK'
  BY <1>1, <1>4, <1>10, <1>11, WorkingStore
<1> QED
  BY <1>1, <1>2, <1>7, <1>8, <1>9, <1>12 DEF IInv

-----------------------------------------------------------------------------
(* The steps of the turn and of the host                                   *)

\* A turn's channel is there while it runs.
LEMMA SendEffect ==
  ASSUME TypeOK, turn \in Turns, NEW ops \in Seq(Ops), Send(ops)
  PROVE  /\ mail' \in [Turns -> Seq(Ops)]
         /\ \A t \in Turns : t # turn => mail'[t] = mail[t]
         /\ mail'[turn] = IF writer[turn] = "alive" THEN mail[turn] \o ops ELSE mail[turn]
<1>1. mail \in [Turns -> Seq(Ops)] /\ mail[turn] \in Seq(Ops)
  BY DEF TypeOK
<1>2. mail[turn] \o ops \in Seq(Ops)
  BY <1>1
<1> QED
  BY <1>1, <1>2 DEF Send

\* The types through what a turn sends.
LEMMA SendTypes ==
  ASSUME TypeOK, turn \in Turns, NEW ops \in Seq(Ops), Send(ops),
         UNCHANGED <<storeVars, hostVars, turn, writer, pending, broken, failures>>,
         stage' \in Stages, entries' \in Seq(Ids), flags' \in [Ids -> Marks],
         commit' \in {"clean", "pending", "committed"}, answer' \in {"none", "Ok", "Err"},
         fresh' \in 0 .. MaxEntries
  PROVE  TypeOK'
<1>1. \A t \in Turns : writer[t] = "none" => mail'[t] = << >>
  <2> SUFFICES ASSUME NEW t \in Turns, writer[t] = "none" PROVE mail'[t] = << >>
    OBVIOUS
  <2>1. mail[t] = << >>
    BY DEF TypeOK
  <2> QED
    BY <2>1, SendEffect
<1>2. mail' \in [Turns -> Seq(Ops)]
  BY SendEffect
<1> QED
  BY <1>1, <1>2 DEF TypeOK, storeVars, hostVars

\* The operations a turn sends.
LEMMA SentOps ==
  /\ \A i \in Ids, m \in Marks : /\ UpdateFlags(i, m) \in Ops
                                 /\ UpdateFlags(i, m).op = "UpdateFlags"
                                 /\ UpdateFlags(i, m).id = i /\ UpdateFlags(i, m).mark = m
  /\ \A at \in {"flushing", "closing"} : /\ Barrier(at) \in Ops /\ Barrier(at).op = "Barrier"
                                         /\ Barrier(at).stage = at
  /\ \A i \in Ids : Append_(i) \in Ops /\ Append_(i).op = "Append" /\ Append_(i).id = i
  /\ Shutdown \in Ops /\ Shutdown.op = "Shutdown"
<1>1. \A i \in Ids, m \in Marks : /\ UpdateFlags(i, m) \in Ops
                                   /\ UpdateFlags(i, m).op = "UpdateFlags"
                                   /\ UpdateFlags(i, m).id = i /\ UpdateFlags(i, m).mark = m
  BY DEF Ops, UpdateFlags
<1>2. \A at \in {"flushing", "closing"} : /\ Barrier(at) \in Ops /\ Barrier(at).op = "Barrier"
                                           /\ Barrier(at).stage = at
  BY DEF Ops, Barrier
<1>3. \A i \in Ids : Append_(i) \in Ops /\ Append_(i).op = "Append" /\ Append_(i).id = i
  BY DEF Ops, Append_
<1>4. Shutdown \in Ops /\ Shutdown.op = "Shutdown"
  BY DEF Ops, Shutdown
<1> QED
  BY <1>1, <1>2, <1>3, <1>4

\* The new entries of a turn.
LEMMA ExtendEffect ==
  ASSUME IInv, NEW n \in 1 .. 2, Extend(n)
  PROVE  LET new == [k \in 1 .. n |-> fresh + k]
             ops == [k \in 1 .. n |-> Append_(new[k])]
         IN  /\ new \in Seq(Ids) /\ ops \in Seq(Ops) /\ Len(ops) = Len(new)
             /\ \A k \in DOMAIN new : ops[k].op = "Append" /\ ops[k].id = new[k]
             /\ Increasing(new)
             /\ \A k \in DOMAIN new : new[k] > fresh /\ new[k] <= fresh + n
             /\ fresh' \in 0 .. MaxEntries /\ fresh' = fresh + n /\ fresh \in Nat
<1> DEFINE new == [k \in 1 .. n |-> fresh + k]
           ops == [k \in 1 .. n |-> Append_(new[k])]
<1>1. fresh \in 0 .. MaxEntries /\ fresh \in Nat /\ MaxEntries \in Nat /\ n \in Nat
      /\ fresh + n <= MaxEntries /\ fresh' = fresh + n
  BY WriterAssumption DEF IInv, TypeOK, Extend
<1>2. fresh' \in 0 .. MaxEntries
  BY <1>1
<1>3. \A k \in 1 .. n : new[k] \in Ids /\ new[k] > fresh /\ new[k] <= fresh + n
  BY <1>1 DEF Ids
<1>4. new \in Seq(Ids) /\ DOMAIN new = 1 .. n /\ Len(new) = n
  BY <1>1, <1>3
<1>5. \A k \in 1 .. n : ops[k] \in Ops /\ ops[k].op = "Append" /\ ops[k].id = new[k]
  BY <1>3, SentOps
<1>6. ops \in Seq(Ops) /\ Len(ops) = n
  BY <1>1, <1>5
<1>7. Increasing(new)
  BY <1>1, <1>4 DEF Increasing
<1> QED
  BY <1>1, <1>2, <1>3, <1>4, <1>5, <1>6, <1>7

\* Outside the running turn nothing changes.
LEMMA OthersQuiet ==
  ASSUME IInv, turn \in Turns, UNCHANGED <<turn, writer, pending, broken>>,
         \A t \in Turns : t # turn => mail'[t] = mail[t]
  PROVE  \A t \in Turns :
           /\ t > turn => /\ writer'[t] = "none" /\ mail'[t] = << >>
                          /\ pending'[t] = << >> /\ ~broken'[t]
           /\ t = turn \/ Quiet(t)'
<1> SUFFICES ASSUME NEW t \in Turns
             PROVE  /\ t > turn => /\ writer[t] = "none" /\ mail'[t] = << >>
                                   /\ pending[t] = << >> /\ ~broken[t]
                    /\ t = turn \/ Quiet(t)'
  OBVIOUS
<1>1. CASE t = turn
  <2>1. ~(t > turn)
    BY <1>1 DEF Turns
  <2> QED
    BY <1>1, <2>1
<1>2. CASE t # turn
  <2>1. Quiet(t) => Quiet(t)'
    BY <1>2 DEF Quiet
  <2> QED
    BY <1>2, <2>1 DEF IInv, TurnsOK
<1> QED
  BY <1>1, <1>2

\* What a working turn sends when it goes on working.
LEMMA SendTurns ==
  ASSUME IInv, Working, Working', NEW ops \in Seq(Ops), Send(ops),
         UNCHANGED <<hostVars, turn, writer, pending, broken>>,
         stage' = "running" => commit' # "pending",
         stage' \in {"flushing", "storing", "failed"} => commit' = "pending"
  PROVE  TurnsOK' /\ mail'[turn] = mail[turn] \o ops
<1>0. TypeOK /\ turn \in Turns /\ session = "turn" /\ writer[turn] = "alive"
  BY WorkingFacts
<1>1. mail'[turn] = mail[turn] \o ops /\ \A t \in Turns : t # turn => mail'[t] = mail[t]
  BY <1>0, SendEffect
<1>2. \A t \in Turns :
        /\ t > turn => /\ writer'[t] = "none" /\ mail'[t] = << >>
                       /\ pending'[t] = << >> /\ ~broken'[t]
        /\ t = turn \/ Quiet(t)'
  BY <1>0, <1>1, OthersQuiet
<1>3. session' = "turn" /\ stage' # "none" /\ stage' # "kept"
  BY <1>0 DEF hostVars, Working
<1> QED
  BY <1>0, <1>1, <1>2, <1>3 DEF TurnsOK

\* New entries are sent in the order of the transcript.
LEMMA ExtendInv ==
  ASSUME IInv, NEW n \in 1 .. 2, Extend(n)
  PROVE  IInv'
<1> DEFINE new == [k \in 1 .. n |-> fresh + k]
           ops == [k \in 1 .. n |-> Append_(new[k])]
<1>1. /\ new \in Seq(Ids) /\ ops \in Seq(Ops) /\ Len(ops) = Len(new)
      /\ \A k \in DOMAIN new : ops[k].op = "Append" /\ ops[k].id = new[k]
      /\ Increasing(new)
      /\ \A k \in DOMAIN new : new[k] > fresh /\ new[k] <= fresh + n
      /\ fresh' \in 0 .. MaxEntries /\ fresh' = fresh + n /\ fresh \in Nat
  BY ExtendEffect
<1>2. stage = "running" /\ entries' = entries \o new /\ Send(ops)
      /\ UNCHANGED <<storeVars, hostVars, stage, turn, flags, commit, answer,
                     writer, pending, broken, failures>>
  BY DEF Extend
<1> HIDE DEF new, ops
<1>3. Working /\ Working'
  BY <1>2 DEF Working
<1>4. /\ TypeOK /\ turn \in Turns /\ writer[turn] = "alive" /\ mail[turn] \in Seq(Ops)
      /\ disk \in Seq(Ids) /\ pending[turn] \in Seq(Ids) /\ disk \o pending[turn] \in Seq(Ids)
      /\ entries \in Seq(Ids) /\ flags \in [Ids -> Marks] /\ marked \in [Ids -> Marks]
      /\ Increasing(entries) /\ \A k \in DOMAIN entries : entries[k] <= fresh
  BY <1>3, WorkingFacts
<1>5. TypeOK'
  <2>1. entries' \in Seq(Ids)
    BY <1>1, <1>2, <1>4
  <2>2. /\ stage' \in Stages /\ flags' \in [Ids -> Marks]
        /\ commit' \in {"clean", "pending", "committed"} /\ answer' \in {"none", "Ok", "Err"}
    BY <1>2, <1>4 DEF TypeOK
  <2> QED
    BY <1>1, <1>2, <1>4, <2>1, <2>2, SendTypes
<1>6. TurnsOK' /\ mail'[turn] = mail[turn] \o ops
  <2>1. commit # "pending"
    BY <1>2 DEF IInv, TurnsOK
  <2> QED
    BY <1>1, <1>2, <1>3, <2>1, SendTurns
<1>7. \A k \in DOMAIN entries : entries[k] \in Nat /\ entries[k] <= fresh
  <2>1. \A k \in DOMAIN entries : entries[k] \in Ids
    BY <1>4
  <2> QED
    BY <1>4, <2>1 DEF Ids
<1>8. \A k \in DOMAIN new : new[k] \in Nat
  <2>1. \A k \in DOMAIN new : new[k] \in Ids
    BY <1>1
  <2> QED
    BY <2>1 DEF Ids
<1>9. \A k \in DOMAIN entries, l \in DOMAIN new : entries[k] < new[l]
  BY <1>1, <1>7, <1>8
<1>10. StoreOK'
  <2>1. disk' = disk /\ marked' = marked /\ session' = session /\ shown' = shown
    BY <1>2 DEF storeVars, hostVars
  <2>2. \A k \in DOMAIN disk : disk[k] \in Nat /\ disk[k] <= fresh
    <3>1. \A k \in DOMAIN disk : disk[k] \in Ids
      BY <1>4
    <3> QED
      BY <3>1 DEF Ids, IInv, StoreOK
  <2>3. \A k \in DOMAIN disk : disk[k] <= fresh'
    BY <1>1, <2>2
  <2> QED
    BY <2>1, <2>3 DEF IInv, StoreOK
<1>11. EntriesOK'
  <2>1. Increasing(entries')
    BY <1>1, <1>2, <1>4, <1>9, IncreasingConcat
  <2>2. \A k \in DOMAIN entries' : entries'[k] <= fresh'
    <3> SUFFICES ASSUME NEW k \in DOMAIN entries' PROVE entries'[k] <= fresh'
      OBVIOUS
    <3>1. \/ k \in DOMAIN entries /\ entries'[k] = entries[k]
          \/ \E l \in DOMAIN new : entries'[k] = new[l]
      BY <1>1, <1>2, <1>4, ConcatCases
    <3>2. CASE k \in DOMAIN entries /\ entries'[k] = entries[k]
      BY <1>1, <1>7, <3>2
    <3>3. CASE \E l \in DOMAIN new : entries'[k] = new[l]
      BY <1>1, <1>8, <3>3
    <3> QED
      BY <3>1, <3>2, <3>3
  <2> QED
    BY <1>2, <1>4, <2>1, <2>2 DEF EntriesOK
<1>12. MailOK'
  <2>1. \A k \in DOMAIN (mail[turn] \o ops) :
          \/ k \in DOMAIN mail[turn] /\ (mail[turn] \o ops)[k] = mail[turn][k]
          \/ (mail[turn] \o ops)[k].op = "Append"
    <3> SUFFICES ASSUME NEW k \in DOMAIN (mail[turn] \o ops)
                 PROVE  \/ k \in DOMAIN mail[turn] /\ (mail[turn] \o ops)[k] = mail[turn][k]
                        \/ (mail[turn] \o ops)[k].op = "Append"
      OBVIOUS
    <3>1. DOMAIN ops = DOMAIN new
      BY <1>1
    <3>2. \/ k \in DOMAIN mail[turn] /\ (mail[turn] \o ops)[k] = mail[turn][k]
          \/ \E l \in DOMAIN ops : (mail[turn] \o ops)[k] = ops[l]
      BY <1>1, <1>4, ConcatCases
    <3> QED
      BY <1>1, <3>1, <3>2
  <2> QED
    BY <1>2, <1>3, <1>6, <2>1 DEF IInv, MailOK, Sends
<1>13. WrittenOK'
  <2> SUFFICES ASSUME ~broken[turn]
               PROVE  /\ Aligned(disk \o pending[turn], mail[turn] \o ops, entries \o new)
                      /\ MarksSent(flags, marked, mail[turn] \o ops)
    BY <1>2, <1>6 DEF WrittenOK, storeVars
  <2>1. Aligned(disk \o pending[turn], mail[turn], entries) /\ MarksSent(flags, marked, mail[turn])
    BY <1>2, <1>3 DEF IInv, WrittenOK
  <2> QED
    BY <1>1, <1>4, <1>9, <2>1, AlignedExtend, MarksSend
<1> QED
  BY <1>5, <1>6, <1>10, <1>11, <1>12, <1>13 DEF IInv

\* One operation more in the channel, that is no append.
LEMMA SendOne ==
  ASSUME IInv, Working, Working', NEW o \in Ops, Send(<<o>>),
         o.op # "Append", o.op = "UpdateFlags" => \E k \in DOMAIN entries : o.id = entries[k],
         UNCHANGED <<storeVars, hostVars, turn, entries, writer, pending, broken, failures>>,
         stage' \in Stages, flags' \in [Ids -> Marks], fresh' \in 0 .. MaxEntries,
         commit' \in {"clean", "pending", "committed"}, answer' \in {"none", "Ok", "Err"},
         stage' = "running" => commit' # "pending",
         stage' \in {"flushing", "storing", "failed"} => commit' = "pending"
  PROVE  /\ TypeOK' /\ TurnsOK'
         /\ Len(mail'[turn]) = Len(mail[turn]) + 1 /\ Len(mail[turn]) \in Nat
         /\ DOMAIN mail[turn] = 1 .. Len(mail[turn])
         /\ Len(mail'[turn]) \in DOMAIN mail'[turn]
         /\ mail'[turn][Len(mail'[turn])] = o
         /\ \A n \in DOMAIN mail'[turn] :
              \/ n \in DOMAIN mail[turn] /\ mail'[turn][n] = mail[turn][n]
              \/ n = Len(mail'[turn]) /\ mail'[turn][n] = o
         /\ \A n \in DOMAIN mail[turn] : n \in DOMAIN mail'[turn] /\ mail'[turn][n] = mail[turn][n]
         /\ Aligned(disk \o pending[turn], mail[turn], entries) =>
              Aligned(disk \o pending[turn], mail'[turn], entries)
<1>1. /\ TypeOK /\ turn \in Turns /\ writer[turn] = "alive" /\ mail[turn] \in Seq(Ops)
      /\ disk \o pending[turn] \in Seq(Ids) /\ entries \in Seq(Ids)
  BY WorkingFacts
<1>2. <<o>> \in Seq(Ops)
  OBVIOUS
<1>3. entries' \in Seq(Ids)
  BY <1>1
<1>4. TypeOK'
  BY <1>1, <1>2, <1>3, SendTypes
<1>5. TurnsOK' /\ mail'[turn] = mail[turn] \o <<o>>
  BY <1>2, SendTurns
<1>6. Aligned(disk \o pending[turn], mail[turn], entries) =>
        Aligned(disk \o pending[turn], mail[turn] \o <<o>>, entries)
  BY <1>1, AlignedSend
<1> DEFINE m == mail[turn]
<1>8. m \in Seq(Ops)
  BY <1>1
<1> HIDE DEF m
<1>7. /\ Len(m \o <<o>>) = Len(m) + 1 /\ Len(m) \in Nat
      /\ DOMAIN m = 1 .. Len(m)
      /\ Len(m \o <<o>>) \in DOMAIN (m \o <<o>>)
      /\ (m \o <<o>>)[Len(m \o <<o>>)] = o
      /\ \A n \in DOMAIN (m \o <<o>>) :
           \/ n \in DOMAIN m /\ (m \o <<o>>)[n] = m[n]
           \/ n = Len(m \o <<o>>) /\ (m \o <<o>>)[n] = o
      /\ \A n \in DOMAIN m : n \in DOMAIN (m \o <<o>>) /\ (m \o <<o>>)[n] = m[n]
  BY <1>8
<1> QED
  BY <1>4, <1>5, <1>6, <1>7 DEF m

\* The store rests.
LEMMA StoreRests ==
  ASSUME IInv, UNCHANGED <<storeVars, hostVars>>, fresh \in Nat, fresh' \in Nat, fresh <= fresh'
  PROVE  StoreOK'
<1>1. disk' = disk /\ marked' = marked /\ session' = session /\ shown' = shown
  BY DEF storeVars, hostVars
<1>2. \A k \in DOMAIN disk : disk[k] \in Nat /\ disk[k] <= fresh
  <2>1. \A k \in DOMAIN disk : disk[k] \in Ids
    BY DEF IInv, TypeOK
  <2> QED
    BY <2>1 DEF Ids, IInv, StoreOK
<1>3. \A k \in DOMAIN disk : disk[k] <= fresh'
  BY <1>2
<1> QED
  BY <1>1, <1>3 DEF IInv, StoreOK

\* A mark is sent behind the entry that it is for.
LEMMA TruncateInv ==
  ASSUME IInv, NEW i \in Ids, Truncate(i)
  PROVE  IInv'
<1> DEFINE o == UpdateFlags(i, "truncated")
<1>1. /\ stage = "running" /\ i \in Members(entries) /\ flags' = [flags EXCEPT ![i] = "truncated"]
      /\ Send(<<o>>)
      /\ UNCHANGED <<storeVars, hostVars, stage, turn, entries, commit, answer,
                     writer, pending, broken, countVars>>
  BY DEF Truncate
<1>2. o \in Ops /\ o.op = "UpdateFlags" /\ o.id = i /\ o.mark = "truncated"
  BY SentOps DEF Marks
<1> HIDE DEF o
<1>3. Working /\ Working'
  BY <1>1 DEF Working
<1>4. /\ TypeOK /\ turn \in Turns /\ flags \in [Ids -> Marks] /\ fresh \in 0 .. MaxEntries
      /\ mail[turn] \in Seq(Ops)
  BY <1>3, WorkingFacts DEF TypeOK
<1>5. flags' \in [Ids -> Marks] /\ flags'[i] = "truncated" /\ \A j \in Ids : j # i => flags'[j] = flags[j]
  BY <1>1, <1>4 DEF Marks
<1>6. /\ TypeOK' /\ TurnsOK'
      /\ Len(mail'[turn]) \in DOMAIN mail'[turn]
      /\ mail'[turn][Len(mail'[turn])] = o
      /\ \A n \in DOMAIN mail'[turn] :
           \/ n \in DOMAIN mail[turn] /\ mail'[turn][n] = mail[turn][n]
           \/ n = Len(mail'[turn]) /\ mail'[turn][n] = o
      /\ \A n \in DOMAIN mail[turn] : n \in DOMAIN mail'[turn] /\ mail'[turn][n] = mail[turn][n]
      /\ Aligned(disk \o pending[turn], mail[turn], entries) =>
           Aligned(disk \o pending[turn], mail'[turn], entries)
  <2>1. \E k \in DOMAIN entries : o.id = entries[k]
    BY <1>1, <1>2 DEF Members
  <2>2. /\ stage' \in Stages /\ fresh' \in 0 .. MaxEntries /\ fresh' = fresh /\ failures' = failures
        /\ commit' \in {"clean", "pending", "committed"} /\ answer' \in {"none", "Ok", "Err"}
        /\ commit' # "pending" /\ stage' = "running"
    BY <1>1, <1>4 DEF TypeOK, IInv, TurnsOK, countVars
  <2> QED
    BY <1>1, <1>2, <1>3, <1>5, <2>1, <2>2, SendOne
<1>7. StoreOK'
  BY <1>1, <1>4, StoreRests DEF countVars
<1>8. EntriesOK'
  BY <1>1, <1>3 DEF IInv, EntriesOK, countVars
<1>9. MailOK'
  <2>1. \A n \in DOMAIN mail'[turn] : Sends(mail'[turn], n, "UpdateFlags") =>
          mail'[turn][n].mark = "truncated" /\ flags'[mail'[turn][n].id] = "truncated"
    <3> SUFFICES ASSUME NEW n \in DOMAIN mail'[turn], mail'[turn][n].op = "UpdateFlags"
                 PROVE  mail'[turn][n].mark = "truncated" /\ flags'[mail'[turn][n].id] = "truncated"
      BY DEF Sends
    <3>1. CASE n \in DOMAIN mail[turn] /\ mail'[turn][n] = mail[turn][n]
      <4>1. mail[turn][n].mark = "truncated" /\ flags[mail[turn][n].id] = "truncated"
        BY <1>3, <3>1 DEF IInv, MailOK, Sends
      <4>2. mail[turn][n].id \in Ids
        <5>1. mail[turn][n] \in Ops
          BY <1>4, <3>1
        <5> QED
          BY <3>1, <5>1, OpFields
      <4> QED
        BY <1>5, <3>1, <4>1, <4>2
    <3>2. CASE mail'[turn][n] = o
      BY <1>2, <1>5, <3>2
    <3> QED
      BY <1>6, <3>1, <3>2
  <2> QED
    BY <1>1, <1>2, <1>3, <1>6, <2>1 DEF IInv, MailOK
<1>10. WrittenOK'
  <2> SUFFICES ASSUME ~broken[turn]
               PROVE  /\ Aligned(disk \o pending[turn], mail'[turn], entries)
                      /\ MarksSent(flags', marked, mail'[turn])
    BY <1>1 DEF WrittenOK, storeVars
  <2>1. Aligned(disk \o pending[turn], mail[turn], entries) /\ MarksSent(flags, marked, mail[turn])
    BY <1>1, <1>3 DEF IInv, WrittenOK
  <2>2. ASSUME NEW j \in Ids, flags'[j] # marked[j]
        PROVE  \E n \in DOMAIN mail'[turn] : Sends(mail'[turn], n, "UpdateFlags") /\ mail'[turn][n].id = j
    <3>1. CASE j = i
      BY <1>2, <1>6, <3>1 DEF Sends
    <3>2. CASE j # i
      <4>1. PICK n \in DOMAIN mail[turn] : Sends(mail[turn], n, "UpdateFlags") /\ mail[turn][n].id = j
        BY <1>5, <2>1, <2>2, <3>2 DEF MarksSent
      <4> QED
        BY <1>6, <4>1 DEF Sends
    <3> QED
      BY <3>1, <3>2
  <2> QED
    BY <1>6, <2>1, <2>2 DEF MarksSent
<1> QED
  BY <1>6, <1>7, <1>8, <1>9, <1>10 DEF IInv

\* A barrier is sent, and nothing else changes in the turn or the store.
LEMMA BarrierInv ==
  ASSUME IInv, Working, Working', NEW at \in {"flushing", "closing"}, Send(<<Barrier(at)>>),
         stage' = at, answer' = "none", commit' \in {"clean", "pending", "committed"},
         fresh' \in 0 .. MaxEntries, fresh <= fresh',
         UNCHANGED <<storeVars, hostVars, turn, entries, flags, writer, pending, broken, failures>>,
         stage = "running" \/ (stage = "failed" /\ at = "closing" /\ commit' = commit),
         at = "flushing" => commit' = "pending" /\ fresh < fresh'
  PROVE  IInv'
<1> DEFINE o == Barrier(at)
<1>1. o \in Ops /\ o.op = "Barrier" /\ o.stage = at /\ Send(<<o>>)
  BY SentOps
<1> HIDE DEF o
<1>2. /\ TypeOK /\ turn \in Turns /\ flags \in [Ids -> Marks] /\ fresh \in 0 .. MaxEntries
      /\ mail[turn] \in Seq(Ops) /\ writer[turn] = "alive" /\ fresh \in Nat /\ fresh' \in Nat
      /\ entries \in Seq(Ids) /\ Increasing(entries) /\ \A k \in DOMAIN entries : entries[k] <= fresh
  BY WorkingFacts DEF TypeOK
<1>3. /\ TypeOK' /\ TurnsOK'
      /\ Len(mail'[turn]) = Len(mail[turn]) + 1 /\ Len(mail[turn]) \in Nat
      /\ DOMAIN mail[turn] = 1 .. Len(mail[turn])
      /\ Len(mail'[turn]) \in DOMAIN mail'[turn]
      /\ mail'[turn][Len(mail'[turn])] = o
      /\ \A n \in DOMAIN mail'[turn] :
           \/ n \in DOMAIN mail[turn] /\ mail'[turn][n] = mail[turn][n]
           \/ n = Len(mail'[turn]) /\ mail'[turn][n] = o
      /\ \A n \in DOMAIN mail[turn] : n \in DOMAIN mail'[turn] /\ mail'[turn][n] = mail[turn][n]
      /\ Aligned(disk \o pending[turn], mail[turn], entries) =>
           Aligned(disk \o pending[turn], mail'[turn], entries)
  <2>1. stage' \in Stages /\ flags' \in [Ids -> Marks] /\ stage' # "running" /\ answer' \in {"none", "Ok", "Err"}
        /\ (stage' \in {"flushing", "storing", "failed"} => commit' = "pending")
    BY <1>2 DEF Stages
  <2> QED
    BY <1>1, <2>1, SendOne
<1>4. StoreOK'
  BY <1>2, StoreRests
<1>5. EntriesOK'
  <2>1. \A k \in DOMAIN entries : entries[k] \in Nat /\ entries[k] <= fresh
    <3>1. \A k \in DOMAIN entries : entries[k] \in Ids
      BY <1>2
    <3> QED
      BY <1>2, <3>1 DEF Ids
  <2>2. \A k \in DOMAIN entries : entries[k] <= fresh' /\ (at = "flushing" => entries[k] < fresh')
    BY <1>2, <2>1
  <2>3. at = "flushing" => fresh' \in Ids
    BY <1>2 DEF Ids
  <2> QED
    BY <1>2, <2>2, <2>3 DEF EntriesOK
<1>6. MailOK'
  <2>1. /\ \A n \in DOMAIN mail'[turn] : mail'[turn][n].op # "Shutdown"
        /\ \A n \in DOMAIN mail'[turn] : Sends(mail'[turn], n, "UpdateFlags") =>
             mail'[turn][n].mark = "truncated" /\ flags[mail'[turn][n].id] = "truncated"
    BY <1>1, <1>3 DEF IInv, MailOK, Sends
  <2>2. \A n \in DOMAIN mail[turn] : ~Awaits(mail[turn], n, at)
    BY DEF IInv, MailOK, Awaits, Sends
  <2>3. Awaits(mail'[turn], Len(mail'[turn]), at)
    BY <1>1, <1>3 DEF Awaits, Sends
  <2>4. \A n \in DOMAIN mail'[turn] : Awaits(mail'[turn], n, at) => n = Len(mail'[turn])
    BY <1>3, <2>2 DEF Awaits, Sends
  <2>5. at = "flushing" => \A n \in DOMAIN mail'[turn] :
          Sends(mail'[turn], n, "Barrier") => mail'[turn][n].stage = "flushing"
    BY <1>1, <1>3 DEF IInv, MailOK, Sends
  <2> QED
    BY <2>1, <2>3, <2>4, <2>5 DEF MailOK
<1>7. WrittenOK'
  <2> SUFFICES ASSUME ~broken[turn]
               PROVE  \/ /\ Aligned(disk \o pending[turn], mail'[turn], entries)
                         /\ MarksSent(flags, marked, mail'[turn])
                      \/ /\ commit' = "pending" /\ stage' \in {"failed", "closing"}
                         /\ pending[turn] = << >>
                         /\ \A n \in DOMAIN mail'[turn] : mail'[turn][n].op = "Barrier"
    BY DEF WrittenOK, storeVars
  <2>1. CASE Aligned(disk \o pending[turn], mail[turn], entries) /\ MarksSent(flags, marked, mail[turn])
    <3>1. MarksSent(flags, marked, mail'[turn])
      BY <1>3, <2>1 DEF MarksSent, Sends
    <3> QED
      BY <1>3, <2>1, <3>1
  <2>2. CASE /\ commit = "pending" /\ stage \in {"failed", "closing"}
             /\ pending[turn] = << >>
             /\ \A n \in DOMAIN mail[turn] : mail[turn][n].op = "Barrier"
    BY <1>1, <1>3, <2>2
  <2> QED
    BY <2>1, <2>2 DEF IInv, WrittenOK
<1> QED
  BY <1>3, <1>4, <1>5, <1>6, <1>7 DEF IInv

\* The barrier of a compaction.
LEMMA BeginCommitInv ==
  ASSUME IInv, BeginCommit
  PROVE  IInv'
<1>1. fresh \in 0 .. MaxEntries /\ fresh < MaxEntries /\ fresh' = fresh + 1 /\ MaxEntries \in Nat
  BY WriterAssumption DEF IInv, TypeOK, BeginCommit
<1>2. fresh' \in 0 .. MaxEntries /\ fresh < fresh' /\ fresh <= fresh'
  BY <1>1
<1>3. Working /\ Working'
  BY DEF BeginCommit, Goto, Working
<1> QED
  BY <1>2, <1>3, BarrierInv DEF BeginCommit, Goto

\* The last barrier of a turn.
LEMMA CloseInv ==
  ASSUME IInv, Close
  PROVE  IInv'
<1>1. fresh \in 0 .. MaxEntries /\ fresh' = fresh /\ fresh <= fresh' /\ failures' = failures
      /\ commit' \in {"clean", "pending", "committed"}
  BY DEF IInv, TypeOK, Close, countVars
<1>3. Working /\ Working'
  BY DEF Close, Goto, Working
<1> QED
  BY <1>1, <1>3, BarrierInv DEF Close, Goto

\* Once the barrier of a compaction has answered Ok, the store holds the turn.
LEMMA StoringFacts ==
  ASSUME IInv, stage = "storing"
  PROVE  /\ Working /\ disk = entries /\ marked = flags
         /\ mail[turn] = << >> /\ pending[turn] = << >> /\ ~broken[turn] /\ commit = "pending"
<1>1. Working
  BY DEF Working
<1>2. /\ mail[turn] = << >> /\ pending[turn] = << >> /\ ~broken[turn] /\ commit = "pending"
  BY <1>1 DEF IInv, MailOK, TurnsOK
<1>3. Aligned(disk \o << >>, << >>, entries) /\ MarksSent(flags, marked, << >>)
  BY <1>1, <1>2 DEF IInv, WrittenOK
<1>4. /\ disk \in Seq(Ids) /\ entries \in Seq(Ids) /\ flags \in [Ids -> Marks] /\ marked \in [Ids -> Marks]
  BY <1>1, WorkingFacts
<1>5. disk \o << >> = disk /\ << >> \in Seq(Ops) /\ \A n \in DOMAIN << >> : FALSE
  BY <1>4
<1>6. disk = entries
  BY <1>3, <1>4, <1>5, AlignedDone
<1>7. flags = marked
  BY <1>3, <1>4, <1>5, MarksDone
<1> QED
  BY <1>1, <1>2, <1>6, <1>7

\* The store takes a compaction.
LEMMA StoreAppliesEffect ==
  ASSUME IInv, stage = "storing", StoreApplies
  PROVE  /\ disk' = Append(entries, fresh) /\ disk' \in Seq(Ids)
         /\ marked' = Compacted(flags) /\ marked' \in [Ids -> Marks]
         /\ Increasing(disk') /\ \A k \in DOMAIN disk' : disk'[k] <= fresh
         /\ \A i \in Ids : i \notin Members(disk') => marked'[i] = "plain"
<1>1. Working /\ disk = entries /\ marked = flags
  BY StoringFacts
<1>2. /\ entries \in Seq(Ids) /\ flags \in [Ids -> Marks] /\ marked \in [Ids -> Marks]
      /\ Increasing(entries) /\ fresh \in 0 .. MaxEntries
  BY <1>1, WorkingFacts DEF TypeOK
<1>3. \A k \in DOMAIN entries : entries[k] < fresh /\ entries[k] \in Nat
  <2>1. \A k \in DOMAIN entries : entries[k] < fresh
    BY <1>1 DEF IInv, EntriesOK
  <2>2. \A k \in DOMAIN entries : entries[k] \in Ids
    BY <1>2
  <2> QED
    BY <2>1, <2>2 DEF Ids
<1>4. fresh \in Ids /\ <<fresh>> \in Seq(Ids) /\ fresh \in Nat
  <2>1. fresh \in Ids
    BY <1>1 DEF IInv, EntriesOK
  <2> QED
    BY <2>1 DEF Ids
<1>5. disk' = Append(entries, fresh) /\ marked' = Compacted(flags)
  BY <1>1 DEF StoreApplies
<1>6. disk' \in Seq(Ids) /\ marked' \in [Ids -> Marks]
  BY <1>2, <1>4, <1>5 DEF Compacted, Marks
<1>7. \A k \in DOMAIN disk' : (k \in DOMAIN entries /\ disk'[k] = entries[k]) \/ disk'[k] = fresh
  BY <1>2, <1>4, <1>5
<1>8. \A k \in DOMAIN entries : k \in DOMAIN disk' /\ disk'[k] = entries[k]
  BY <1>2, <1>4, <1>5
<1>9. Increasing(disk')
  <2>1. Increasing(<<fresh>>)
    BY DEF Increasing
  <2>2. \A k \in DOMAIN entries, l \in DOMAIN <<fresh>> : entries[k] < <<fresh>>[l]
    BY <1>3
  <2>3. disk' = entries \o <<fresh>>
    BY <1>2, <1>4, <1>5
  <2> QED
    BY <1>2, <1>4, <2>1, <2>2, <2>3, IncreasingConcat
<1>10. \A k \in DOMAIN disk' : disk'[k] <= fresh
  BY <1>3, <1>4, <1>7
<1>11. \A i \in Ids : i \notin Members(disk') => marked'[i] = "plain"
  <2>1. Members(entries) \subseteq Members(disk')
    BY <1>8 DEF Members
  <2> QED
    BY <1>1, <1>5, <2>1 DEF IInv, StoreOK, Compacted
<1> QED
  BY <1>5, <1>6, <1>9, <1>10, <1>11

\* The shape of a turn whose writer and channel do not change.
LEMMA StillTurns ==
  ASSUME IInv, Working, Working', UNCHANGED <<hostVars, turn, writerVars>>,
         stage' = "running" => commit' # "pending",
         stage' \in {"flushing", "storing", "failed"} => commit' = "pending"
  PROVE  TurnsOK'
<1>0. turn \in Turns /\ session = "turn"
  BY WorkingFacts
<1>1. UNCHANGED <<session, turn, writer, mail, pending, broken>>
  BY DEF hostVars, writerVars
<1>2. \A t \in Turns :
        /\ t > turn => /\ writer'[t] = "none" /\ mail'[t] = << >>
                       /\ pending'[t] = << >> /\ ~broken'[t]
        /\ t = turn \/ Quiet(t)'
  BY <1>0, <1>1, OthersQuiet
<1>3. stage' # "none" /\ stage' # "kept"
  BY DEF Working
<1> QED
  BY <1>0, <1>1, <1>2, <1>3 DEF TurnsOK

\* The answer to the first barrier of a compaction.
LEMMA CommitFlushedInv ==
  ASSUME IInv, CommitFlushed
  PROVE  IInv'
<1>1. /\ stage = "flushing" /\ answer # "none" /\ answer' = "none"
      /\ stage' = IF answer = "Ok" THEN "storing" ELSE "failed"
      /\ UNCHANGED <<storeVars, hostVars, turn, entries, flags, commit, writerVars, countVars>>
      /\ UNCHANGED <<disk, marked, session, shown, mail, writer, pending, broken, fresh, failures>>
  BY DEF CommitFlushed, Goto, storeVars, hostVars, writerVars, countVars
<1>2. Working /\ Working'
  BY <1>1 DEF Working
<1>3. /\ mail[turn] = << >>
      /\ IF answer = "Ok" THEN ~broken[turn] /\ pending[turn] = << >> ELSE broken[turn]
  BY <1>1, <1>2 DEF IInv, MailOK
<1>4. TypeOK'
  BY <1>1 DEF IInv, TypeOK, Stages
<1>5. commit = "pending"
  BY <1>1 DEF IInv, TurnsOK
<1>6. TurnsOK'
  BY <1>1, <1>2, <1>5, StillTurns
<1>7. StoreOK'
  BY <1>1 DEF IInv, StoreOK
<1>8. EntriesOK'
  BY <1>1, <1>2 DEF IInv, EntriesOK
<1>9. MailOK'
  BY <1>1, <1>3 DEF MailOK, Sends
<1>10. WrittenOK'
  BY <1>1, <1>2 DEF IInv, WrittenOK
<1> QED
  BY <1>4, <1>6, <1>7, <1>8, <1>9, <1>10 DEF IInv

\* A compaction is stored, and the turn takes it over.
LEMMA CommitInv ==
  ASSUME IInv, Commit
  PROVE  IInv'
<1>1. /\ stage = "storing" /\ StoreApplies /\ entries' = Append(entries, fresh)
      /\ flags' = Compacted(flags) /\ commit' = "committed" /\ stage' = "running"
      /\ UNCHANGED <<hostVars, turn, answer, writerVars, countVars>>
      /\ UNCHANGED <<session, shown, mail, writer, pending, broken, fresh, failures>>
  BY DEF Commit, Goto, hostVars, writerVars, countVars
<1>2. /\ Working /\ Working'
      /\ mail[turn] = << >> /\ pending[turn] = << >> /\ ~broken[turn]
  BY <1>1, StoringFacts DEF Working
<1>3. /\ disk' = entries' /\ disk' \in Seq(Ids)
      /\ marked' = flags' /\ marked' \in [Ids -> Marks]
      /\ Increasing(disk') /\ \A k \in DOMAIN disk' : disk'[k] <= fresh
      /\ \A i \in Ids : i \notin Members(disk') => marked'[i] = "plain"
  BY <1>1, StoreAppliesEffect
<1>4. TypeOK'
  BY <1>1, <1>3 DEF IInv, TypeOK, Stages
<1>5. TurnsOK'
  BY <1>1, <1>2, StillTurns
<1>6. StoreOK'
  <2>1. session' = "turn"
    BY <1>1, <1>2, WorkingFacts
  <2> QED
    BY <1>1, <1>3, <2>1 DEF StoreOK
<1>7. EntriesOK'
  BY <1>1, <1>2, <1>3 DEF IInv, EntriesOK
<1>8. MailOK'
  BY <1>1, <1>2 DEF MailOK, Sends
<1>9. WrittenOK'
  <2>1. Aligned(entries', << >>, entries')
    BY <1>3, AlignedStart
  <2>2. disk' \o << >> = disk'
    BY <1>3
  <2>3. MarksSent(flags', marked', << >>)
    BY <1>3 DEF MarksSent
  <2> QED
    BY <1>1, <1>2, <1>3, <2>1, <2>2, <2>3 DEF WrittenOK
<1> QED
  BY <1>4, <1>5, <1>6, <1>7, <1>8, <1>9 DEF IInv

\* A compaction that fails, or whose turn is cancelled.
LEMMA CommitLostInv ==
  ASSUME IInv, stage \in {"flushing", "storing"}, stage' = "failed",
         (stage = "storing" /\ StoreApplies) \/ UNCHANGED storeVars,
         answer' \in {answer, "none"}, failures' \in 0 .. MaxFailures,
         UNCHANGED <<hostVars, turn, entries, flags, commit, writerVars, fresh>>
  PROVE  IInv'
<1>1. UNCHANGED <<session, shown, turn, entries, flags, commit, mail, writer, pending, broken, fresh>>
  BY DEF hostVars, writerVars
<1>2. Working /\ Working' /\ commit = "pending"
  BY DEF Working, IInv, TurnsOK
<1>3. /\ disk' \in Seq(Ids) /\ marked' \in [Ids -> Marks]
      /\ Increasing(disk') /\ \A k \in DOMAIN disk' : disk'[k] <= fresh
      /\ \A i \in Ids : i \notin Members(disk') => marked'[i] = "plain"
  <2>1. CASE stage = "storing" /\ StoreApplies
    BY <2>1, StoreAppliesEffect
  <2>2. CASE UNCHANGED storeVars
    BY <2>2 DEF storeVars, IInv, TypeOK, StoreOK
  <2> QED
    BY <2>1, <2>2
<1>4. TypeOK'
  <2>1. answer' \in {"none", "Ok", "Err"} /\ stage' \in Stages
    BY DEF IInv, TypeOK, Stages
  <2> QED
    BY <1>1, <1>3, <2>1 DEF IInv, TypeOK
<1>5. TurnsOK'
  BY <1>1, <1>2, StillTurns
<1>6. StoreOK'
  <2>1. session' = "turn"
    BY <1>1, <1>2, WorkingFacts
  <2> QED
    BY <1>1, <1>3, <2>1 DEF StoreOK
<1>7. EntriesOK'
  BY <1>1, <1>2 DEF IInv, EntriesOK
<1>8. MailOK'
  <2>1. stage = "storing" => mail[turn] = << >>
    BY StoringFacts
  <2> QED
    BY <1>1, <1>2, <2>1 DEF IInv, MailOK, Sends
<1>9. WrittenOK'
  <2>1. CASE stage = "storing"
    <3>1. mail[turn] = << >> /\ pending[turn] = << >>
      BY <2>1, StoringFacts
    <3> QED
      BY <1>1, <1>2, <3>1 DEF WrittenOK
  <2>2. CASE stage # "storing"
    <3>1. disk' = disk /\ marked' = marked
      BY <2>2 DEF storeVars
    <3> QED
      BY <1>1, <1>2, <3>1 DEF IInv, WrittenOK
  <2> QED
    BY <2>1, <2>2
<1> QED
  BY <1>4, <1>5, <1>6, <1>7, <1>8, <1>9 DEF IInv

\* A compaction whose transaction fails.
LEMMA CommitFailsInv ==
  ASSUME IInv, CommitFails
  PROVE  IInv'
<1>1. failures' \in 0 .. MaxFailures
  <2>1. failures \in 0 .. MaxFailures /\ MaxFailures \in Nat
    BY WriterAssumption DEF IInv, TypeOK
  <2> QED
    BY <2>1 DEF CommitFails
<1>2. stage = "storing" /\ (StoreApplies \/ UNCHANGED storeVars)
  BY DEF CommitFails
<1> QED
  BY <1>1, <1>2, CommitLostInv DEF CommitFails, Goto

\* A compaction whose turn is cancelled.
LEMMA CancelCommitInv ==
  ASSUME IInv, CancelCommit
  PROVE  IInv'
<1>1. failures' \in 0 .. MaxFailures /\ fresh' = fresh
  BY DEF IInv, TypeOK, CancelCommit, countVars
<1> QED
  BY <1>1, CommitLostInv DEF CancelCommit, Goto

\* When the last barrier has answered, the channel is empty; if the answer is Ok and
\* no compaction has failed, the store holds the turn.
LEMMA AnsweredFacts ==
  ASSUME IInv, stage \in {"flushing", "closing"}, answer # "none"
  PROVE  /\ Working /\ mail[turn] = << >>
         /\ IF answer = "Ok" THEN ~broken[turn] /\ pending[turn] = << >> ELSE broken[turn]
         /\ answer = "Ok" /\ (stage = "flushing" \/ commit # "pending") =>
              disk = entries /\ marked = flags
<1>1. Working
  BY DEF Working
<1>2. /\ mail[turn] = << >>
      /\ IF answer = "Ok" THEN ~broken[turn] /\ pending[turn] = << >> ELSE broken[turn]
  BY <1>1 DEF IInv, MailOK
<1>3. ASSUME answer = "Ok", stage = "flushing" \/ commit # "pending"
      PROVE  disk = entries /\ marked = flags
  <2>1. Aligned(disk \o << >>, << >>, entries) /\ MarksSent(flags, marked, << >>)
    BY <1>1, <1>2, <1>3 DEF IInv, WrittenOK
  <2>2. /\ disk \in Seq(Ids) /\ entries \in Seq(Ids) /\ flags \in [Ids -> Marks] /\ marked \in [Ids -> Marks]
    BY <1>1, WorkingFacts
  <2>3. disk \o << >> = disk /\ << >> \in Seq(Ops) /\ \A n \in DOMAIN << >> : FALSE
    BY <2>2
  <2> QED
    BY <2>1, <2>2, <2>3, AlignedDone, MarksDone
<1> QED
  BY <1>1, <1>2, <1>3

\* The verdict on the turn: what is kept is in the store.
LEMMA JudgeInv ==
  ASSUME IInv, Judge
  PROVE  IInv'
<1>1. /\ stage = "closing" /\ answer # "none"
      /\ UNCHANGED <<disk, marked, session, shown, turn, entries, flags, commit, answer,
                     writer, pending, broken, fresh, failures>>
      /\ UNCHANGED <<storeVars, hostVars, countVars>>
  BY DEF Judge, storeVars, hostVars, countVars
<1>2. PICK ops \in {<<Shutdown, Shutdown>>, <<Shutdown>>} : Send(ops)
  BY DEF Judge
<1>3. stage' \in {"kept", "lost"} /\ (stage' = "kept" => answer = "Ok" /\ commit # "pending")
  BY <1>1 DEF Judge, Goto, IInv, TypeOK
<1>4. /\ Working /\ mail[turn] = << >> /\ (pending[turn] = << >> \/ broken[turn])
      /\ stage' = "kept" => disk = entries /\ marked = flags
  BY <1>1, <1>3, AnsweredFacts
<1>5. /\ TypeOK /\ turn \in Turns /\ writer[turn] = "alive" /\ session = "turn"
  BY <1>4, WorkingFacts
<1>6. ops \in Seq(Ops) /\ \A n \in DOMAIN ops : ops[n].op = "Shutdown"
  <2>1. CASE ops = <<Shutdown>>
    BY <2>1, SentOps
  <2>2. CASE ops = <<Shutdown, Shutdown>>
    <3>1. ops \in Seq(Ops) /\ DOMAIN ops = {1, 2} /\ ops[1] = Shutdown /\ ops[2] = Shutdown
      BY <2>2, SentOps
    <3> QED
      BY <3>1, SentOps
  <2> QED
    BY <2>1, <2>2, <1>2
<1>7. TypeOK'
  <2>1. stage' \in Stages
    BY <1>3 DEF Stages
  <2>2. entries' \in Seq(Ids) /\ flags' \in [Ids -> Marks] /\ commit' \in {"clean", "pending", "committed"}
        /\ answer' \in {"none", "Ok", "Err"} /\ fresh' \in 0 .. MaxEntries
    BY <1>1, <1>5 DEF TypeOK
  <2> QED
    BY <1>1, <1>2, <1>5, <1>6, <2>1, <2>2, SendTypes
<1>8. mail'[turn] = ops /\ \A t \in Turns : t # turn => mail'[t] = mail[t]
  <2>1. << >> \o ops = ops
    BY <1>6
  <2> QED
    BY <1>2, <1>4, <1>5, <1>6, <2>1, SendEffect
<1>9. Quiet(turn)'
  BY <1>1, <1>4, <1>6, <1>8 DEF Quiet
<1>10. ~Working'
  BY <1>3 DEF Working
<1>11. TurnsOK'
  <2>1. \A t \in Turns :
          /\ t > turn => /\ writer'[t] = "none" /\ mail'[t] = << >>
                         /\ pending'[t] = << >> /\ ~broken'[t]
          /\ t = turn \/ Quiet(t)'
    BY <1>1, <1>5, <1>8, OthersQuiet
  <2>2. turn' = turn /\ session' = "turn" /\ stage' # "none" /\ turn \in Turns
    BY <1>1, <1>3, <1>5
  <2>3. stage' = "kept" => disk' = entries' /\ marked' = flags' /\ commit' # "pending"
    BY <1>1, <1>3, <1>4
  <2> QED
    BY <1>3, <1>9, <2>1, <2>2, <2>3 DEF TurnsOK
<1>12. StoreOK'
  BY <1>1 DEF IInv, StoreOK
<1>13. EntriesOK' /\ MailOK' /\ WrittenOK'
  BY <1>10 DEF EntriesOK, MailOK, WrittenOK
<1> QED
  BY <1>7, <1>11, <1>12, <1>13 DEF IInv

\* No turn works after these.
LEMMA FinishInv ==
  ASSUME IInv, Finish
  PROVE  IInv'
<1>1. /\ stage \in {"kept", "lost"} /\ stage' = "none"
      /\ IF stage = "kept" THEN session' = "rest" /\ shown' = entries
                           ELSE session' = "closed" /\ shown' = << >>
      /\ entries' = << >> /\ flags' = Plain /\ commit' = "clean" /\ answer' = "none"
      /\ UNCHANGED <<turn, disk, marked, mail, writer, pending, broken, fresh, failures>>
  BY DEF Finish, ForgetTurn, Goto, storeVars, writerVars, countVars
<1>2. << >> \in Seq(Ids) /\ Plain \in [Ids -> Marks]
  BY DEF Plain, Marks
<1>3. session' \in {"closed", "rest", "turn"} /\ shown' \in Seq(Ids) /\ stage' \in Stages
  BY <1>1, <1>2 DEF IInv, TypeOK, Stages
<1>4. TypeOK'
  BY <1>1, <1>2, <1>3 DEF IInv, TypeOK
<1>5. ~Working /\ ~Working'
  BY <1>1 DEF Working
<1>6. \A t \in Turns : Quiet(t) /\ Quiet(t)'
  BY <1>1, <1>5 DEF IInv, TurnsOK, Quiet
<1>7. TurnsOK'
  BY <1>1, <1>6 DEF IInv, TurnsOK
<1>8. StoreOK'
  BY <1>1 DEF IInv, StoreOK, TurnsOK
<1>9. EntriesOK' /\ MailOK' /\ WrittenOK'
  BY <1>5 DEF EntriesOK, MailOK, WrittenOK
<1> QED
  BY <1>4, <1>7, <1>8, <1>9 DEF IInv

\* The end of the process leaves the store.
LEMMA CrashInv ==
  ASSUME IInv, Crash
  PROVE  IInv'
<1>1. /\ session' = "closed" /\ shown' = << >> /\ stage' = "none"
      /\ entries' = << >> /\ flags' = Plain /\ commit' = "clean" /\ answer' = "none"
      /\ writer' = [t \in Turns |-> IF writer[t] = "alive" THEN "exited" ELSE writer[t]]
      /\ mail' = [t \in Turns |-> << >>]
      /\ pending' = [t \in Turns |-> << >>]
      /\ UNCHANGED <<turn, disk, marked, broken, fresh, failures>>
  BY DEF Crash, ForgetTurn, Goto, storeVars, countVars
<1>2. << >> \in Seq(Ids) /\ << >> \in Seq(Ops) /\ Plain \in [Ids -> Marks]
  BY DEF Plain, Marks
<1>3. /\ writer' \in [Turns -> {"none", "alive", "exited"}] /\ mail' \in [Turns -> Seq(Ops)]
      /\ pending' \in [Turns -> Seq(Ids)] /\ session' \in {"closed", "rest", "turn"} /\ stage' \in Stages
      /\ \A t \in Turns : mail'[t] = << >> /\ pending'[t] = << >>
      /\ \A t \in Turns : writer[t] = "none" => writer'[t] = "none"
  BY <1>1, <1>2 DEF IInv, TypeOK, Stages
<1>4. \A t \in Turns : Len(pending'[t]) <= (IF broken'[t] THEN FailedMax ELSE BatchMax - 1)
  <2>1. BatchMax \in Nat \ {0} /\ FailedMax \in Nat
    BY WriterAssumption
  <2>2. Len(<< >>) <= BatchMax - 1 /\ Len(<< >>) <= FailedMax
    BY <2>1
  <2> QED
    BY <1>3, <2>2
<1>5. TypeOK'
  BY <1>1, <1>2, <1>3, <1>4 DEF IInv, TypeOK
<1>6. ~Working'
  BY <1>1 DEF Working
<1>7. \A t \in Turns : Quiet(t)'
  BY <1>3 DEF Quiet
<1>8. TurnsOK'
  BY <1>1, <1>3, <1>7 DEF IInv, TurnsOK
<1>9. StoreOK'
  BY <1>1 DEF IInv, StoreOK
<1>10. EntriesOK' /\ MailOK' /\ WrittenOK'
  BY <1>6 DEF EntriesOK, MailOK, WrittenOK
<1> QED
  BY <1>5, <1>8, <1>9, <1>10 DEF IInv

\* A session is loaded from the store.
LEMMA LoadInv ==
  ASSUME IInv, Load
  PROVE  IInv'
<1>1. /\ session = "closed" /\ session' = "rest" /\ shown' = disk
      /\ UNCHANGED <<disk, marked, stage, turn, entries, flags, commit, answer,
                     mail, writer, pending, broken, fresh, failures>>
  BY DEF Load, storeVars, turnVars, writerVars, countVars
<1>2. TypeOK'
  BY <1>1 DEF IInv, TypeOK
<1>3. stage = "none"
  BY <1>1 DEF IInv, TurnsOK
<1>4. ~Working /\ ~Working'
  BY <1>1, <1>3 DEF Working
<1>5. \A t \in Turns : Quiet(t) /\ Quiet(t)'
  BY <1>1, <1>4 DEF IInv, TurnsOK, Quiet
<1>6. TurnsOK'
  BY <1>1, <1>3, <1>5 DEF IInv, TurnsOK
<1>7. StoreOK'
  BY <1>1 DEF IInv, StoreOK
<1>8. EntriesOK' /\ MailOK' /\ WrittenOK'
  BY <1>4 DEF EntriesOK, MailOK, WrittenOK
<1> QED
  BY <1>2, <1>6, <1>7, <1>8 DEF IInv

\* A turn begins with what the store holds.
LEMMA BeginTurnFacts ==
  ASSUME IInv, BeginTurn
  PROVE  /\ stage = "none" /\ entries' = disk /\ shown = disk /\ flags' = marked
         /\ turn' = turn + 1 /\ turn' \in Turns /\ turn \in Nat
         /\ mail[turn'] = << >> /\ pending[turn'] = << >> /\ ~broken[turn']
         /\ \A t \in Turns : Quiet(t) /\ (t > turn' => t > turn)
<1>1. session = "rest" /\ entries' = shown /\ turn' = turn + 1 /\ turn < MaxTurns
      /\ flags' = [i \in Ids |-> IF i \in Members(shown) THEN marked[i] ELSE "plain"]
  BY DEF BeginTurn
<1>2. stage = "none" /\ shown = disk
  BY <1>1 DEF IInv, TurnsOK, StoreOK
<1>3. turn \in Nat /\ turn \in 0 .. MaxTurns /\ MaxTurns \in Nat
  BY WriterAssumption DEF IInv, TypeOK
<1>4. turn' \in Turns /\ turn' > turn
  BY <1>1, <1>3 DEF Turns
<1>5. mail[turn'] = << >> /\ pending[turn'] = << >> /\ ~broken[turn']
  BY <1>4 DEF IInv, TurnsOK
<1>6. \A t \in Turns : Quiet(t)
  BY <1>2 DEF IInv, TurnsOK, Working
<1>7. \A t \in Turns : t > turn' => t > turn
  BY <1>1, <1>3 DEF Turns
<1>8. flags' = marked
  <2>1. marked \in [Ids -> Marks]
    BY DEF IInv, TypeOK
  <2>2. \A i \in Ids : i \notin Members(shown) => marked[i] = "plain"
    BY <1>2 DEF IInv, StoreOK
  <2> QED
    BY <1>1, <2>1, <2>2
<1> QED
  BY <1>1, <1>2, <1>3, <1>4, <1>5, <1>6, <1>7, <1>8

\* A turn begins, and its writer with it.
LEMMA BeginTurnInv ==
  ASSUME IInv, BeginTurn
  PROVE  IInv'
<1>1. /\ stage = "none" /\ entries' = disk /\ shown = disk /\ flags' = marked
      /\ turn' = turn + 1 /\ turn' \in Turns /\ turn \in Nat
      /\ mail[turn'] = << >> /\ pending[turn'] = << >> /\ ~broken[turn']
      /\ \A t \in Turns : Quiet(t) /\ (t > turn' => t > turn)
  BY BeginTurnFacts
<1>2. /\ session' = "turn" /\ stage' = "running" /\ commit' = "clean" /\ answer' = "none"
      /\ writer' = [writer EXCEPT ![turn'] = "alive"]
      /\ UNCHANGED <<disk, marked, shown, mail, pending, broken, fresh, failures>>
  BY DEF BeginTurn, Goto, storeVars, countVars
<1>3. /\ disk \in Seq(Ids) /\ marked \in [Ids -> Marks] /\ writer \in [Turns -> {"none", "alive", "exited"}]
      /\ TypeOK
  BY DEF IInv, TypeOK
<1>4. writer' \in [Turns -> {"none", "alive", "exited"}] /\ writer'[turn'] = "alive"
      /\ \A t \in Turns : t # turn' => writer'[t] = writer[t]
  BY <1>1, <1>2, <1>3
<1>5. TypeOK'
  <2>1. /\ entries' \in Seq(Ids) /\ flags' \in [Ids -> Marks] /\ turn' \in 0 .. MaxTurns
        /\ session' \in {"closed", "rest", "turn"} /\ stage' \in Stages
        /\ commit' \in {"clean", "pending", "committed"} /\ answer' \in {"none", "Ok", "Err"}
    BY <1>1, <1>2, <1>3 DEF Stages, Turns
  <2>2. \A t \in Turns : writer'[t] = "none" => mail[t] = << >>
    BY <1>3, <1>4 DEF TypeOK
  <2> QED
    BY <1>2, <1>3, <1>4, <2>1, <2>2 DEF TypeOK
<1>6. Working'
  BY <1>2 DEF Working
<1>7. \A t \in Turns : Quiet(t)'
  BY <1>1, <1>2 DEF Quiet
<1>8. TurnsOK'
  <2>1. ASSUME NEW t \in Turns, t > turn'
        PROVE  writer'[t] = "none" /\ mail'[t] = << >> /\ pending'[t] = << >> /\ ~broken'[t]
    <3>1. t > turn /\ t # turn'
      BY <1>1, <2>1 DEF Turns
    <3> QED
      BY <1>2, <1>4, <3>1 DEF IInv, TurnsOK
  <2> QED
    BY <1>1, <1>2, <1>7, <2>1 DEF TurnsOK
<1>9. StoreOK'
  BY <1>2 DEF IInv, StoreOK
<1>10. EntriesOK'
  BY <1>1, <1>2, <1>4 DEF IInv, StoreOK, EntriesOK
<1>11. MailOK'
  BY <1>1, <1>2 DEF MailOK, Sends
<1>12. WrittenOK'
  <2>1. disk \o << >> = disk /\ Aligned(disk, << >>, disk)
    BY <1>3, AlignedStart
  <2>2. MarksSent(marked, marked, << >>)
    BY DEF MarksSent
  <2> QED
    BY <1>1, <1>2, <2>1, <2>2 DEF WrittenOK
<1> QED
  BY <1>5, <1>8, <1>9, <1>10, <1>11, <1>12 DEF IInv

\* The invariant holds at first.
LEMMA InitInv ==
  ASSUME Init
  PROVE  IInv
<1>1. /\ disk = << >> /\ marked = Plain
      /\ session = "closed" /\ shown = << >>
      /\ stage = "none" /\ turn = 0 /\ entries = << >> /\ flags = Plain
      /\ commit = "clean" /\ answer = "none"
      /\ mail = [t \in Turns |-> << >>] /\ writer = [t \in Turns |-> "none"]
      /\ pending = [t \in Turns |-> << >>] /\ broken = [t \in Turns |-> FALSE]
      /\ fresh = 0 /\ failures = 0
  BY DEF Init
<1>2. << >> \in Seq(Ids) /\ << >> \in Seq(Ops) /\ Plain \in [Ids -> Marks] /\ \A i \in Ids : Plain[i] = "plain"
  BY DEF Plain, Marks
<1>3. /\ BatchMax \in Nat \ {0} /\ FailedMax \in Nat /\ MaxEntries \in Nat /\ MaxTurns \in Nat
      /\ MaxFailures \in Nat /\ Len(<< >>) = 0 /\ 0 <= BatchMax - 1
  BY WriterAssumption
<1>4. TypeOK
  <2>1. /\ mail \in [Turns -> Seq(Ops)] /\ writer \in [Turns -> {"none", "alive", "exited"}]
        /\ pending \in [Turns -> Seq(Ids)] /\ broken \in [Turns -> BOOLEAN]
        /\ \A t \in Turns : pending[t] = << >> /\ mail[t] = << >> /\ ~broken[t] /\ writer[t] = "none"
    BY <1>1, <1>2
  <2>2. turn \in 0 .. MaxTurns /\ fresh \in 0 .. MaxEntries /\ failures \in 0 .. MaxFailures
    BY <1>1, <1>3
  <2>3. \A t \in Turns : Len(pending[t]) <= (IF broken[t] THEN FailedMax ELSE BatchMax - 1)
    BY <1>3, <2>1
  <2> QED
    BY <1>1, <1>2, <2>1, <2>2, <2>3 DEF TypeOK, Stages
<1>5. ~Working
  BY <1>1 DEF Working
<1>6. StoreOK
  BY <1>1, <1>2 DEF StoreOK, Increasing
<1>7. \A t \in Turns : Quiet(t) /\ writer[t] = "none" /\ mail[t] = << >> /\ pending[t] = << >> /\ ~broken[t]
  BY <1>1 DEF Quiet
<1>8. TurnsOK
  BY <1>1, <1>7 DEF TurnsOK
<1>9. EntriesOK /\ MailOK /\ WrittenOK
  BY <1>5 DEF EntriesOK, MailOK, WrittenOK
<1> QED
  BY <1>4, <1>6, <1>8, <1>9 DEF IInv

\* Nothing happens.
LEMMA StutterInv ==
  ASSUME IInv, UNCHANGED vars
  PROVE  IInv'
<1>1. UNCHANGED <<disk, marked, session, shown, stage, turn, entries, flags, commit, answer,
                  mail, writer, pending, broken, fresh, failures>>
  BY DEF vars, storeVars, hostVars, turnVars, writerVars, countVars
<1>2. TypeOK' /\ StoreOK'
  BY <1>1 DEF IInv, TypeOK, StoreOK
<1>3. Working' <=> Working
  BY <1>1 DEF Working
<1>4. TurnsOK'
  BY <1>1, <1>3 DEF IInv, TurnsOK, Quiet
<1>5. EntriesOK' /\ MailOK' /\ WrittenOK'
  BY <1>1, <1>3 DEF IInv, EntriesOK, MailOK, WrittenOK
<1> QED
  BY <1>2, <1>4, <1>5 DEF IInv

\* One step of the whole preserves the invariant.
LEMMA NextInv ==
  ASSUME IInv, [Next]_vars
  PROVE  IInv'
<1>1. ASSUME NEW t \in Turns, Writer(t)
      PROVE  IInv'
  <2>1. CASE t = turn /\ Working
    BY <1>1, <2>1, WorkingStepInv
  <2>2. CASE ~(t = turn /\ Working)
    BY <1>1, <2>2, QuietStepInv
  <2> QED
    BY <2>1, <2>2
<1>2. CASE Load
  BY <1>2, LoadInv
<1>3. CASE BeginTurn
  BY <1>3, BeginTurnInv
<1>4. ASSUME NEW n \in 1 .. 2, Extend(n)
      PROVE  IInv'
  BY <1>4, ExtendInv
<1>5. ASSUME NEW i \in Ids, Truncate(i)
      PROVE  IInv'
  BY <1>5, TruncateInv
<1>6. CASE BeginCommit
  BY <1>6, BeginCommitInv
<1>7. CASE CommitEnds
  BY <1>7, CommitFlushedInv, CommitInv, CommitFailsInv, CancelCommitInv DEF CommitEnds
<1>8. CASE Close
  BY <1>8, CloseInv
<1>9. CASE Judge
  BY <1>9, JudgeInv
<1>10. CASE Finish
  BY <1>10, FinishInv
<1>11. CASE Crash
  BY <1>11, CrashInv
<1>12. CASE UNCHANGED vars
  BY <1>12, StutterInv
<1> QED
  BY <1>1, <1>2, <1>3, <1>4, <1>5, <1>6, <1>7, <1>8, <1>9, <1>10, <1>11, <1>12 DEF Next

-----------------------------------------------------------------------------
(* The theorems                                                            *)

\* The inductive invariant: what is stored and gathered is the turn up to what its
\* channel still holds, entries and marks, until the writer fails; then nothing more is
\* stored, and the next barrier says so.  (transcript/persistence.rs, the writer task)
THEOREM Invariant == Spec => []IInv
<1>1. Init => IInv
  BY InitInv
<1>2. IInv /\ [Next]_vars => IInv'
  BY NextInv
<1> QED
  BY <1>1, <1>2, PTL DEF Spec

\* The types hold; a writer that failed keeps a bounded batch, and nothing is sent to
\* a writer that was not begun.  (persistence.rs, FAILED_PENDING_MAX)
THEOREM TranscriptTypeOK == Spec => []TypeOK
<1>1. IInv => TypeOK
  BY DEF IInv
<1> QED
  BY <1>1, Invariant, PTL

\* Between turns the host shows what the store holds, whatever failed before.
\* (host prompt dispatch, finish_prompt_turn)
THEOREM ShownIsInTheStore == Spec => []ShownIsDurable
<1>1. IInv => ShownIsDurable
  BY DEF IInv, StoreOK, ShownIsDurable
<1> QED
  BY <1>1, Invariant, PTL

\* A barrier that answers Ok speaks for everything sent before it, entries and marks.
\* (persistence.rs, Barrier)
THEOREM BarrierConfirms == Spec => []ConfirmedIsDurable
<1>1. IInv => ConfirmedIsDurable
  BY AnsweredFacts DEF ConfirmedIsDurable
<1> QED
  BY <1>1, Invariant, PTL

-----------------------------------------------------------------------------
(* The promise of DurableHistory                                           *)

Intent == IF session = "turn" THEN flags ELSE marked

\* The phase of a session and of its turn.
LEMMA PhaseCases ==
  /\ session # "turn" /\ stage = "none" => Phase = session
  /\ session = "turn" /\ stage \in {"kept", "lost"} => Phase = stage
  /\ session = "turn" /\ stage \in {"failed", "closing"} /\ commit = "pending" => Phase = "doomed"
  /\ session = "turn" /\ stage \in {"running", "flushing", "storing"} => Phase = "turn"
  /\ session = "turn" /\ stage \in {"failed", "closing"} /\ commit # "pending" => Phase = "turn"
BY DEF Phase

\* And after a step.
LEMMA PhaseCasesNext ==
  /\ session' # "turn" /\ stage' = "none" => Phase' = session'
  /\ session' = "turn" /\ stage' \in {"kept", "lost"} => Phase' = stage'
  /\ session' = "turn" /\ stage' \in {"failed", "closing"} /\ commit' = "pending" => Phase' = "doomed"
  /\ session' = "turn" /\ stage' \in {"running", "flushing", "storing"} => Phase' = "turn"
  /\ session' = "turn" /\ stage' \in {"failed", "closing"} /\ commit' # "pending" => Phase' = "turn"
BY DEF Phase

\* DurableHistory says of sequences what Prefix says.
LEMMA ExtendsPrefix ==
  ASSUME NEW s \in Seq(Ids), NEW p \in Seq(Ids), Prefix(p, s)
  PROVE  History!Extends(s, p)
<1>1. Len(p) <= Len(s) /\ \A k \in 1 .. Len(p) : p[k] = s[k]
  BY DEF Prefix
<1>2. SubSeq(s, 1, Len(p)) \in Seq(Ids) /\ Len(SubSeq(s, 1, Len(p))) = Len(p)
      /\ \A k \in 1 .. Len(p) : SubSeq(s, 1, Len(p))[k] = s[k]
  BY <1>1
<1>3. SubSeq(s, 1, Len(p)) = p
  BY <1>1, <1>2, SeqEqual
<1> QED
  BY <1>1, <1>3 DEF History!Extends

\* A sequence is a prefix of what extends it.
LEMMA PrefixOfConcat ==
  ASSUME NEW s \in Seq(Ids), NEW r \in Seq(Ids)
  PROVE  Prefix(s, s \o r) /\ Prefix(s, s)
<1>1. Len(s \o r) = Len(s) + Len(r) /\ Len(r) \in Nat /\ Len(s) \in Nat
  OBVIOUS
<1>2. \A k \in DOMAIN s : (s \o r)[k] = s[k]
  BY ConcatFacts
<1> QED
  BY <1>1, <1>2 DEF Prefix

\* The variables of DurableHistory.
AbstractVars == <<Phase, disk, marked, shown, entries, Intent>>

\* The session begins as DurableHistory does.
LEMMA InitImplements ==
  ASSUME Init
  PROVE  History!Init
<1>1. Phase = "closed"
  BY PhaseCases DEF Init
<1>2. Plain \in [1 .. MaxEntries -> Marks]
  BY DEF Plain, Marks, Ids
<1> QED
  BY <1>1, <1>2 DEF Init, History!Init, History!Ids

\* Neither a step that keeps the session's place, nor its history, is seen.
LEMMA Unseen ==
  ASSUME UNCHANGED <<session, disk, marked, shown, entries, flags>>, Phase' = Phase
  PROVE  UNCHANGED History!vars
BY DEF History!vars

\* The turn goes on.
LEMMA WorkImplements ==
  ASSUME IInv, IInv', stage = "running", stage' = "running", Prefix(entries, entries'),
         UNCHANGED <<session, disk, marked, shown>>
  PROVE  History!Work
<1>1. session = "turn" /\ session' = "turn"
  BY DEF IInv, TurnsOK
<1>2. Phase = "turn" /\ Phase' = "turn"
  BY <1>1, PhaseCases, PhaseCasesNext
<1>3. entries \in Seq(Ids) /\ entries' \in Seq(Ids) /\ flags' \in [Ids -> Marks]
  BY DEF IInv, TypeOK
<1>4. History!Extends(entries', entries)
  BY <1>3, ExtendsPrefix
<1> QED
  BY <1>1, <1>2, <1>3, <1>4 DEF History!Work, History!Ids, Ids

\* What the writer of the running turn stores is the next part of the turn.
LEMMA WriterImplements ==
  ASSUME IInv, Working, Writer(turn)
  PROVE  History!Persist \/ UNCHANGED History!vars
<1>0. /\ TypeOK /\ turn \in Turns /\ session = "turn" /\ disk \in Seq(Ids) /\ entries \in Seq(Ids)
      /\ pending[turn] \in Seq(Ids) /\ flags \in [Ids -> Marks] /\ marked \in [Ids -> Marks]
  BY WorkingFacts
<1>1. TypeOK' /\ Apart /\ ~Stops(turn)
  BY <1>0, WriterTypeOK, WriterCases, WorkingStepInv
<1>2. UNCHANGED <<session, shown, stage, turn, entries, flags, commit>>
  BY <1>1 DEF Apart, hostVars
<1>3. Phase \in {"turn", "doomed"} /\ Phase' = Phase
  <2>1. Phase \in {"turn", "doomed"}
    BY <1>0, PhaseCases DEF Working
  <2>2. Phase' = Phase
    BY <1>2 DEF Phase
  <2> QED
    BY <2>1, <2>2
<1>4. PICK batch \in Seq(Ids) :
        /\ \/ Window(turn) /\ batch = pending[turn]
           \/ Gather(turn, batch)
           \/ (Answers(turn) \/ Marking(turn)) /\ batch = pending[turn]
        /\ Writes(turn, batch)
  BY <1>0, <1>1, WriterCases DEF Window, Gather, Answers, Marking, Drains, Writes
<1>5. CASE disk' = disk /\ marked' = marked
  BY <1>2, <1>3, <1>5, Unseen
<1>6. CASE ~(disk' = disk /\ marked' = marked)
  <2>1. ~broken[turn]
    <3>1. broken[turn] => disk' = disk
      BY <1>0, <1>4, WritesEffect
    <3>2. broken[turn] => marked' = marked
      BY <1>4 DEF Window, Gather, Answers, Marking
    <3> QED
      BY <1>6, <3>1, <3>2
  <2>2. disk' \in {disk, disk \o batch}
    BY <1>0, <1>4, WritesEffect
  <2>3. disk \o << >> = disk
    BY <1>0
  <2>4. Aligned(disk \o batch, mail'[turn], entries)
    <3>1. Gathered(turn, batch)
      BY <1>4, <2>1, WriterGathers
    <3>2. ASSUME batch = << >>, \A n \in DOMAIN mail'[turn] : mail'[turn][n].op = "Barrier",
                 ~Aligned(disk \o batch, mail'[turn], entries)
          PROVE  FALSE
      <4>1. disk' = disk
        BY <2>2, <2>3, <3>2
      <4>2. Marking(turn)
        BY <1>4, <1>6, <4>1 DEF Window, Gather, Answers
      <4>3. batch = pending[turn]
        BY <1>4, <4>2 DEF Gather, Marking, Takes
      <4>4. Aligned(disk \o pending[turn], mail[turn], entries)
        <5>1. 1 \in DOMAIN mail[turn] /\ mail[turn][1].op = "UpdateFlags"
          BY <1>0, <4>2, TakesHead DEF Marking
        <5> QED
          BY <2>1, <5>1 DEF IInv, WrittenOK
      <4>5. mail'[turn] = Tail(mail[turn]) /\ mail[turn] # << >> /\ Head(mail[turn]).op # "Append"
            /\ mail[turn] \in Seq(Ops)
        BY <1>0, <4>2, TakesHead DEF Marking
      <4> QED
        <5>1. Aligned(disk \o pending[turn], Tail(mail[turn]), entries)
          <6> DEFINE d == disk \o pending[turn]
          <6>1. d \in Seq(Ids) /\ Aligned(d, mail[turn], entries)
            BY <1>0, <4>4
          <6> HIDE DEF d
          <6>2. Aligned(d, Tail(mail[turn]), entries)
            BY <1>0, <4>5, <6>1, AlignedTakeOther
          <6> QED
            BY <6>2 DEF d
        <5> QED
          BY <3>2, <4>3, <4>5, <5>1
    <3> QED
      BY <3>1, <3>2 DEF Gathered
  <2>5. Prefix(disk \o batch, entries) /\ disk \o batch \in Seq(Ids)
    BY <1>0, <2>4 DEF Aligned
  <2>6. Prefix(disk, entries)
    BY <1>0, <2>5, PrefixConcat
  <2>7. Prefix(disk', entries) /\ Prefix(disk, disk') /\ disk' \in Seq(Ids)
    BY <1>0, <2>2, <2>5, <2>6, PrefixOfConcat
  <2>8. History!Extends(disk', disk) /\ History!Extends(entries, disk')
    BY <1>0, <2>7, ExtendsPrefix
  <2>9. marked' \in [Ids -> Marks] /\ \A i \in Ids : marked'[i] \in {marked[i], flags[i]}
    <3>1. marked' \in [Ids -> Marks]
      BY <1>1 DEF TypeOK
    <3>2. CASE Marking(turn)
      <4>1. Head(mail[turn]).id \in Ids /\ Head(mail[turn]).mark = flags[Head(mail[turn]).id]
        BY <3>2, HeadMark
      <4>2. marked' \in {marked, [marked EXCEPT ![Head(mail[turn]).id] = Head(mail[turn]).mark]}
        BY <3>2 DEF Marking
      <4>3. \A i \in Ids : marked'[i] \in {marked[i], flags[i]}
        BY <1>0, <4>1, <4>2
      <4> QED
        BY <3>1, <4>3
    <3>3. CASE ~Marking(turn)
      <4>1. marked' = marked
        BY <1>4, <3>3 DEF Window, Gather, Answers
      <4> QED
        BY <3>1, <4>1
    <3> QED
      BY <3>2, <3>3
  <2> QED
    BY <1>0, <1>2, <1>3, <2>7, <2>8, <2>9 DEF History!Persist, History!Ids, Ids
<1> QED
  BY <1>5, <1>6

\* A compaction that failed or was cancelled dooms its turn.
LEMMA LostImplements ==
  ASSUME IInv, stage \in {"flushing", "storing"}, stage' = "failed",
         (stage = "storing" /\ StoreApplies) \/ UNCHANGED storeVars,
         UNCHANGED <<session, shown, entries, flags, commit>>
  PROVE  History!Doom
<1>1. session = "turn" /\ commit = "pending"
  BY DEF IInv, TurnsOK
<1>2. Phase = "turn" /\ Phase' = "doomed"
  BY <1>1, PhaseCases, PhaseCasesNext
<1>3. CASE UNCHANGED storeVars
  BY <1>1, <1>2, <1>3 DEF storeVars, History!Doom
<1>4. CASE stage = "storing" /\ StoreApplies
  <2>1. disk = entries /\ marked = flags /\ Working
    BY <1>4, StoringFacts
  <2>2. disk' = Append(disk, fresh) /\ marked' \in [Ids -> Marks]
    BY <1>4, <2>1, StoreAppliesEffect
  <2>3. fresh \in Ids
    BY <1>4, <2>1 DEF IInv, EntriesOK
  <2> QED
    BY <1>1, <1>2, <2>1, <2>2, <2>3 DEF History!Doom, History!Ids, Ids
<1> QED
  BY <1>3, <1>4

\* A compaction is one step, in the turn and in the store.
LEMMA CommitImplements ==
  ASSUME IInv, Commit
  PROVE  History!Compact
<1>1. /\ stage = "storing" /\ StoreApplies /\ entries' = Append(entries, fresh)
      /\ flags' = Compacted(flags) /\ stage' = "running" /\ UNCHANGED <<session, shown>>
  BY DEF Commit, Goto, hostVars
<1>2. session = "turn" /\ Phase = "turn" /\ Phase' = "turn"
  <2>1. session = "turn"
    BY <1>1 DEF IInv, TurnsOK
  <2> QED
    BY <1>1, <2>1, PhaseCases, PhaseCasesNext
<1>3. disk = entries /\ marked = flags /\ Working
  BY <1>1, StoringFacts
<1>4. disk' = Append(disk, fresh) /\ marked' = flags' /\ marked' \in [Ids -> Marks] /\ entries' = disk'
  BY <1>1, <1>3, StoreAppliesEffect
<1>5. fresh \in Ids
  BY <1>1, <1>3 DEF IInv, EntriesOK
<1> QED
  BY <1>1, <1>2, <1>3, <1>4, <1>5 DEF History!Compact, History!Ids, Ids

\* The verdict keeps only what the store holds.
LEMMA JudgeImplements ==
  ASSUME IInv, Judge
  PROVE  History!Settle
<1>1. /\ stage = "closing" /\ answer # "none"
      /\ stage' = IF answer = "Err" \/ commit = "pending" THEN "lost" ELSE "kept"
      /\ UNCHANGED <<session, disk, marked, shown, entries, flags>>
  BY DEF Judge, Goto, storeVars, hostVars
<1>2. session = "turn" /\ answer \in {"Ok", "Err"}
  BY <1>1 DEF IInv, TurnsOK, TypeOK
<1>3. CASE answer = "Err" \/ commit = "pending"
  <2>1. Phase \in {"turn", "doomed"} /\ Phase' = "lost"
    BY <1>1, <1>2, <1>3, PhaseCases, PhaseCasesNext
  <2> QED
    BY <1>1, <2>1 DEF History!Settle
<1>4. CASE ~(answer = "Err" \/ commit = "pending")
  <2>1. Phase = "turn" /\ Phase' = "kept"
    BY <1>1, <1>2, <1>4, PhaseCases, PhaseCasesNext
  <2>2. disk = entries /\ marked = flags
    BY <1>1, <1>2, <1>4, AnsweredFacts
  <2> QED
    BY <1>1, <1>2, <2>1, <2>2 DEF History!Settle
<1> QED
  BY <1>3, <1>4

\* The host adopts the turn, or gives its copy up.
LEMMA FinishImplements ==
  ASSUME IInv, Finish
  PROVE  History!Adopt \/ History!GiveUp
<1>1. /\ stage \in {"kept", "lost"} /\ stage' = "none" /\ entries' = << >>
      /\ IF stage = "kept" THEN session' = "rest" /\ shown' = entries
                           ELSE session' = "closed" /\ shown' = << >>
      /\ UNCHANGED <<disk, marked>>
  BY DEF Finish, ForgetTurn, Goto, storeVars
<1>2. session = "turn"
  BY <1>1 DEF IInv, TurnsOK
<1>3. Phase = stage /\ Phase' = session' /\ session' # "turn"
  BY <1>1, <1>2, PhaseCases, PhaseCasesNext
<1> QED
  BY <1>1, <1>3 DEF History!Adopt, History!GiveUp, History!NoTurn

\* The end of the process gives the hot copy up.
LEMMA CrashImplements ==
  ASSUME Crash
  PROVE  History!GiveUp
<1>1. session' = "closed" /\ shown' = << >> /\ entries' = << >> /\ UNCHANGED <<disk, marked>>
  BY DEF Crash, ForgetTurn, storeVars
<1>2. Phase' = "closed"
  BY <1>1, PhaseCasesNext DEF Crash, ForgetTurn, Goto
<1> QED
  BY <1>1, <1>2 DEF History!GiveUp, History!NoTurn

\* Every step of the session is a step of DurableHistory, or is not seen by it.
LEMMA StepImplements ==
  ASSUME IInv, IInv', [Next]_vars
  PROVE  History!Next \/ UNCHANGED History!vars
<1>1. ASSUME NEW t \in Turns, Writer(t)
      PROVE  History!Next \/ UNCHANGED History!vars
  <2>1. CASE t = turn /\ Working
    BY <1>1, <2>1, WriterImplements DEF History!Next
  <2>2. CASE ~(t = turn /\ Working)
    <3>1. UNCHANGED <<session, shown, stage, entries, flags, commit, disk, marked>>
      BY <1>1, <2>2, QuietStep DEF IInv, TurnsOK, Apart, hostVars
    <3>2. Phase' = Phase
      BY <3>1 DEF Phase
    <3> QED
      BY <3>1, <3>2, Unseen
  <2> QED
    BY <2>1, <2>2
<1>2. CASE Load
  <2>1. /\ session = "closed" /\ session' = "rest" /\ shown' = disk
        /\ UNCHANGED <<disk, marked, entries>> /\ stage = "none" /\ stage' = "none"
    BY <1>2 DEF Load, storeVars, turnVars, IInv, TurnsOK
  <2>2. Phase = "closed" /\ Phase' = "rest"
    BY <2>1, PhaseCases, PhaseCasesNext
  <2>3. History!Load
    BY <2>1, <2>2 DEF History!Load
  <2> QED
    BY <2>3 DEF History!Next
<1>3. CASE BeginTurn
  <2>1. entries' = shown /\ flags' = marked
    BY <1>3, BeginTurnFacts
  <2>2. session = "rest" /\ session' = "turn" /\ stage' = "running" /\ UNCHANGED <<disk, marked, shown>>
    BY <1>3 DEF BeginTurn, Goto, storeVars
  <2>3. Phase = "rest" /\ Phase' = "turn"
    BY <2>2, PhaseCases, PhaseCasesNext DEF IInv, TurnsOK
  <2>4. History!Begin
    BY <2>1, <2>2, <2>3 DEF History!Begin
  <2> QED
    BY <2>4 DEF History!Next
<1>4. ASSUME NEW n \in 1 .. 2, Extend(n)
      PROVE  History!Next
  <2> DEFINE new == [k \in 1 .. n |-> fresh + k]
  <2>1. new \in Seq(Ids) /\ entries \in Seq(Ids)
    BY <1>4, ExtendEffect DEF IInv, TypeOK
  <2>2. /\ stage = "running" /\ stage' = "running" /\ entries' = entries \o new
        /\ UNCHANGED <<session, disk, marked, shown>>
    BY <1>4 DEF Extend, storeVars, hostVars
  <2> HIDE DEF new
  <2>3. Prefix(entries, entries')
    BY <2>1, <2>2, PrefixOfConcat
  <2> QED
    BY <2>2, <2>3, WorkImplements DEF History!Next
<1>5. ASSUME NEW i \in Ids, Truncate(i)
      PROVE  History!Next
  <2>1. /\ stage = "running" /\ stage' = "running" /\ entries' = entries
        /\ UNCHANGED <<session, disk, marked, shown>>
    BY <1>5 DEF Truncate, storeVars, hostVars
  <2>2. Prefix(entries, entries')
    BY <2>1, PrefixOfConcat DEF IInv, TypeOK
  <2> QED
    BY <2>1, <2>2, WorkImplements DEF History!Next
<1>6. CASE BeginCommit
  <2>1. stage = "running" /\ stage' = "flushing" /\ UNCHANGED <<session, disk, marked, shown, entries, flags>>
    BY <1>6 DEF BeginCommit, Goto, storeVars, hostVars
  <2>2. session = "turn"
    BY <2>1 DEF IInv, TurnsOK
  <2>3. Phase' = Phase
    BY <2>1, <2>2, PhaseCases, PhaseCasesNext
  <2> QED
    BY <2>1, <2>3, Unseen
<1>7. CASE CommitFlushed
  <2>1. /\ stage = "flushing" /\ stage' \in {"storing", "failed"}
        /\ UNCHANGED storeVars
        /\ UNCHANGED <<session, disk, marked, shown, entries, flags, commit>>
    BY <1>7 DEF CommitFlushed, Goto, storeVars, hostVars
  <2>2. CASE stage' = "failed"
    BY <2>1, <2>2, LostImplements DEF History!Next
  <2>3. CASE stage' = "storing"
    <3>1. session = "turn"
      BY <2>1 DEF IInv, TurnsOK
    <3>2. Phase' = Phase
      BY <2>1, <2>3, <3>1, PhaseCases, PhaseCasesNext
    <3> QED
      BY <2>1, <3>2, Unseen
  <2> QED
    BY <2>1, <2>2, <2>3
<1>8. CASE Commit
  BY <1>8, CommitImplements DEF History!Next
<1>9. CASE CommitFails \/ CancelCommit
  <2>1. /\ stage \in {"flushing", "storing"} /\ stage' = "failed"
        /\ (stage = "storing" /\ StoreApplies) \/ UNCHANGED storeVars
        /\ UNCHANGED <<session, shown, entries, flags, commit>>
    BY <1>9 DEF CommitFails, CancelCommit, Goto, hostVars
  <2> QED
    BY <2>1, LostImplements DEF History!Next
<1>10. CASE Close
  <2>1. /\ stage \in {"running", "failed"} /\ stage' = "closing"
        /\ UNCHANGED <<session, disk, marked, shown, entries, flags, commit>>
    BY <1>10 DEF Close, Goto, storeVars, hostVars
  <2>2. /\ session = "turn" /\ (stage = "running" => commit # "pending")
        /\ (stage = "failed" => commit = "pending")
    BY <2>1 DEF IInv, TurnsOK
  <2>3. Phase' = Phase
    BY <2>1, <2>2, PhaseCases, PhaseCasesNext
  <2> QED
    BY <2>1, <2>3, Unseen
<1>11. CASE Judge
  BY <1>11, JudgeImplements DEF History!Next
<1>12. CASE Finish
  BY <1>12, FinishImplements DEF History!Next
<1>13. CASE Crash
  BY <1>13, CrashImplements DEF History!Next
<1>14. CASE UNCHANGED vars
  <2>1. UNCHANGED <<session, disk, marked, shown, entries, flags, stage, commit>>
    BY <1>14 DEF vars, storeVars, hostVars, turnVars
  <2>2. Phase' = Phase
    BY <2>1 DEF Phase
  <2> QED
    BY <2>1, <2>2, Unseen
<1> QED
  BY <1>1, <1>2, <1>3, <1>4, <1>5, <1>6, <1>7, <1>8, <1>9, <1>10, <1>11, <1>12, <1>13, <1>14
     DEF Next, CommitEnds

\* The session keeps the promise of DurableHistory: between turns the host shows what
\* a restart would load, marks included, and nothing is written once a turn has settled.
THEOREM SessionKeepsItsPromise == Spec => ImplementsDurableHistory
<1>1. Init => History!Init
  BY InitImplements
<1>2. IInv /\ IInv' /\ [Next]_vars => [History!Next]_(History!vars)
  BY StepImplements
<1> QED
  BY <1>1, <1>2, Invariant, PTL DEF Spec, ImplementsDurableHistory, History!Spec
=============================================================================

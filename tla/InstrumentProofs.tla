-------------------------- MODULE InstrumentProofs -------------------------
(***************************************************************************)
(* Proofs about three of the instruments: Bridge, for any sets of frames,  *)
(* any queue and filter length and any number of arrivals; LinkProbe, for  *)
(* any width of the far counters, any number of probes and of tries; and   *)
(* RttPairing, for any sequence space, clock and length of the ring.  They *)
(* share no state with one another nor with the other two, so that what is *)
(* proved of each holds of the composition, which is the last part.        *)
(***************************************************************************)
EXTENDS Instruments, LossHookProofs, MonitorVerdictProofs,
        FiniteSetTheorems, FunctionTheorems, SequenceTheorems, WellFoundedInduction, TLAPS

-----------------------------------------------------------------------------
(* Frames waiting in the queue                                             *)

Entry == [side : Sides, frame : UpFrames \cup DownFrames, echo : BOOLEAN]

\* Where the frames of side s wait that are no echoes; Queued counts these places.
Places(q, s) == {i \in 1 .. Len(q) : q[i].side = s /\ ~q[i].echo}

\* An entry is one of those.
CountsOne(e, s) == IF e.side = s /\ ~e.echo THEN 1 ELSE 0

LEMMA PlacesFinite ==
  ASSUME NEW q \in Seq(Entry), NEW s
  PROVE  IsFiniteSet(Places(q, s)) /\ Cardinality(Places(q, s)) \in Nat
<1>1. IsFiniteSet(1 .. Len(q))
  BY FS_Interval
<1>2. Places(q, s) \subseteq 1 .. Len(q)
  BY DEF Places
<1> QED
  BY <1>1, <1>2, FS_Subset, FS_CardinalityType

LEMMA PlacesAppend ==
  ASSUME NEW q \in Seq(Entry), NEW e \in Entry, NEW s
  PROVE  Cardinality(Places(Append(q, e), s)) = Cardinality(Places(q, s)) + CountsOne(e, s)
<1> DEFINE r == Append(q, e)
<1>1. /\ Len(q) \in Nat /\ Len(r) = Len(q) + 1 /\ r[Len(q) + 1] = e
      /\ \A i \in 1 .. Len(q) : r[i] = q[i]
  OBVIOUS
<1> HIDE DEF r
<1>2. IsFiniteSet(Places(q, s))
  BY PlacesFinite
<1>3. CASE e.side = s /\ ~e.echo
  <2>1. Places(r, s) = Places(q, s) \cup {Len(q) + 1} /\ Len(q) + 1 \notin Places(q, s)
    BY <1>1, <1>3 DEF Places
  <2>2. Cardinality(Places(r, s)) = Cardinality(Places(q, s)) + 1
    BY <1>2, <2>1, FS_AddElement
  <2> QED
    BY <1>3, <2>2 DEF CountsOne, r
<1>4. CASE ~(e.side = s /\ ~e.echo)
  <2>1. Places(r, s) = Places(q, s)
    BY <1>1, <1>4 DEF Places
  <2>2. Cardinality(Places(q, s)) \in Nat
    BY PlacesFinite
  <2> QED
    BY <1>4, <2>1, <2>2 DEF CountsOne, r
<1> QED
  BY <1>3, <1>4

LEMMA PlacesTail ==
  ASSUME NEW q \in Seq(Entry), q # <<>>, NEW s
  PROVE  Cardinality(Places(q, s)) = Cardinality(Places(Tail(q), s)) + CountsOne(Head(q), s)
<1> DEFINE r == Tail(q)
<1>1. /\ r \in Seq(Entry) /\ Len(q) = Len(r) + 1 /\ Len(r) \in Nat /\ Head(q) = q[1]
      /\ \A i \in 1 .. Len(r) : r[i] = q[i + 1]
  OBVIOUS
<1> HIDE DEF r
<1> DEFINE S == Places(r, s)
           T == Places(q, s) \ {1}
           f == [i \in S |-> i + 1]
<1>2. f \in Bijection(S, T)
  <2>1. \A i \in S : i \in 1 .. Len(r) /\ i + 1 \in T
    BY <1>1 DEF Places
  <2>2. f \in [S -> T] /\ \A i \in S : f[i] = i + 1
    BY <2>1
  <2>3. ASSUME NEW j \in T PROVE \E i \in S : f[i] = j
    <3>1. j \in 2 .. Len(q) /\ j - 1 \in 1 .. Len(r) /\ r[j - 1] = q[j]
      BY <1>1 DEF Places
    <3>2. j - 1 \in S
      BY <3>1 DEF Places
    <3> QED
      BY <2>2, <3>1, <3>2
  <2>4. ASSUME NEW i \in S, NEW k \in S, f[i] = f[k] PROVE i = k
    BY <2>1, <2>2, <2>4
  <2> HIDE DEF f, S, T
  <2> QED
    BY <2>2, <2>3, <2>4, Fun_IsBij
<1>3. IsFiniteSet(S) /\ Cardinality(S) \in Nat /\ IsFiniteSet(Places(q, s))
  BY <1>1, PlacesFinite
<1>4. Cardinality(T) = Cardinality(S) /\ IsFiniteSet(T)
  <2> HIDE DEF f, S, T
  <2> QED
    BY <1>2, <1>3, FS_Bijection DEF ExistsBijection
<1>5. 1 \in Places(q, s) <=> (Head(q).side = s /\ ~Head(q).echo)
  BY <1>1 DEF Places
<1>6. CASE 1 \in Places(q, s)
  <2>1. Cardinality(T) = Cardinality(Places(q, s)) - 1
    BY <1>3, <1>6, FS_RemoveElement
  <2>2. Cardinality(Places(q, s)) \in Nat
    BY PlacesFinite
  <2> QED
    BY <1>3, <1>4, <1>5, <1>6, <2>1, <2>2 DEF CountsOne, r
<1>7. CASE 1 \notin Places(q, s)
  <2>1. T = Places(q, s) /\ S = Places(Tail(q), s)
    BY <1>7 DEF r
  <2>2. CountsOne(Head(q), s) = 0
    BY <1>5, <1>7 DEF CountsOne
  <2> HIDE DEF S, T
  <2> QED
    BY <1>3, <1>4, <2>1, <2>2
<1> QED
  BY <1>6, <1>7

-----------------------------------------------------------------------------
(* The inductive invariant                                                 *)

Frames == UpFrames \cup DownFrames

TalliesTyped ==
  /\ {g_echo_in, g_echo_out, g_dup_in, g_dup_out, g_reverse_frames, to_shim} \subseteq Nat
  /\ arrived \in [Sides -> Nat] /\ swallowed \in [Sides -> Nat]

QueueOK == qfifo \in Seq(Entry) /\ Len(qfifo) <= QfifoLen

FilterOK ==
  /\ g_dedup_on \in BOOLEAN /\ recent \in Seq(Frames) /\ Len(recent) <= DedupLen
  /\ g_dedup_on \/ (recent = <<>> /\ g_dup_in = 0 /\ g_dup_out = 0)

\* What the pump takes for its own echo is its own echo, and all of it.
EchoesOurs == \A i \in 1 .. Len(qfifo) : qfifo[i].echo <=> Ours(qfifo[i])

\* The frames of side s, of which n were passed on and the filter counts d.
Counted(s, n, d) ==
  /\ arrived[s] = n + swallowed[s] + Cardinality(Places(qfifo, s))
  /\ swallowed[s] <= d

BridgeInv ==
  /\ TalliesTyped /\ QueueOK /\ FilterOK /\ EchoesOurs
  /\ Counted("in", to_shim, g_dup_in) /\ Counted("out", g_reverse_frames, g_dup_out)

LEMMA PlacesEmpty == \A s : Cardinality(Places(<<>>, s)) = 0
<1> TAKE s
<1>1. Places(<<>>, s) = {}
  BY DEF Places
<1> QED
  BY <1>1, FS_EmptySet

LEMMA BridgeInvInit == BridgeInit => BridgeInv
<1> SUFFICES ASSUME BridgeInit PROVE BridgeInv
  OBVIOUS
<1> USE DEF BridgeInit
<1>1. TalliesTyped
  BY DEF TalliesTyped
<1>2. QueueOK /\ FilterOK /\ EchoesOurs
  BY BridgeAssumption DEF QueueOK, FilterOK, EchoesOurs
<1>3. Counted("in", to_shim, g_dup_in) /\ Counted("out", g_reverse_frames, g_dup_out)
  BY PlacesEmpty DEF Counted, Sides
<1> QED
  BY <1>1, <1>2, <1>3 DEF BridgeInv

\* Frames go in at the end of the queue and are taken at its head; what holds of
\* each entry goes on holding.
LEMMA QueueAppend ==
  ASSUME NEW q \in Seq(Entry), NEW e \in Entry,
         \A i \in 1 .. Len(q) : q[i].echo <=> Ours(q[i]), e.echo <=> Ours(e)
  PROVE  /\ Append(q, e) \in Seq(Entry) /\ Len(Append(q, e)) = Len(q) + 1
         /\ \A i \in 1 .. Len(Append(q, e)) : Append(q, e)[i].echo <=> Ours(Append(q, e)[i])
<1> DEFINE r == Append(q, e)
<1>1. /\ r \in Seq(Entry) /\ Len(q) \in Nat /\ Len(r) = Len(q) + 1 /\ r[Len(q) + 1] = e
      /\ \A i \in 1 .. Len(q) : r[i] = q[i]
  OBVIOUS
<1> HIDE DEF r
<1>2. ASSUME NEW i \in 1 .. Len(r) PROVE r[i].echo <=> Ours(r[i])
  <2>1. i \in 1 .. Len(q) \/ i = Len(q) + 1
    BY <1>1
  <2>2. CASE i \in 1 .. Len(q)
    BY <1>1, <2>2
  <2>3. CASE i = Len(q) + 1
    BY <1>1, <2>3
  <2> QED
    BY <2>1, <2>2, <2>3
<1> QED
  BY <1>1, <1>2 DEF r

LEMMA QueueTail ==
  ASSUME NEW q \in Seq(Entry), q # <<>>, \A i \in 1 .. Len(q) : q[i].echo <=> Ours(q[i])
  PROVE  /\ Head(q) \in Entry /\ (Head(q).echo <=> Ours(Head(q)))
         /\ Tail(q) \in Seq(Entry) /\ Len(Tail(q)) = Len(q) - 1 /\ Len(Tail(q)) \in Nat
         /\ \A i \in 1 .. Len(Tail(q)) : Tail(q)[i].echo <=> Ours(Tail(q)[i])
<1> DEFINE r == Tail(q)
<1>1. /\ r \in Seq(Entry) /\ Len(q) = Len(r) + 1 /\ Len(r) \in Nat /\ Head(q) = q[1]
      /\ q[1] \in Entry
      /\ \A i \in 1 .. Len(r) : r[i] = q[i + 1]
  OBVIOUS
<1> HIDE DEF r
<1>2. ASSUME NEW i \in 1 .. Len(r) PROVE r[i].echo <=> Ours(r[i])
  <2>1. i + 1 \in 1 .. Len(q) /\ r[i] = q[i + 1]
    BY <1>1
  <2> QED
    BY <2>1
<1>3. q[1].echo <=> Ours(q[1])
  BY <1>1
<1> QED
  BY <1>1, <1>2, <1>3 DEF r

\* The head of the queue, which the pump takes: what it is and how it counts.
LEMMA HeadCounts ==
  ASSUME QueueOK, EchoesOurs, qfifo # <<>>
  PROVE  /\ Head(qfifo) \in Entry /\ (Head(qfifo).echo <=> Ours(Head(qfifo)))
         /\ \A s \in Sides : Cardinality(Places(qfifo, s))
              = Cardinality(Places(Tail(qfifo), s)) + CountsOne(Head(qfifo), s)
         /\ \A s \in Sides : Cardinality(Places(Tail(qfifo), s)) \in Nat
  BY QueueTail, PlacesTail, PlacesFinite DEF QueueOK, EchoesOurs

LEMMA TailKeeps ==
  ASSUME QueueOK, EchoesOurs, qfifo # <<>>, qfifo' = Tail(qfifo)
  PROVE  QueueOK' /\ EchoesOurs'
<1>1. /\ Tail(qfifo) \in Seq(Entry) /\ Len(Tail(qfifo)) = Len(qfifo) - 1
      /\ \A i \in 1 .. Len(Tail(qfifo)) : Tail(qfifo)[i].echo <=> Ours(Tail(qfifo)[i])
  BY QueueTail DEF QueueOK, EchoesOurs
<1>2. Len(qfifo) \in Nat /\ Len(qfifo) <= QfifoLen
  BY DEF QueueOK
<1> QED
  BY <1>1, <1>2, BridgeAssumption DEF QueueOK, EchoesOurs, Ours

LEMMA RememberedOK ==
  ASSUME FilterOK, NEW f \in Frames
  PROVE  /\ Remembered(f) \in Seq(Frames) /\ Len(Remembered(f)) <= DedupLen
         /\ ~g_dedup_on => Remembered(f) = recent
<1>1. CASE Len(recent) = DedupLen
  <2>1. Tail(recent) \in Seq(Frames) /\ Len(Tail(recent)) = Len(recent) - 1
    BY <1>1, BridgeAssumption DEF FilterOK
  <2>2. Append(Tail(recent), f) \in Seq(Frames) /\ Len(Append(Tail(recent), f)) = Len(recent)
    BY <2>1
  <2> QED
    BY <1>1, <2>2 DEF FilterOK, Remembered
<1>2. CASE Len(recent) # DedupLen
  <2>1. Append(recent, f) \in Seq(Frames) /\ Len(Append(recent, f)) = Len(recent) + 1
    BY DEF FilterOK
  <2>2. Len(recent) + 1 <= DedupLen
    BY <1>2, BridgeAssumption DEF FilterOK
  <2> QED
    BY <1>2, <2>1, <2>2 DEF FilterOK, Remembered
<1> QED
  BY <1>1, <1>2

LEMMA ArriveKeeps ==
  ASSUME BridgeInv, NEW s \in Sides, NEW f \in Frames, (s = "in") <=> (f \in UpFrames), Arrive(s, f)
  PROVE  BridgeInv'
<1> DEFINE e == [side |-> s, frame |-> f, echo |-> FALSE]
<1> USE DEF BridgeInv
<1>1. e \in Entry /\ (e.echo <=> Ours(e)) /\ qfifo' = Append(qfifo, e) /\ Len(qfifo) < QfifoLen
  BY DEF Entry, Ours, Arrive, Frames, Sides
<1>2. CountsOne(e, s) = 1 /\ \A t \in Sides : t # s => CountsOne(e, t) = 0
  BY DEF CountsOne
<1> HIDE DEF e
<1>3. /\ qfifo' \in Seq(Entry) /\ Len(qfifo') = Len(qfifo) + 1
      /\ \A i \in 1 .. Len(qfifo') : qfifo'[i].echo <=> Ours(qfifo'[i])
  BY <1>1, QueueAppend DEF QueueOK, EchoesOurs
<1>4. QueueOK' /\ EchoesOurs'
  BY <1>1, <1>3, BridgeAssumption DEF QueueOK, EchoesOurs, Ours
<1>5. TalliesTyped' /\ FilterOK'
  <2>1. arrived[s] + 1 \in Nat
    BY DEF TalliesTyped
  <2>2. arrived' \in [Sides -> Nat]
    BY <2>1 DEF TalliesTyped, Arrive
  <2>3. UNCHANGED <<g_dedup_on, recent, g_echo_in, g_echo_out, g_dup_in, g_dup_out, g_reverse_frames, to_shim, swallowed>>
    BY DEF Arrive
  <2> QED
    BY <2>2, <2>3 DEF TalliesTyped, FilterOK
<1>6. \A t \in Sides : /\ Cardinality(Places(qfifo', t)) = Cardinality(Places(qfifo, t)) + CountsOne(e, t)
                       /\ Cardinality(Places(qfifo, t)) \in Nat
  BY <1>1, PlacesAppend, PlacesFinite DEF QueueOK
<1>7. \A t \in Sides : arrived'[t] = arrived[t] + CountsOne(e, t) /\ arrived[t] \in Nat
  BY <1>2, SMTT(60) DEF Arrive, TalliesTyped
<1>8. Counted("in", to_shim, g_dup_in)' /\ Counted("out", g_reverse_frames, g_dup_out)'
  <2>1. \A t \in Sides : CountsOne(e, t) \in Nat
    BY DEF CountsOne
  <2>2. UNCHANGED <<swallowed, to_shim, g_reverse_frames, g_dup_in, g_dup_out>>
        /\ {to_shim, g_reverse_frames} \subseteq Nat /\ \A t \in Sides : swallowed[t] \in Nat
    BY DEF Arrive, TalliesTyped
  <2>3. "in" \in Sides /\ "out" \in Sides
    BY DEF Sides
  <2> QED
    BY <1>6, <1>7, <2>1, <2>2, <2>3 DEF Counted
<1> QED
  BY <1>4, <1>5, <1>8

LEMMA DuplicateKeeps == BridgeInv /\ PumpDuplicate => BridgeInv'
<1> SUFFICES ASSUME BridgeInv, PumpDuplicate PROVE BridgeInv'
  OBVIOUS
<1> USE DEF BridgeInv
<1> DEFINE e == Head(qfifo)
<1>1. qfifo # <<>> /\ qfifo' = Tail(qfifo) /\ g_dedup_on
  BY DEF PumpDuplicate
<1>2. QueueOK' /\ EchoesOurs'
  BY <1>1, TailKeeps
<1>3. /\ e \in Entry
      /\ \A s \in Sides : /\ Cardinality(Places(qfifo, s)) = Cardinality(Places(qfifo', s)) + CountsOne(e, s)
                          /\ Cardinality(Places(qfifo', s)) \in Nat
  BY <1>1, HeadCounts
<1>4. TalliesTyped' /\ FilterOK'
  <2>1. e.side \in Sides /\ \A s \in Sides : swallowed[s] + 1 \in Nat
    BY <1>3 DEF TalliesTyped, Entry
  <2>2. swallowed' \in [Sides -> Nat]
    BY <2>1 DEF TalliesTyped, PumpDuplicate
  <2>3. g_dup_in' \in Nat /\ g_dup_out' \in Nat
    BY DEF TalliesTyped, PumpDuplicate
  <2> QED
    BY <1>1, <2>2, <2>3 DEF TalliesTyped, FilterOK, PumpDuplicate
<1>5. \A s \in Sides : swallowed'[s] = swallowed[s] + CountsOne(e, s) /\ swallowed[s] \in Nat /\ arrived[s] \in Nat
  BY <1>3, SMTT(60) DEF TalliesTyped, PumpDuplicate, Entry, CountsOne
<1>6. /\ g_dup_in' = g_dup_in + (IF e.side = "in" THEN 1 ELSE 0) /\ g_dup_in \in Nat
      /\ g_dup_out' = g_dup_out + (IF e.side = "out" THEN 1 ELSE 0) /\ g_dup_out \in Nat
  BY <1>3, SMTT(60) DEF PumpDuplicate, TalliesTyped, Entry, Sides
<1> HIDE DEF e
<1>7. /\ CountsOne(e, "in") \in Nat /\ CountsOne(e, "in") <= (IF e.side = "in" THEN 1 ELSE 0)
      /\ CountsOne(e, "out") \in Nat /\ CountsOne(e, "out") <= (IF e.side = "out" THEN 1 ELSE 0)
  BY DEF CountsOne
<1>8. UNCHANGED <<arrived, to_shim, g_reverse_frames>> /\ {to_shim, g_reverse_frames} \subseteq Nat
  BY DEF PumpDuplicate, TalliesTyped
<1>9. Counted("in", to_shim, g_dup_in)' /\ Counted("out", g_reverse_frames, g_dup_out)'
  BY <1>3, <1>5, <1>6, <1>7, <1>8 DEF Counted, Sides
<1> QED
  BY <1>2, <1>4, <1>9

LEMMA EchoKeeps == BridgeInv /\ PumpEcho => BridgeInv'
<1> SUFFICES ASSUME BridgeInv, PumpEcho PROVE BridgeInv'
  OBVIOUS
<1> USE DEF BridgeInv
<1>1. qfifo # <<>> /\ qfifo' = Tail(qfifo) /\ Ours(Head(qfifo))
      /\ recent' = Remembered(Head(qfifo).frame)
  BY DEF PumpEcho
<1>2. QueueOK' /\ EchoesOurs'
  BY <1>1, TailKeeps
<1>3. /\ Head(qfifo) \in Entry /\ Head(qfifo).echo
      /\ \A s \in Sides : /\ Cardinality(Places(qfifo, s)) = Cardinality(Places(qfifo', s)) + CountsOne(Head(qfifo), s)
                          /\ Cardinality(Places(qfifo', s)) \in Nat
  BY <1>1, HeadCounts
<1>4. TalliesTyped'
  BY DEF TalliesTyped, PumpEcho
<1>5. FilterOK'
  <2>1. Head(qfifo).frame \in Frames
    BY <1>3 DEF Entry, Frames
  <2> QED
    BY <1>1, <2>1, RememberedOK DEF FilterOK, PumpEcho
<1>6. \A s \in Sides : CountsOne(Head(qfifo), s) = 0
  BY <1>3 DEF CountsOne
<1>7. Counted("in", to_shim, g_dup_in)' /\ Counted("out", g_reverse_frames, g_dup_out)'
  BY <1>3, <1>6 DEF Counted, Sides, PumpEcho
<1> QED
  BY <1>2, <1>4, <1>5, <1>7

LEMMA ForwardKeeps == BridgeInv /\ PumpForward => BridgeInv'
<1> SUFFICES ASSUME BridgeInv, PumpForward PROVE BridgeInv'
  OBVIOUS
<1> USE DEF BridgeInv
<1> DEFINE e == Head(qfifo)
           back == IF e.side = "in" THEN "out" ELSE "in"
           heard == [side |-> back, frame |-> e.frame, echo |-> TRUE]
<1>1. /\ qfifo # <<>> /\ ~Ours(e) /\ recent' = Remembered(e.frame)
      /\ qfifo' = Tail(qfifo) \/ qfifo' = Append(Tail(qfifo), heard)
  BY DEF PumpForward, Sent
<1>2. /\ e \in Entry /\ ~e.echo
      /\ \A s \in Sides : /\ Cardinality(Places(qfifo, s)) = Cardinality(Places(Tail(qfifo), s)) + CountsOne(e, s)
                          /\ Cardinality(Places(Tail(qfifo), s)) \in Nat
  BY <1>1, HeadCounts
<1>3. heard \in Entry /\ heard.echo /\ Ours(heard)
  BY <1>1, <1>2 DEF Entry, Ours, Sides
<1>4. /\ CountsOne(e, "in") = (IF e.side = "in" THEN 1 ELSE 0)
      /\ CountsOne(e, "out") = (IF e.side = "in" THEN 0 ELSE 1)
      /\ \A s \in Sides : CountsOne(heard, s) = 0
  BY <1>2, <1>3 DEF CountsOne, Entry, Sides
<1>5. /\ to_shim' = to_shim + (IF e.side = "in" THEN 1 ELSE 0)
      /\ g_reverse_frames' = g_reverse_frames + (IF e.side = "in" THEN 0 ELSE 1)
      /\ to_shim \in Nat /\ g_reverse_frames \in Nat
  BY DEF PumpForward, TalliesTyped
<1>6. TalliesTyped'
  BY <1>5 DEF TalliesTyped, PumpForward
<1>7. FilterOK'
  <2>1. e.frame \in Frames
    BY <1>2 DEF Entry, Frames
  <2> QED
    BY <1>1, <2>1, RememberedOK DEF FilterOK, PumpForward
<1> HIDE DEF e, back, heard
<1>8. /\ Tail(qfifo) \in Seq(Entry) /\ Len(Tail(qfifo)) = Len(qfifo) - 1 /\ Len(Tail(qfifo)) \in Nat
      /\ \A i \in 1 .. Len(Tail(qfifo)) : Tail(qfifo)[i].echo <=> Ours(Tail(qfifo)[i])
  BY <1>1, QueueTail DEF QueueOK, EchoesOurs
<1>9. QueueOK' /\ EchoesOurs'
  <2>1. CASE qfifo' = Tail(qfifo)
    BY <1>1, <2>1, TailKeeps
  <2>2. CASE qfifo' = Append(Tail(qfifo), heard)
    <3>1. /\ qfifo' \in Seq(Entry) /\ Len(qfifo') = Len(Tail(qfifo)) + 1
          /\ \A i \in 1 .. Len(qfifo') : qfifo'[i].echo <=> Ours(qfifo'[i])
      BY <1>3, <1>8, <2>2, QueueAppend
    <3> QED
      BY <1>8, <3>1, BridgeAssumption DEF QueueOK, EchoesOurs, Ours
  <2> QED
    BY <1>1, <2>1, <2>2
<1>10. \A s \in Sides : Cardinality(Places(qfifo', s)) = Cardinality(Places(Tail(qfifo), s))
  <2>1. CASE qfifo' = Append(Tail(qfifo), heard)
    <3> TAKE s \in Sides
    <3>1. Cardinality(Places(qfifo', s)) = Cardinality(Places(Tail(qfifo), s)) + CountsOne(heard, s)
      BY <1>3, <1>8, <2>1, PlacesAppend
    <3> QED
      BY <1>2, <1>4, <3>1
  <2> QED
    BY <1>1, <2>1
<1>11. UNCHANGED <<arrived, swallowed, g_dup_in, g_dup_out>>
       /\ arrived \in [Sides -> Nat] /\ swallowed \in [Sides -> Nat]
  BY DEF PumpForward, TalliesTyped
<1>12. Counted("in", to_shim, g_dup_in)' /\ Counted("out", g_reverse_frames, g_dup_out)'
  BY <1>2, <1>4, <1>5, <1>10, <1>11 DEF Counted, Sides
<1> QED
  BY <1>6, <1>7, <1>9, <1>12

LEMMA BridgeInvNext == BridgeInv /\ [BridgeNext]_bridgeVars => BridgeInv'
<1> SUFFICES ASSUME BridgeInv, [BridgeNext]_bridgeVars PROVE BridgeInv'
  OBVIOUS
<1>1. CASE \E f \in UpFrames : Arrive("in", f)
  BY <1>1, ArriveKeeps DEF Sides, Frames
<1>2. CASE \E f \in DownFrames : Arrive("out", f)
  BY <1>2, ArriveKeeps, BridgeAssumption DEF Sides, Frames
<1>3. CASE Forget
  <2>1. Tail(recent) \in Seq(Frames) /\ Len(Tail(recent)) = Len(recent) - 1
    BY <1>3 DEF Forget, BridgeInv, FilterOK
  <2>2. FilterOK'
    BY <1>3, <2>1, BridgeAssumption DEF Forget, BridgeInv, FilterOK
  <2>3. QueueOK' /\ EchoesOurs' /\ TalliesTyped'
    BY <1>3 DEF Forget, BridgeInv, QueueOK, EchoesOurs, Ours, TalliesTyped
  <2>4. Counted("in", to_shim, g_dup_in)' /\ Counted("out", g_reverse_frames, g_dup_out)'
    BY <1>3 DEF Forget, BridgeInv, Counted
  <2> QED
    BY <2>2, <2>3, <2>4 DEF BridgeInv
<1>4. CASE UNCHANGED bridgeVars
  <2>1. QueueOK' /\ FilterOK' /\ EchoesOurs' /\ TalliesTyped'
    BY <1>4 DEF BridgeInv, bridgeVars, QueueOK, FilterOK, EchoesOurs, Ours, TalliesTyped
  <2>2. Counted("in", to_shim, g_dup_in)' /\ Counted("out", g_reverse_frames, g_dup_out)'
    BY <1>4 DEF BridgeInv, bridgeVars, Counted
  <2> QED
    BY <2>1, <2>2 DEF BridgeInv
<1> QED
  BY <1>1, <1>2, <1>3, <1>4, DuplicateKeeps, EchoKeeps, ForwardKeeps DEF BridgeNext

-----------------------------------------------------------------------------
(* The theorems                                                            *)

\* In every state of the bridge the echo bit of a waiting frame is what the split
\* horizon decides from its source, and the books of each side balance.
THEOREM BridgeInvariance == BridgeSpec => []BridgeInv
  BY BridgeInvInit, BridgeInvNext, PTL DEF BridgeSpec

\* The bridge's type invariant.
THEOREM BridgeTypesHold == BridgeSpec => []BridgeTypeOK
<1>1. BridgeInv => BridgeTypeOK
  BY DEF BridgeInv, QueueOK, FilterOK, BridgeTypeOK
<1> QED
  BY <1>1, BridgeInvariance, PTL

\* No frame laps and none is lost without the filter's count: the pump of
\* ci_inject_bridge.c passes each frame of either bus on once or counts it as a
\* duplicate, whatever the length of its queue and filter.
THEOREM EveryFrameOnce == BridgeSpec => []PassedOnOnce
<1>1. BridgeInv => PassedOnOnce
  <2> SUFFICES ASSUME BridgeInv PROVE PassedOnOnce
    OBVIOUS
  <2>1. Queued("in") = Cardinality(Places(qfifo, "in"))
        /\ Queued("out") = Cardinality(Places(qfifo, "out"))
    BY DEF Queued, Places
  <2>2. swallowed["in"] \in Nat /\ swallowed["out"] \in Nat
    BY DEF BridgeInv, TalliesTyped, Sides
  <2> QED
    BY <2>1, <2>2 DEF BridgeInv, Counted, PassedOnOnce
<1> QED
  BY <1>1, BridgeInvariance, PTL

-----------------------------------------------------------------------------
(* Remainders                                                              *)

\* Quotient and remainder of an integer.
LEMMA Divided ==
  ASSUME NEW a \in Int, NEW d \in Nat \ {0}
  PROVE  a \div d \in Int /\ a % d \in 0 .. d - 1 /\ a = d * (a \div d) + (a % d)
<1>1. a \div d \in Int
  OBVIOUS
<1>2. a % d \in 0 .. d - 1
  OBVIOUS
<1> QED
  BY <1>1, <1>2

\* The remainder of what is less than a turn above or below 0 .. d - 1.
LEMMA OneTurn ==
  ASSUME NEW d \in Nat \ {0}, NEW a \in Int
  PROVE  /\ a \in 0 .. d - 1 => a % d = a
         /\ a \in d .. 2 * d - 1 => a % d = a - d
         /\ a \in -d .. -1 => a % d = a + d
<1>1. a \div d \in Int /\ a % d \in 0 .. d - 1 /\ a = d * (a \div d) + (a % d)
  BY Divided
<1> DEFINE q == a \div d
           r == a % d
<1> HIDE DEF q, r
<1>2. q \in Int /\ r \in 0 .. d - 1 /\ a = d * q + r
  BY <1>1 DEF q, r
<1>3. a \in 0 .. d - 1 => q = 0
  BY <1>2
<1>4. a \in d .. 2 * d - 1 => q = 1
  BY <1>2
<1>5. a \in -d .. -1 => q = -1
  BY <1>2
<1>6. /\ a \in 0 .. d - 1 => r = a
      /\ a \in d .. 2 * d - 1 => r = a - d
      /\ a \in -d .. -1 => r = a + d
  BY <1>2, <1>3, <1>4, <1>5
<1> QED
  BY <1>6 DEF r

\* Numbers less than d apart leave different remainders.
LEMMA Apart ==
  ASSUME NEW d \in Nat \ {0}, NEW a \in Int, NEW b \in Int, a % d = b % d, a - b < d, b - a < d
  PROVE  a = b
<1>1. a \div d \in Int /\ a % d \in 0 .. d - 1 /\ a = d * (a \div d) + (a % d)
  BY Divided
<1>2. b \div d \in Int /\ b % d \in 0 .. d - 1 /\ b = d * (b \div d) + (b % d)
  BY Divided
<1> DEFINE q == a \div d
           p == b \div d
           r == a % d
<1> HIDE DEF q, p, r
<1>3. q \in Int /\ p \in Int /\ r \in Int /\ a = d * q + r /\ b = d * p + r
  BY <1>1, <1>2 DEF q, p, r
<1>4. a - b = d * (q - p)
  BY <1>3
<1>5. ~(q - p >= 1)
  BY <1>3, <1>4
<1>6. ~(p - q >= 1)
  BY <1>3, <1>4
<1>7. q = p
  BY <1>3, <1>5, <1>6
<1> QED
  BY <1>3, <1>7

\* Counting on from a remainder.
LEMMA CountOn ==
  ASSUME NEW d \in Nat \ {0}, NEW x \in Int
  PROVE  ((x % d) + 1) % d = (x + 1) % d
<1>1. x \div d \in Int /\ x % d \in 0 .. d - 1 /\ x = d * (x \div d) + (x % d)
  BY Divided
<1> DEFINE q == x \div d
           r == x % d
<1> HIDE DEF q, r
<1>2. q \in Int /\ r \in 0 .. d - 1 /\ x = d * q + r
  BY <1>1 DEF q, r
<1> DEFINE y == r + 1
           z == x + 1
<1>3. y \in Int /\ z \in Int /\ z = d * q + y
  BY <1>2
<1> HIDE DEF y, z
<1>4. y \div d \in Int /\ y % d \in 0 .. d - 1 /\ y = d * (y \div d) + (y % d)
  BY <1>3, Divided
<1>5. z \div d \in Int /\ z % d \in 0 .. d - 1 /\ z = d * (z \div d) + (z % d)
  BY <1>3, Divided
<1> DEFINE i == y \div d
           j == z \div d
           s == y % d
           t == z % d
<1> HIDE DEF i, j, s, t
<1>6. /\ i \in Int /\ s \in 0 .. d - 1 /\ y = d * i + s
      /\ j \in Int /\ t \in 0 .. d - 1 /\ z = d * j + t
  BY <1>4, <1>5 DEF i, j, s, t
<1>7. t - s = d * ((q + i) - j)
  BY <1>2, <1>3, <1>6
<1>8. (q + i) - j \in Int /\ t - s < d /\ s - t < d
  BY <1>2, <1>6
<1>9. (q + i) - j = 0
  <2> DEFINE k == (q + i) - j
  <2> HIDE DEF k
  <2>1. k \in Int /\ t - s = d * k /\ t - s < d /\ s - t < d /\ t - s \in Int
    BY <1>6, <1>7, <1>8 DEF k
  <2>2. ~(k >= 1)
    BY <2>1
  <2>3. ~(k <= -1)
    BY <2>1, <1>6
  <2> QED
    BY <2>1, <2>2, <2>3 DEF k
<1>10. t = s
  BY <1>6, <1>7, <1>9
<1> QED
  BY <1>10 DEF s, t, y, z, r

-----------------------------------------------------------------------------
(* The split of the link test                                              *)

LinkSpec == LinkInit /\ [][LinkNext]_linkVars

\* The probes with one of the fates.
With(os, fates) == {k \in 1 .. Len(os) : os[k] \in fates}

Reached == {"unanswered", "down", "ok"}
Replied == {"down", "ok"}

Snaps == [tx : 0 .. ModProbe - 1, rx : 0 .. ModProbe - 1, attempts : 0 .. LinkSnapTries, ok : BOOLEAN]

\* A counter has moved on from a to b by lo to hi packets.
Ahead(a, b, lo, hi) == \E x \in a + lo .. a + hi : b = x % ModProbe

\* Where the far end's counters are, and from the closing snapshot on where they were
\* then.  Each of its tries may have been counted, and so may packets of others.
CountedOn(fc, tries, arr, ans) ==
  /\ Ahead(before.rx, fc.rx, arr, arr + cross + tries)
  /\ Ahead(before.tx, fc.tx, ans + 1, ans + 1 + cross + tries)

Snapped(arr, ans) ==
  /\ after.attempts > 0
  /\ Ahead(before.rx, after.rx, arr + 1, arr + cross + after.attempts)
  /\ Ahead(before.tx, after.tx, ans + 1, ans + cross + after.attempts)

LinkTypes ==
  /\ lpc \in {"idle", "before", "probe", "after", "report"}
  /\ count \in Nat /\ want_dir \in BOOLEAN /\ rebooted \in BOOLEAN
  /\ lpc # "idle" => count # 0 /\ count + LinkSnapTries + MaxCross < ModProbe
  /\ before \in Snaps /\ after \in Snaps
  /\ outcomes \in Seq(Fates) /\ Len(outcomes) <= count
  /\ run \in Nat /\ worst_run \in Nat /\ run <= worst_run /\ worst_run <= Len(outcomes)
  /\ farCount \in [tx : 0 .. ModProbe - 1, rx : 0 .. ModProbe - 1]
  /\ cross \in 0 .. MaxCross

Stages ==
  /\ lpc \in {"idle", "before"} => outcomes = <<>> /\ cross = 0
  /\ lpc = "idle" => ~before.ok
  /\ lpc \in {"idle", "before", "probe"} => after = NoSnap
  /\ lpc \notin {"idle", "before"} /\ want_dir => before.ok

FarKnown ==
  before.ok /\ ~rebooted =>
    IF after.ok THEN Snapped(Number(Reached), Number(Replied))
    ELSE CountedOn(farCount, after.attempts, Number(Reached), Number(Replied))

LinkInv == LinkTypes /\ Stages /\ FarKnown

LEMMA ProbeSizes ==
  /\ ModProbe \in Nat \ {0} /\ LinkSnapTries \in Nat \ {0} /\ LinkMaxProbes \in Nat
  /\ MaxCross \in Nat
  /\ \A c \in Counts : c \in Nat /\ c + LinkSnapTries + MaxCross < ModProbe
  /\ FarStarts \subseteq [tx : 0 .. ModProbe - 1, rx : 0 .. ModProbe - 1]
  BY ProbeAssumption

LEMMA NumberType ==
  ASSUME outcomes \in Seq(Fates)
  PROVE  /\ \A fates : Number(fates) \in 0 .. Len(outcomes)
         /\ Number({"ok"}) <= Number(Replied) /\ Number(Replied) <= Number(Reached)
<1>1. /\ Len(outcomes) \in Nat /\ IsFiniteSet(1 .. Len(outcomes))
      /\ Cardinality(1 .. Len(outcomes)) = Len(outcomes)
  <2>1. Len(outcomes) \in Nat
    OBVIOUS
  <2> QED
    BY <2>1, FS_Interval
<1>2. \A fates : With(outcomes, fates) \subseteq 1 .. Len(outcomes) /\ Number(fates) = Cardinality(With(outcomes, fates))
  BY DEF With, Number
<1>3. \A fates : IsFiniteSet(With(outcomes, fates)) /\ Number(fates) \in Nat /\ Number(fates) <= Len(outcomes)
  BY <1>1, <1>2, FS_Subset, FS_CardinalityType
<1>4. With(outcomes, {"ok"}) \subseteq With(outcomes, Replied)
      /\ With(outcomes, Replied) \subseteq With(outcomes, Reached)
  BY DEF With, Replied, Reached
<1>5. Number({"ok"}) <= Number(Replied) /\ Number(Replied) <= Number(Reached)
  BY <1>2, <1>3, <1>4, FS_Subset
<1>6. \A fates : Number(fates) \in 0 .. Len(outcomes)
  BY <1>1, <1>3
<1> QED
  BY <1>5, <1>6

\* One more probe.
LEMMA OneMoreProbe ==
  ASSUME outcomes \in Seq(Fates), NEW fate \in Fates, outcomes' = Append(outcomes, fate), NEW fates
  PROVE  Number(fates)' = Number(fates) + (IF fate \in fates THEN 1 ELSE 0)
<1>1. Len(outcomes) \in Nat /\ Len(outcomes') = Len(outcomes) + 1
      /\ outcomes'[Len(outcomes) + 1] = fate
      /\ \A k \in 1 .. Len(outcomes) : outcomes'[k] = outcomes[k]
  OBVIOUS
<1> DEFINE S == With(outcomes, fates)
           n == Len(outcomes) + 1
<1>2. IsFiniteSet(S) /\ n \notin S
  <2>1. IsFiniteSet(1 .. Len(outcomes)) /\ S \subseteq 1 .. Len(outcomes)
    BY <1>1, FS_Interval DEF With
  <2> QED
    BY <2>1, <1>1, FS_Subset
<1>3. With(outcomes', fates) = IF fate \in fates THEN S \cup {n} ELSE S
  <2>1. CASE fate \in fates
    BY <2>1, <1>1 DEF With
  <2>2. CASE fate \notin fates
    BY <2>2, <1>1 DEF With
  <2> QED
    BY <2>1, <2>2
<1>4. Number(fates) = Cardinality(S) /\ Number(fates)' = Cardinality(With(outcomes', fates))
  BY DEF Number, With
<1>5. Cardinality(S) \in Nat /\ Cardinality(S \cup {n}) = Cardinality(S) + 1
  BY <1>2, FS_AddElement, FS_CardinalityType
<1> HIDE DEF S, n
<1> QED
  BY <1>3, <1>4, <1>5

\* One more packet is counted.
LEMMA AheadByOne ==
  ASSUME NEW a \in Int, NEW b, NEW lo \in Int, NEW hi \in Int, Ahead(a, b, lo, hi)
  PROVE  Ahead(a, (b + 1) % ModProbe, lo + 1, hi + 1)
<1>1. PICK x \in a + lo .. a + hi : b = x % ModProbe
  BY DEF Ahead
<1>2. x + 1 \in a + (lo + 1) .. a + (hi + 1) /\ x \in Int
  OBVIOUS
<1>3. (b + 1) % ModProbe = (x + 1) % ModProbe
  BY <1>1, <1>2, CountOn, ProbeSizes
<1> QED
  BY <1>2, <1>3 DEF Ahead

LEMMA AheadWider ==
  ASSUME NEW a \in Int, NEW b, NEW lo \in Int, NEW hi \in Int, NEW low \in Int, NEW high \in Int,
         Ahead(a, b, lo, hi), low <= lo, hi <= high
  PROVE  Ahead(a, b, low, high)
  BY DEF Ahead

\* Less than a turn, the counter's difference is the number of packets.
LEMMA AheadMinus ==
  ASSUME NEW a \in 0 .. ModProbe - 1, NEW b \in 0 .. ModProbe - 1, NEW lo \in Nat, NEW hi \in Nat,
         hi < ModProbe, Ahead(a, b, lo, hi)
  PROVE  (b - a) % ModProbe \in lo .. hi
<1>1. PICK x \in a + lo .. a + hi : b = x % ModProbe
  BY DEF Ahead
<1>2. x \in Int /\ x - a \in lo .. hi /\ x \in 0 .. 2 * ModProbe - 1
  BY <1>1, ProbeSizes
<1>3. x \in 0 .. ModProbe - 1 \/ x \in ModProbe .. 2 * ModProbe - 1
  BY <1>2, ProbeSizes
<1> DEFINE y == b - a
<1>4. y \in Int
  BY ProbeSizes
<1> HIDE DEF y
<1>5. y % ModProbe = x - a
  <2>1. CASE x \in 0 .. ModProbe - 1
    <3>1. b = x
      BY <1>1, <1>2, <2>1, OneTurn, ProbeSizes
    <3>2. y = x - a /\ y \in 0 .. ModProbe - 1
      BY <3>1, <1>2, ProbeSizes DEF y
    <3> QED
      BY <3>2, <1>4, OneTurn, ProbeSizes
  <2>2. CASE x \in ModProbe .. 2 * ModProbe - 1
    <3>1. b = x - ModProbe
      BY <1>1, <1>2, <2>2, OneTurn, ProbeSizes
    <3>2. y = x - a - ModProbe /\ y \in -ModProbe .. -1
      BY <3>1, <1>2, ProbeSizes DEF y
    <3>3. y % ModProbe = y + ModProbe
      BY <3>2, <1>4, OneTurn, ProbeSizes
    <3> QED
      BY <3>2, <3>3, <1>2, ProbeSizes
  <2> QED
    BY <1>3, <2>1, <2>2
<1> QED
  BY <1>2, <1>5 DEF y

-----------------------------------------------------------------------------
(* Its steps                                                               *)

LEMMA LinkInvInit == LinkInit => LinkInv
<1> SUFFICES ASSUME LinkInit PROVE LinkInv
  OBVIOUS
<1>1. NoSnap \in Snaps /\ ~NoSnap.ok
  BY ProbeSizes DEF NoSnap, Snaps
<1>2. outcomes \in Seq(Fates) /\ Len(outcomes) = 0
  BY DEF LinkInit
<1>3. LinkTypes
  <2>1. farCount \in [tx : 0 .. ModProbe - 1, rx : 0 .. ModProbe - 1] /\ cross \in 0 .. MaxCross
    BY ProbeSizes DEF LinkInit
  <2>2. /\ lpc = "idle" /\ count = 0 /\ want_dir = FALSE /\ rebooted = FALSE
        /\ before = NoSnap /\ after = NoSnap /\ run = 0 /\ worst_run = 0
    BY DEF LinkInit
  <2>3. before \in Snaps /\ after \in Snaps
    BY <1>1, <2>2
  <2>4. /\ Len(outcomes) <= count /\ run \in Nat /\ worst_run \in Nat
        /\ run <= worst_run /\ worst_run <= Len(outcomes)
    BY <1>2, <2>2
  <2>5. lpc = "idle" /\ count \in Nat /\ want_dir \in BOOLEAN /\ rebooted \in BOOLEAN
    BY <2>2
  <2> QED
    BY <1>2, <2>1, <2>3, <2>4, <2>5 DEF LinkTypes
<1> QED
  BY <1>1, <1>3 DEF LinkInit, LinkInv, Stages, FarKnown

LEMMA StartKeeps == LinkInv /\ LinkStart => LinkInv'
<1> SUFFICES ASSUME LinkInv, LinkStart PROVE LinkInv'
  OBVIOUS
<1>1. LinkTypes /\ Stages /\ lpc = "idle" /\ outcomes = <<>> /\ Len(outcomes) = 0 /\ ~before.ok
  BY DEF LinkInv, LinkStart, Stages
<1>2. count' \in Nat /\ count' # 0 /\ count' + LinkSnapTries + MaxCross < ModProbe
  BY ProbeSizes DEF LinkStart
<1>3. LinkTypes'
  <2>1. /\ farCount' \in [tx : 0 .. ModProbe - 1, rx : 0 .. ModProbe - 1]
        /\ want_dir' \in BOOLEAN /\ lpc' \in {"before", "probe"}
    BY ProbeSizes DEF LinkStart
  <2>2. /\ rebooted \in BOOLEAN /\ before \in Snaps /\ after \in Snaps /\ outcomes \in Seq(Fates)
        /\ run \in Nat /\ worst_run \in Nat /\ run <= worst_run /\ worst_run <= Len(outcomes)
        /\ cross \in 0 .. MaxCross
    BY <1>1 DEF LinkTypes
  <2>3. UNCHANGED <<before, after, outcomes, run, worst_run, cross, rebooted>>
    BY DEF LinkStart
  <2>4. Len(outcomes') <= count'
    BY <1>1, <1>2, <2>3
  <2> QED
    BY <1>2, <2>1, <2>2, <2>3, <2>4 DEF LinkTypes
<1>4. Stages' /\ FarKnown'
  BY <1>1 DEF Stages, FarKnown, LinkStart
<1> QED
  BY <1>3, <1>4 DEF LinkInv

\* The far counters stay in their width, and move on by what is counted.
LEMMA FarAdvances ==
  ASSUME LinkTypes, NEW fate \in Fates
  PROVE  /\ FarAfter(fate) \in [tx : 0 .. ModProbe - 1, rx : 0 .. ModProbe - 1]
         /\ Arrives(fate) \in 0 .. 1 /\ Answered(fate) \in 0 .. 1
         /\ \A a, lo, hi \in Int :
              /\ Ahead(a, farCount.rx, lo, hi)
                 => Ahead(a, FarAfter(fate).rx, lo + Arrives(fate), hi + Arrives(fate))
              /\ Ahead(a, farCount.tx, lo, hi)
                 => Ahead(a, FarAfter(fate).tx, lo + Answered(fate), hi + Answered(fate))
<1>1. farCount.tx \in 0 .. ModProbe - 1 /\ farCount.rx \in 0 .. ModProbe - 1
  BY DEF LinkTypes
<1>2. Arrives(fate) \in 0 .. 1 /\ Answered(fate) \in 0 .. 1
  BY DEF Arrives, Answered
<1>3. \A n \in 0 .. ModProbe - 1 : n % ModProbe = n
  BY OneTurn, ProbeSizes
<1>4. \A n \in Int : n % ModProbe \in 0 .. ModProbe - 1
  BY Divided, ProbeSizes
<1>5. FarAfter(fate) \in [tx : 0 .. ModProbe - 1, rx : 0 .. ModProbe - 1]
  <2>1. farCount.tx + Answered(fate) \in Int /\ farCount.rx + Arrives(fate) \in Int
    BY <1>1, <1>2, ProbeSizes
  <2> QED
    BY <1>4, <2>1 DEF FarAfter
<1>6. ASSUME NEW b \in 0 .. ModProbe - 1, NEW n \in 0 .. 1, NEW a \in Int, NEW lo \in Int, NEW hi \in Int,
             Ahead(a, b, lo, hi)
      PROVE  Ahead(a, (b + n) % ModProbe, lo + n, hi + n)
  <2>1. CASE n = 0
    <3>1. (b + n) % ModProbe = b /\ lo + n = lo /\ hi + n = hi
      <4>1. b + n = b /\ b \in Int
        BY <2>1, ProbeSizes
      <4> QED
        BY <1>3, <2>1, <4>1
    <3> QED
      BY <1>6, <3>1
  <2>2. CASE n = 1
    BY <1>6, <2>2, AheadByOne
  <2> QED
    BY <2>1, <2>2
<1> QED
  BY <1>1, <1>2, <1>5, <1>6 DEF FarAfter

LEMMA SnapType ==
  ASSUME LinkTypes, NEW s \in Snaps, ~Tried(s), NEW fate \in Fates
  PROVE  link_snap(s, fate) \in Snaps /\ link_snap(s, fate).attempts = s.attempts + 1
         /\ link_snap(s, fate).ok = (fate = "ok")
<1>1. s.attempts \in 0 .. LinkSnapTries /\ s.attempts # LinkSnapTries /\ ~s.ok
  BY DEF Tried, Snaps
<1>2. s.attempts + 1 \in 0 .. LinkSnapTries
  BY <1>1, ProbeSizes
<1>3. \A n \in Int : n % ModProbe \in 0 .. ModProbe - 1
  BY Divided, ProbeSizes
<1>4. farCount.tx \in 0 .. ModProbe - 1 /\ farCount.rx \in 0 .. ModProbe - 1
      /\ farCount.rx + 1 \in Int
  BY ProbeSizes DEF LinkTypes
<1>5. (farCount.rx + 1) % ModProbe \in 0 .. ModProbe - 1
  BY <1>3, <1>4
<1>6. CASE fate = "ok"
  BY <1>2, <1>4, <1>5, <1>6 DEF link_snap, Snaps
<1>7. CASE fate # "ok"
  BY <1>1, <1>2, <1>7 DEF link_snap, Snaps
<1> QED
  BY <1>6, <1>7

LEMMA BeforeKeeps == LinkInv /\ SnapBefore => LinkInv'
<1> SUFFICES ASSUME LinkInv, SnapBefore PROVE LinkInv'
  OBVIOUS
<1>1. /\ LinkTypes /\ Stages /\ lpc = "before" /\ ~Tried(before) /\ outcomes = <<>> /\ cross = 0
      /\ after = NoSnap /\ Len(outcomes) = 0
  BY DEF LinkInv, SnapBefore, Stages
<1>2. PICK fate \in Fates : before' = link_snap(before, fate) /\ farCount' = FarAfter(fate)
  BY DEF SnapBefore
<1>3. LinkTypes'
  <2>1. before' \in Snaps
    BY <1>1, <1>2, SnapType DEF LinkTypes
  <2>2. farCount' \in [tx : 0 .. ModProbe - 1, rx : 0 .. ModProbe - 1]
    BY <1>1, <1>2, FarAdvances
  <2> QED
    BY <1>1, <2>1, <2>2 DEF LinkTypes, SnapBefore
<1>4. Stages'
  BY <1>1 DEF Stages, SnapBefore
<1>5. FarKnown'
  <2>1. after' = NoSnap /\ outcomes' = outcomes /\ cross' = 0 /\ lpc' = "before"
    BY <1>1 DEF SnapBefore
  <2>2. Number(Reached)' = 0 /\ Number(Replied)' = 0
    <3>1. \A fates : {k \in 1 .. Len(outcomes') : outcomes'[k] \in fates} = {}
      BY <1>1, <2>1
    <3> QED
      BY <3>1, FS_EmptySet DEF Number
  <2>3. CASE fate = "ok"
    <3>1. /\ before'.tx = farCount.tx /\ before'.rx = (farCount.rx + 1) % ModProbe
          /\ farCount'.tx = (farCount.tx + 1) % ModProbe
          /\ farCount'.rx = (farCount.rx + 1) % ModProbe
      BY <1>2, <2>3 DEF link_snap, FarAfter, Arrives, Answered
    <3>2. before'.rx \in 0 .. ModProbe - 1 /\ before'.tx \in 0 .. ModProbe - 1
      BY <1>3 DEF LinkTypes, Snaps
    <3>3. Ahead(before'.rx, farCount'.rx, 0, 0)
      <4>1. before'.rx \in Int /\ before'.rx \in before'.rx + 0 .. before'.rx + 0
        BY <3>2, ProbeSizes
      <4>2. before'.rx % ModProbe = before'.rx
        BY <3>2, <4>1, OneTurn, ProbeSizes
      <4> QED
        BY <3>1, <4>1, <4>2 DEF Ahead
    <3>4. Ahead(before'.tx, farCount'.tx, 1, 1)
      <4>1. before'.tx + 1 \in before'.tx + 1 .. before'.tx + 1
        BY <3>2, ProbeSizes
      <4> QED
        BY <3>1, <4>1 DEF Ahead
    <3>5. after'.attempts = 0 /\ ~after'.ok
      BY <2>1 DEF NoSnap
    <3>6. CountedOn(farCount, after.attempts, Number(Reached), Number(Replied))'
      BY <2>1, <2>2, <3>3, <3>4, <3>5 DEF CountedOn
    <3> QED
      BY <3>5, <3>6 DEF FarKnown
  <2>4. CASE fate # "ok"
    <3>1. ~before'.ok
      BY <1>1, <1>2, <2>4, SnapType DEF LinkTypes
    <3> QED
      BY <3>1 DEF FarKnown
  <2> QED
    BY <2>3, <2>4
<1> QED
  BY <1>3, <1>4, <1>5 DEF LinkInv

LEMMA BeforeDoneKeeps == LinkInv /\ SnapBeforeDone => LinkInv'
<1> SUFFICES ASSUME LinkInv, SnapBeforeDone PROVE LinkInv'
  OBVIOUS
<1>1. LinkTypes /\ Stages /\ FarKnown /\ lpc = "before" /\ before.ok \in BOOLEAN
  BY DEF LinkInv, LinkTypes, Snaps, SnapBeforeDone
<1>2. /\ lpc' = "probe" /\ want_dir' = before.ok
      /\ UNCHANGED <<count, before, after, outcomes, run, worst_run, farCount, cross, rebooted>>
  BY DEF SnapBeforeDone
<1>3. LinkTypes'
  BY <1>1, <1>2 DEF LinkTypes
<1>4. Stages'
  BY <1>1, <1>2 DEF Stages
<1>5. FarKnown'
  BY <1>1, <1>2 DEF FarKnown, Snapped, CountedOn, Number
<1> QED
  BY <1>3, <1>4, <1>5 DEF LinkInv

LEMMA PingKeeps == LinkInv /\ csp_ping => LinkInv'
<1> SUFFICES ASSUME LinkInv, csp_ping PROVE LinkInv'
  OBVIOUS
<1>1. /\ LinkTypes /\ Stages /\ FarKnown /\ lpc = "probe" /\ Len(outcomes) < count
      /\ after = NoSnap /\ ~NoSnap.ok /\ NoSnap.attempts = 0
      /\ UNCHANGED <<lpc, count, want_dir, before, after, cross, rebooted>>
  BY DEF LinkInv, csp_ping, Stages, NoSnap
<1>2. PICK fate \in Fates :
        /\ outcomes' = Append(outcomes, fate)
        /\ farCount' = FarAfter(fate)
        /\ run' = IF fate = "ok" THEN 0 ELSE run + 1
        /\ worst_run' = IF run' > worst_run THEN run' ELSE worst_run
  BY DEF csp_ping
<1>3. outcomes \in Seq(Fates) /\ Len(outcomes) \in Nat /\ count \in Nat
  BY <1>1 DEF LinkTypes
<1>4. outcomes' \in Seq(Fates) /\ Len(outcomes') = Len(outcomes) + 1
  BY <1>2, <1>3
<1>5. LinkTypes'
  <2>1. farCount' \in [tx : 0 .. ModProbe - 1, rx : 0 .. ModProbe - 1]
    BY <1>1, <1>2, FarAdvances
  <2>2. /\ run' \in Nat /\ worst_run' \in Nat /\ run' <= worst_run'
        /\ worst_run' <= Len(outcomes')
    <3>1. run \in Nat /\ worst_run \in Nat /\ run <= worst_run /\ worst_run <= Len(outcomes)
      BY <1>1 DEF LinkTypes
    <3> QED
      BY <1>2, <1>3, <1>4, <3>1
  <2>3. Len(outcomes') <= count'
    BY <1>1, <1>3, <1>4
  <2> QED
    BY <1>1, <1>4, <2>1, <2>2, <2>3 DEF LinkTypes
<1>6. Stages'
  BY <1>1 DEF Stages
<1>7. FarKnown'
  <2> SUFFICES ASSUME before.ok, ~rebooted
               PROVE  CountedOn(farCount, after.attempts, Number(Reached), Number(Replied))'
    BY <1>1 DEF FarKnown
  <2> DEFINE arr == Number(Reached)
             ans == Number(Replied)
  <2>1. /\ Ahead(before.rx, farCount.rx, arr, arr + cross + 0)
        /\ Ahead(before.tx, farCount.tx, ans + 1, ans + 1 + cross + 0)
    BY <1>1 DEF FarKnown, CountedOn
  <2>2. arr \in Nat /\ ans \in Nat /\ cross \in Nat /\ before.rx \in Int /\ before.tx \in Int
    BY <1>1, <1>3, NumberType, ProbeSizes DEF LinkTypes, Snaps
  <2>3. Number(Reached)' = arr + Arrives(fate) /\ Number(Replied)' = ans + Answered(fate)
    <3>1. (IF fate \in Reached THEN 1 ELSE 0) = Arrives(fate)
      BY DEF Reached, Arrives, Fates
    <3>2. (IF fate \in Replied THEN 1 ELSE 0) = Answered(fate)
      BY DEF Replied, Answered
    <3> QED
      BY <1>2, <1>3, <3>1, <3>2, OneMoreProbe
  <2> HIDE DEF arr, ans
  <2>4. /\ Ahead(before.rx, farCount'.rx, arr + Arrives(fate), arr + cross + 0 + Arrives(fate))
        /\ Ahead(before.tx, farCount'.tx, ans + 1 + Answered(fate), ans + 1 + cross + 0 + Answered(fate))
    BY <1>1, <1>2, <2>1, <2>2, FarAdvances
  <2>5. Arrives(fate) \in Nat /\ Answered(fate) \in Nat
    BY DEF Arrives, Answered
  <2>6. /\ arr + cross + 0 + Arrives(fate) = arr + Arrives(fate) + cross + 0
        /\ ans + 1 + Answered(fate) = ans + Answered(fate) + 1
        /\ ans + 1 + cross + 0 + Answered(fate) = ans + Answered(fate) + 1 + cross + 0
    BY <2>2, <2>5
  <2>7. /\ Ahead(before.rx, farCount'.rx, arr + Arrives(fate), arr + Arrives(fate) + cross + 0)
        /\ Ahead(before.tx, farCount'.tx, ans + Answered(fate) + 1, ans + Answered(fate) + 1 + cross + 0)
    BY <2>4, <2>6
  <2> QED
    BY <1>1, <2>3, <2>7 DEF CountedOn
<1> QED
  BY <1>5, <1>6, <1>7 DEF LinkInv

LEMMA ProbesDoneKeeps == LinkInv /\ ProbesDone => LinkInv'
<1> SUFFICES ASSUME LinkInv, ProbesDone PROVE LinkInv'
  OBVIOUS
<1>1. LinkTypes /\ Stages /\ FarKnown /\ lpc = "probe" /\ after = NoSnap
  BY DEF LinkInv, ProbesDone, Stages
<1>2. /\ lpc' \in {"after", "report"}
      /\ UNCHANGED <<count, want_dir, before, after, outcomes, run, worst_run, farCount, cross, rebooted>>
  BY DEF ProbesDone
<1>3. LinkTypes'
  BY <1>1, <1>2 DEF LinkTypes
<1>4. Stages'
  BY <1>1, <1>2 DEF Stages
<1>5. FarKnown'
  BY <1>1, <1>2 DEF FarKnown, Snapped, CountedOn, Number
<1> QED
  BY <1>3, <1>4, <1>5 DEF LinkInv

LEMMA AfterKeeps == LinkInv /\ SnapAfter => LinkInv'
<1> SUFFICES ASSUME LinkInv, SnapAfter PROVE LinkInv'
  OBVIOUS
<1>1. /\ LinkTypes /\ Stages /\ FarKnown /\ lpc = "after" /\ ~Tried(after) /\ after \in Snaps
      /\ UNCHANGED <<lpc, count, want_dir, before, outcomes, run, worst_run, cross, rebooted>>
  BY DEF LinkInv, LinkTypes, SnapAfter
<1>2. PICK fate \in Fates : after' = link_snap(after, fate) /\ farCount' = FarAfter(fate)
  BY DEF SnapAfter
<1>3. after' \in Snaps /\ after'.attempts = after.attempts + 1 /\ after'.ok = (fate = "ok")
  BY <1>1, <1>2, SnapType
<1>4. LinkTypes'
  <2>1. farCount' \in [tx : 0 .. ModProbe - 1, rx : 0 .. ModProbe - 1]
    BY <1>1, <1>2, FarAdvances
  <2> QED
    BY <1>1, <1>3, <2>1 DEF LinkTypes
<1>5. Stages'
  BY <1>1 DEF Stages
<1>6. FarKnown'
  <2> SUFFICES ASSUME before.ok, ~rebooted PROVE FarKnown'
    BY <1>1 DEF FarKnown
  <2> DEFINE arr == Number(Reached)
             ans == Number(Replied)
             n == after.attempts
  <2>1. Number(Reached)' = arr /\ Number(Replied)' = ans
    BY <1>1 DEF Number
  <2>2. ~after.ok
    BY <1>1 DEF Tried
  <2>3. /\ Ahead(before.rx, farCount.rx, arr, arr + cross + n)
        /\ Ahead(before.tx, farCount.tx, ans + 1, ans + 1 + cross + n)
    BY <1>1, <2>2 DEF FarKnown, CountedOn
  <2>4. /\ arr \in Nat /\ ans \in Nat /\ cross \in Nat /\ n \in Nat
        /\ before.rx \in Int /\ before.tx \in Int
    <3>1. outcomes \in Seq(Fates) /\ before \in Snaps /\ cross \in Nat
      BY <1>1, ProbeSizes DEF LinkTypes
    <3>2. arr \in Nat /\ ans \in Nat
      BY <3>1, NumberType
    <3> QED
      BY <1>1, <3>1, <3>2, ProbeSizes DEF Snaps
  <2> HIDE DEF arr, ans, n
  <2>5. CASE fate = "ok"
    <3>1. after'.tx = farCount.tx /\ after'.rx = (farCount.rx + 1) % ModProbe /\ after'.ok
      BY <1>2, <2>5 DEF link_snap
    <3>2. arr + cross + n \in Int
      BY <2>4
    <3>3. Ahead(before.rx, after'.rx, arr + 1, arr + cross + n + 1)
      BY <2>3, <2>4, <3>1, <3>2, AheadByOne
    <3>4. ans + 1 + cross + n = ans + cross + (n + 1) /\ arr + cross + n + 1 = arr + cross + (n + 1)
      BY <2>4
    <3>5. /\ Ahead(before.rx, after'.rx, arr + 1, arr + cross + (n + 1))
          /\ Ahead(before.tx, after'.tx, ans + 1, ans + cross + (n + 1))
      BY <2>3, <3>1, <3>3, <3>4
    <3>6. after'.attempts = n + 1 /\ n + 1 > 0
      BY <1>3, <2>4 DEF n
    <3>7. Snapped(Number(Reached), Number(Replied))'
      BY <1>1, <2>1, <3>5, <3>6 DEF Snapped
    <3> QED
      BY <3>1, <3>7 DEF FarKnown
  <2>6. CASE fate # "ok"
    <3>1. Arrives(fate) \in 0 .. 1 /\ Answered(fate) \in 0 .. 1
      BY DEF Arrives, Answered
    <3>2. arr + cross + n \in Int /\ ans + 1 + cross + n \in Int /\ ans + 1 \in Int
      BY <2>4
    <3>3. /\ Ahead(before.rx, farCount'.rx, arr + Arrives(fate), arr + cross + n + Arrives(fate))
          /\ Ahead(before.tx, farCount'.tx, ans + 1 + Answered(fate), ans + 1 + cross + n + Answered(fate))
      BY <1>1, <1>2, <2>3, <2>4, <3>2, FarAdvances
    <3>4. /\ arr <= arr + Arrives(fate) /\ ans + 1 <= ans + 1 + Answered(fate)
          /\ arr + cross + n + Arrives(fate) <= arr + cross + (n + 1)
          /\ ans + 1 + cross + n + Answered(fate) <= ans + 1 + cross + (n + 1)
      BY <2>4, <3>1
    <3>5. /\ arr + Arrives(fate) \in Int /\ arr + cross + n + Arrives(fate) \in Int
          /\ ans + 1 + Answered(fate) \in Int /\ ans + 1 + cross + n + Answered(fate) \in Int
          /\ arr + cross + (n + 1) \in Int /\ ans + 1 + cross + (n + 1) \in Int
      BY <2>4, <3>1
    <3>6. Ahead(before.rx, farCount'.rx, arr, arr + cross + (n + 1))
      BY <2>4, <3>3, <3>4, <3>5, AheadWider
    <3>7. Ahead(before.tx, farCount'.tx, ans + 1, ans + 1 + cross + (n + 1))
      BY <2>4, <3>2, <3>3, <3>4, <3>5, AheadWider
    <3>8. after'.attempts = n + 1 /\ ~after'.ok
      BY <1>3, <2>6 DEF n
    <3>9. CountedOn(farCount, after.attempts, Number(Reached), Number(Replied))'
      BY <1>1, <2>1, <3>6, <3>7, <3>8 DEF CountedOn
    <3> QED
      BY <3>8, <3>9 DEF FarKnown
  <2> QED
    BY <2>5, <2>6
<1> QED
  BY <1>4, <1>5, <1>6 DEF LinkInv

LEMMA AfterDoneKeeps == LinkInv /\ SnapAfterDone => LinkInv'
<1> SUFFICES ASSUME LinkInv, SnapAfterDone PROVE LinkInv'
  OBVIOUS
<1>1. LinkTypes /\ Stages /\ FarKnown /\ lpc = "after" /\ lpc' = "report"
      /\ UNCHANGED <<count, want_dir, before, after, outcomes, run, worst_run, farCount, cross, rebooted>>
  BY DEF LinkInv, SnapAfterDone
<1>2. LinkTypes'
  BY <1>1 DEF LinkTypes
<1>3. Stages'
  BY <1>1 DEF Stages
<1>4. FarKnown'
  BY <1>1 DEF FarKnown, Snapped, CountedOn, Number
<1> QED
  BY <1>2, <1>3, <1>4 DEF LinkInv

LEMMA CrossKeeps == LinkInv /\ CrossTraffic => LinkInv'
<1> SUFFICES ASSUME LinkInv, CrossTraffic PROVE LinkInv'
  OBVIOUS
<1>1. /\ LinkTypes /\ Stages /\ FarKnown /\ lpc \in {"probe", "after"} /\ cross < MaxCross
      /\ cross' = cross + 1
      /\ UNCHANGED <<lpc, count, want_dir, before, after, outcomes, run, worst_run, rebooted>>
  BY DEF LinkInv, CrossTraffic
<1>2. /\ farCount.tx \in 0 .. ModProbe - 1 /\ farCount.rx \in 0 .. ModProbe - 1
      /\ farCount \in [tx : 0 .. ModProbe - 1, rx : 0 .. ModProbe - 1]
      /\ outcomes \in Seq(Fates) /\ before \in Snaps /\ after \in Snaps /\ cross \in Nat
  BY <1>1, ProbeSizes DEF LinkTypes
<1>3. /\ (farCount.rx + 1) % ModProbe \in 0 .. ModProbe - 1
      /\ (farCount.tx + 1) % ModProbe \in 0 .. ModProbe - 1
  <2>1. \A x \in Int : x % ModProbe \in 0 .. ModProbe - 1
    BY Divided, ProbeSizes
  <2>2. farCount.rx + 1 \in Int /\ farCount.tx + 1 \in Int
    BY <1>2, ProbeSizes
  <2> QED
    BY <2>1, <2>2
<1>4. \/ farCount' = [farCount EXCEPT !.rx = (farCount.rx + 1) % ModProbe]
      \/ farCount' = [farCount EXCEPT !.tx = (farCount.tx + 1) % ModProbe]
  BY DEF CrossTraffic
<1>5. \/ farCount'.rx = (farCount.rx + 1) % ModProbe /\ farCount'.tx = farCount.tx
      \/ farCount'.rx = farCount.rx /\ farCount'.tx = (farCount.tx + 1) % ModProbe
  BY <1>2, <1>4
<1>6. farCount' \in [tx : 0 .. ModProbe - 1, rx : 0 .. ModProbe - 1]
  BY <1>2, <1>3, <1>4
<1>7. LinkTypes'
  <2>1. cross' \in 0 .. MaxCross
    BY <1>1, <1>2, ProbeSizes
  <2> QED
    BY <1>1, <1>6, <2>1 DEF LinkTypes
<1>8. Stages'
  BY <1>1 DEF Stages
<1>9. FarKnown'
  <2> SUFFICES ASSUME before.ok, ~rebooted PROVE FarKnown'
    BY <1>1 DEF FarKnown
  <2> DEFINE arr == Number(Reached)
             ans == Number(Replied)
             n == after.attempts
             a == before.rx
             b == before.tx
  <2>1. Number(Reached)' = arr /\ Number(Replied)' = ans
    BY <1>1 DEF Number
  <2>2. /\ arr \in Nat /\ ans \in Nat /\ n \in Nat /\ a \in Int /\ b \in Int
    <3>1. arr \in Nat /\ ans \in Nat
      BY <1>2, NumberType
    <3> QED
      BY <1>2, <3>1, ProbeSizes DEF Snaps
  <2>3. before' = before /\ after' = after
    BY <1>1
  <2>4. CASE after.ok
    <3>1. n > 0 /\ Ahead(a, after.rx, arr + 1, arr + cross + n)
          /\ Ahead(b, after.tx, ans + 1, ans + cross + n)
      BY <1>1, <2>4 DEF FarKnown, Snapped
    <3> HIDE DEF arr, ans, n, a, b
    <3>2. /\ arr + cross + n <= arr + cross' + n /\ ans + cross + n <= ans + cross' + n
          /\ {arr + 1, ans + 1, arr + cross + n, ans + cross + n, arr + cross' + n, ans + cross' + n} \subseteq Int
          /\ arr + 1 <= arr + 1 /\ ans + 1 <= ans + 1
      BY <1>1, <1>2, <2>2
    <3>3. Ahead(a, after.rx, arr + 1, arr + cross' + n)
          /\ Ahead(b, after.tx, ans + 1, ans + cross' + n)
      BY <2>2, <3>1, <3>2, AheadWider
    <3>4. Snapped(Number(Reached), Number(Replied))'
      BY <2>1, <2>3, <3>1, <3>3 DEF Snapped, n, a, b
    <3> QED
      BY <2>3, <2>4, <3>4 DEF FarKnown
  <2>5. CASE ~after.ok
    <3>1. Ahead(a, farCount.rx, arr, arr + cross + n)
          /\ Ahead(b, farCount.tx, ans + 1, ans + 1 + cross + n)
      BY <1>1, <2>5 DEF FarKnown, CountedOn
    <3> HIDE DEF arr, ans, n, a, b
    <3>2. /\ {arr, ans + 1, arr + cross + n, ans + 1 + cross + n} \subseteq Int
          /\ {arr + 1, ans + 1 + 1, arr + cross + n + 1, ans + 1 + cross + n + 1} \subseteq Int
          /\ {arr + cross' + n, ans + 1 + cross' + n} \subseteq Int
          /\ arr <= arr /\ arr <= arr + 1 /\ ans + 1 <= ans + 1 /\ ans + 1 <= ans + 1 + 1
          /\ arr + cross + n <= arr + cross' + n /\ ans + 1 + cross + n <= ans + 1 + cross' + n
          /\ arr + cross + n + 1 <= arr + cross' + n
          /\ ans + 1 + cross + n + 1 <= ans + 1 + cross' + n
      BY <1>1, <1>2, <2>2
    <3>3. /\ Ahead(a, (farCount.rx + 1) % ModProbe, arr + 1, arr + cross + n + 1)
          /\ Ahead(b, (farCount.tx + 1) % ModProbe, ans + 1 + 1, ans + 1 + cross + n + 1)
      BY <2>2, <3>1, <3>2, AheadByOne
    <3>4. /\ Ahead(a, farCount.rx, arr, arr + cross' + n)
          /\ Ahead(a, (farCount.rx + 1) % ModProbe, arr, arr + cross' + n)
      BY <2>2, <3>1, <3>2, <3>3, AheadWider
    <3>5. /\ Ahead(b, farCount.tx, ans + 1, ans + 1 + cross' + n)
          /\ Ahead(b, (farCount.tx + 1) % ModProbe, ans + 1, ans + 1 + cross' + n)
      BY <2>2, <3>1, <3>2, <3>3, AheadWider
    <3>6. Ahead(a, farCount'.rx, arr, arr + cross' + n)
          /\ Ahead(b, farCount'.tx, ans + 1, ans + 1 + cross' + n)
      BY <1>5, <3>4, <3>5
    <3>7. CountedOn(farCount, after.attempts, Number(Reached), Number(Replied))'
      BY <2>1, <2>3, <3>6 DEF CountedOn, n, a, b
    <3> QED
      BY <2>3, <2>5, <3>7 DEF FarKnown
  <2> QED
    BY <2>4, <2>5
<1> QED
  BY <1>7, <1>8, <1>9 DEF LinkInv

LEMMA RebootKeeps == LinkInv /\ FarReboot => LinkInv'
<1> SUFFICES ASSUME LinkInv, FarReboot PROVE LinkInv'
  OBVIOUS
<1>1. /\ LinkTypes /\ Stages /\ lpc \in {"probe", "after"} /\ rebooted' = TRUE
      /\ UNCHANGED <<lpc, count, want_dir, before, after, outcomes, run, worst_run, cross>>
  BY DEF LinkInv, FarReboot
<1>2. farCount' \in [tx : 0 .. ModProbe - 1, rx : 0 .. ModProbe - 1]
  BY ProbeSizes DEF FarReboot
<1>3. LinkTypes'
  BY <1>1, <1>2 DEF LinkTypes
<1>4. Stages' /\ FarKnown'
  BY <1>1 DEF Stages, FarKnown
<1> QED
  BY <1>3, <1>4 DEF LinkInv

LEMMA LinkInvNext == LinkInv /\ [LinkNext]_linkVars => LinkInv'
<1> SUFFICES ASSUME LinkInv, [LinkNext]_linkVars PROVE LinkInv'
  OBVIOUS
<1>1. CASE UNCHANGED linkVars
  <2>1. LinkTypes /\ Stages /\ FarKnown
    BY DEF LinkInv
  <2>2. LinkTypes'
    BY <1>1, <2>1 DEF linkVars, LinkTypes
  <2>3. Stages' /\ FarKnown'
    BY <1>1, <2>1 DEF linkVars, Stages, FarKnown, Snapped, CountedOn, Number
  <2> QED
    BY <2>2, <2>3 DEF LinkInv
<1>2. CASE LinkNext
  BY <1>2, StartKeeps, BeforeKeeps, BeforeDoneKeeps, PingKeeps, ProbesDoneKeeps, AfterKeeps,
     AfterDoneKeeps, CrossKeeps, RebootKeeps DEF LinkNext
<1> QED
  BY <1>1, <1>2

LEMMA LinkInvHolds == LinkSpec => []LinkInv
  BY LinkInvInit, LinkInvNext, PTL DEF LinkSpec

-----------------------------------------------------------------------------
(* What is printed                                                         *)

LEMMA ClampedIn ==
  ASSUME NEW x \in Int, NEW low \in Int, NEW high \in Int, low <= high
  PROVE  Clamped(x, low, high) \in low .. high
  BY DEF Clamped

LEMMA SplitBounds ==
  ASSUME LinkInv, Split
  PROVE  /\ RawArrived \in Int /\ RawReplies \in Int /\ after.attempts \in Nat
         /\ cross \in Nat /\ count \in Nat \ {0}
         /\ ok \in Nat /\ AnsweredTruly \in Nat /\ ArrivedTruly \in Nat
         /\ ok <= AnsweredTruly /\ AnsweredTruly <= ArrivedTruly /\ ArrivedTruly <= count
         /\ ~rebooted =>
              /\ after.attempts >= 1
              /\ RawArrived \in ArrivedTruly + 1 - after.attempts .. ArrivedTruly + cross
              /\ RawReplies \in AnsweredTruly + 1 - after.attempts .. AnsweredTruly + cross
<1>1. /\ FarKnown /\ before.ok /\ after.ok /\ lpc = "report"
      /\ outcomes \in Seq(Fates) /\ before \in Snaps /\ after \in Snaps /\ cross \in Nat
      /\ cross <= MaxCross
      /\ count \in Nat \ {0} /\ Len(outcomes) <= count
      /\ count + LinkSnapTries + MaxCross < ModProbe
  BY ProbeSizes DEF LinkInv, LinkTypes, Stages, Split
<1>2. /\ before.rx \in 0 .. ModProbe - 1 /\ before.tx \in 0 .. ModProbe - 1
      /\ after.rx \in 0 .. ModProbe - 1 /\ after.tx \in 0 .. ModProbe - 1
      /\ after.attempts \in Nat /\ after.attempts <= LinkSnapTries
  BY <1>1, ProbeSizes DEF Snaps
<1> DEFINE up   == (after.rx - before.rx) % ModProbe
           down == (after.tx - before.tx) % ModProbe
           n    == after.attempts
           arr  == Number(Reached)
           ans  == Number(Replied)
<1>3. RawArrived = up - n /\ RawReplies = down - n /\ ArrivedTruly = arr /\ AnsweredTruly = ans
  BY DEF RawArrived, RawReplies, ArrivedTruly, AnsweredTruly, Reached, Replied
<1>4. up \in Int /\ down \in Int
  <2>1. \A x \in Int : x % ModProbe \in Int
    BY Divided, ProbeSizes
  <2>2. after.rx - before.rx \in Int /\ after.tx - before.tx \in Int
    BY <1>2, ProbeSizes
  <2> QED
    BY <2>1, <2>2
<1>5. /\ ok \in Nat /\ ans \in Nat /\ arr \in Nat /\ ok <= ans /\ ans <= arr /\ arr <= count
  <2>1. Len(outcomes) \in Nat
    BY <1>1
  <2>2. /\ Number({"ok"}) \in 0 .. Len(outcomes) /\ ans \in 0 .. Len(outcomes)
        /\ arr \in 0 .. Len(outcomes)
        /\ Number({"ok"}) <= ans /\ ans <= arr
    BY <1>1, NumberType
  <2> HIDE DEF ans, arr
  <2> QED
    BY <1>1, <2>1, <2>2 DEF ok
<1>6. ASSUME ~rebooted
      PROVE  n >= 1 /\ up \in arr + 1 .. arr + cross + n /\ down \in ans + 1 .. ans + cross + n
  <2>1. /\ n > 0 /\ Ahead(before.rx, after.rx, arr + 1, arr + cross + n)
        /\ Ahead(before.tx, after.tx, ans + 1, ans + cross + n)
    BY <1>1, <1>6 DEF FarKnown, Snapped
  <2>2. n \in Nat /\ n <= LinkSnapTries
    BY <1>2
  <2> HIDE DEF n, arr, ans
  <2>3. /\ arr + 1 \in Nat /\ arr + cross + n \in Nat /\ arr + cross + n < ModProbe
        /\ ans + 1 \in Nat /\ ans + cross + n \in Nat /\ ans + cross + n < ModProbe
    BY <1>1, <1>5, <2>2, ProbeSizes
  <2>4. up \in arr + 1 .. arr + cross + n /\ down \in ans + 1 .. ans + cross + n
    BY <1>2, <2>1, <2>3, AheadMinus
  <2> QED
    BY <2>1, <2>2, <2>4
<1>7. n \in Nat
  BY <1>2
<1> HIDE DEF up, down, n, arr, ans
<1>8. /\ up - n \in Int /\ down - n \in Int
      /\ ~rebooted => /\ n >= 1 /\ up - n \in arr + 1 - n .. arr + cross
                      /\ down - n \in ans + 1 - n .. ans + cross
  BY <1>1, <1>4, <1>5, <1>6, <1>7
<1> QED
  BY <1>1, <1>3, <1>5, <1>7, <1>8 DEF n

LEMMA SplitIsRight == LinkInv => DirectionSplit
<1> SUFFICES ASSUME LinkInv, Split
             PROVE
               /\ ok <= repliesShown /\ repliesShown <= arrivedShown /\ arrivedShown <= count
               /\ ~rebooted =>
                    /\ arrivedShown - ArrivedTruly \in 1 - after.attempts .. cross
                    /\ repliesShown - AnsweredTruly \in 1 - after.attempts .. cross
               /\ ~rebooted /\ cross = 0 /\ after.attempts = 1 =>
                    /\ approx => before.attempts > 1
                    /\ ok = 0 => /\ Blackout = "downlink" <=> ArrivedTruly = count
                                 /\ Blackout = "uplink" <=> ArrivedTruly = 0
  BY DEF DirectionSplit
<1> DEFINE raw  == RawArrived
           rawr == RawReplies
           n    == after.attempts
           arr  == ArrivedTruly
           ans  == AnsweredTruly
           s    == arrivedShown
           t    == repliesShown
           o    == ok
<1>1. /\ raw \in Int /\ rawr \in Int /\ n \in Nat /\ cross \in Nat /\ count \in Nat \ {0}
      /\ o \in Nat /\ ans \in Nat /\ arr \in Nat /\ o <= ans /\ ans <= arr /\ arr <= count
      /\ ~rebooted => n >= 1 /\ raw \in arr + 1 - n .. arr + cross /\ rawr \in ans + 1 - n .. ans + cross
  BY SplitBounds
<1>2. s = Clamped(raw, o, count) /\ t = Clamped(rawr, o, s)
  BY DEF arrivedShown, repliesShown, UpperReplies
<1>3. approx <=> n > 1 \/ before.attempts > 1 \/ s # raw \/ t # rawr
  BY DEF approx
<1>4. Blackout = IF raw >= count THEN "downlink" ELSE IF raw <= 0 THEN "uplink" ELSE "both"
  BY DEF Blackout
<1> HIDE DEF raw, rawr, n, arr, ans, s, t, o
<1>5. s \in o .. count /\ s \in Int
  <2>1. o \in Int /\ count \in Int /\ o <= count
    BY <1>1
  <2>2. s \in o .. count
    BY <1>1, <1>2, <2>1, ClampedIn
  <2> QED
    BY <2>1, <2>2
<1>6. t \in o .. s /\ t \in Int
  <2>1. o \in Int /\ o <= s
    BY <1>1, <1>5
  <2>2. t \in o .. s
    BY <1>1, <1>2, <1>5, <2>1, ClampedIn
  <2> QED
    BY <1>5, <2>1, <2>2
<1>7. ASSUME ~rebooted PROVE s - arr \in 1 - n .. cross /\ t - ans \in 1 - n .. cross
  <2>1. s \in arr + 1 - n .. arr + cross
    BY <1>1, <1>2, <1>7 DEF Clamped
  <2>2. t \in ans + 1 - n .. ans + cross
    BY <1>1, <1>2, <1>5, <1>7, <2>1 DEF Clamped
  <2> QED
    BY <1>1, <1>5, <1>6, <2>1, <2>2
<1>8. ASSUME ~rebooted, cross = 0, n = 1
      PROVE  /\ approx => before.attempts > 1
             /\ o = 0 => /\ Blackout = "downlink" <=> arr = count
                         /\ Blackout = "uplink" <=> arr = 0
  <2>1. raw = arr /\ rawr = ans
    BY <1>1, <1>8
  <2>2. s = raw /\ t = rawr
    BY <1>1, <1>2, <2>1 DEF Clamped
  <2>3. CASE arr >= count
    BY <1>1, <1>3, <1>4, <1>8, <2>1, <2>2, <2>3
  <2>4. CASE arr < count
    BY <1>1, <1>3, <1>4, <1>8, <2>1, <2>2, <2>4
  <2> QED
    BY <1>1, <2>3, <2>4
<1>9. o <= t /\ t <= s /\ s <= count
  BY <1>1, <1>5, <1>6
<1> QED
  BY <1>7, <1>8, <1>9 DEF n, arr, ans, s, t, o

\* The link test's type invariant.
THEOREM LinkTypesHold == LinkSpec => []LinkTypeOK
<1>1. LinkInv => LinkTypeOK
  <2> SUFFICES ASSUME LinkInv PROVE LinkTypeOK
    OBVIOUS
  <2>1. LinkTypes /\ Len(outcomes) \in Nat
    BY DEF LinkInv, LinkTypes
  <2> QED
    BY <2>1 DEF LinkTypes, LinkTypeOK, Snaps
<1> QED
  BY <1>1, LinkInvHolds, PTL

\* Whatever the width of the far counters and the number of probes and of tries: the split
\* csp_link test prints is off by no more than the tries and the packets of others, and
\* exact, unmarked and with the right verdict when there are none.
THEOREM SplitHolds == LinkSpec => []DirectionSplit
  BY SplitIsRight, LinkInvHolds, PTL

-----------------------------------------------------------------------------
(* The round-trip ring                                                     *)

RttSpec == RttInit /\ [][RttNext]_rttVars

Slots    == [seq : 0 .. RttSpace - 1, t : 0 .. TimeSpace - 1, valid : BOOLEAN]
Recorded == [from : Ends, pkt : Nat, at : Nat]
Paired   == [entry : Nat, by : Ends, acked : Int, at : Nat, rtt : Int]

RttTypes ==
  /\ ring \in [0 .. Ring - 1 -> Slots]
  /\ head = Len(tape)
  /\ tape \in Seq(Recorded) /\ pairs \in Seq(Paired)
  /\ iss \in [Ends -> 0 .. RttSpace - 1]
  /\ sent \in [Ends -> Nat] /\ got \in [Ends -> Nat]
  /\ now \in Nat

\* Of either end, packets are received after they were sent and recorded after that;
\* "b" sends nothing before the SYN is there, and "a" only the SYN before its answer.
Handshake ==
  /\ \A e \in Ends : got[Peer(e)] <= sent[e]
  /\ \A i \in 1 .. Len(tape) : tape[i].pkt < sent[tape[i].from] /\ tape[i].at <= now
  /\ got["b"] = 0 => sent["b"] = 0
  /\ got["a"] = 0 => sent["a"] <= 1

\* The values of head the ring still holds when it is h.
Window(h) == (IF h > Ring THEN h - Ring ELSE 0) .. h - 1

\* A slot is what was recorded last in it, valid until a pair has used it.
SlotHolds(s, d, used) ==
  /\ s.seq = Seq16(d.from, d.pkt) /\ s.t = d.at % TimeSpace
  /\ s.valid <=> ~used

Used(ps, n) == \E j \in 1 .. Len(ps) : ps[j].entry = n

RingHolds(r, tp, ps) ==
  \A n \in Window(Len(tp)) : SlotHolds(r[n % Ring], tp[n + 1], Used(ps, n + 1))

Ordered ==
  \A i \in 1 .. Len(pairs) : pairs[i].entry \in 1 .. Len(tape) /\ pairs[i].at <= now

RttInv ==
  /\ RttTypes
  /\ Handshake
  /\ RingHolds(ring, tape, pairs)
  /\ Ordered
  /\ PairsAreGenuine

LEMMA RttSizes ==
  /\ Ring \in Nat \ {0} /\ RttSpace \in Nat \ {0, 1} /\ TimeSpace \in Nat \ {0}
  /\ Pauses \subseteq Nat /\ Isses \subseteq [Ends -> 0 .. RttSpace - 1]
  BY RttAssumption DEF Ends

LEMMA PeerOf ==
  /\ \A e \in Ends : Peer(e) \in Ends /\ Peer(e) # e /\ Peer(Peer(e)) = e
  /\ "a" \in Ends /\ "b" \in Ends /\ Peer("a") = "b" /\ Peer("b") = "a"
  BY DEF Ends, Peer

LEMMA SeqType ==
  ASSUME RttTypes, NEW e \in Ends, NEW k \in Int
  PROVE  Seq16(e, k) \in 0 .. RttSpace - 1 /\ iss[e] + k \in Int
<1>1. iss[e] \in Int
  BY DEF RttTypes
<1> QED
  BY <1>1, RttSizes DEF Seq16

\* NumbersApart, when the ends have sent what s says.
ApartIn(s) ==
  /\ iss["a"] # 0
  /\ \A j \in 0 .. s["a"] - 1, k \in 0 .. s["b"] - 1 : Seq16("a", j) # Seq16("b", k)

\* As long as the numbers of the directions do not meet, neither end has gone round.
LEMMA NoTurn ==
  ASSUME RttTypes, NEW s \in [Ends -> Nat], ApartIn(s), NEW e \in Ends, s[Peer(e)] # 0
  PROVE  s[e] < RttSpace
<1> DEFINE p == Peer(e)
<1>1. p \in Ends /\ Peer(p) = e
  BY PeerOf
<1> HIDE DEF p
<1>2. iss[e] \in 0 .. RttSpace - 1 /\ iss[p] \in 0 .. RttSpace - 1 /\ s[e] \in Nat /\ s[p] \in Nat
  BY <1>1 DEF RttTypes
<1>iss. iss[p] % RttSpace = iss[p]
  <2>1. iss[p] \in Int
    BY <1>2
  <2> QED
    BY <1>2, <2>1, RttSizes, OneTurn
<1>3. \A j \in 0 .. s[e] - 1, k \in 0 .. s[p] - 1 : Seq16(e, j) # Seq16(p, k)
  <2>1. \A j \in 0 .. s["a"] - 1, k \in 0 .. s["b"] - 1 : Seq16("a", j) # Seq16("b", k)
    BY DEF ApartIn
  <2>2. CASE e = "a" /\ p = "b"
    BY <2>1, <2>2
  <2>3. CASE e = "b" /\ p = "a"
    BY <2>1, <2>3
  <2> QED
    BY <2>2, <2>3, PeerOf DEF Ends, p
<1> SUFFICES ASSUME s[e] >= RttSpace PROVE FALSE
  BY <1>2, RttSizes
<1>4. PICK j \in 0 .. RttSpace - 1 : j = IF iss[p] >= iss[e] THEN iss[p] - iss[e]
                                      ELSE iss[p] - iss[e] + RttSpace
  <2>1. CASE iss[p] >= iss[e]
    BY <2>1, <1>2, RttSizes
  <2>2. CASE iss[p] < iss[e]
    BY <2>2, <1>2, RttSizes
  <2> QED
    BY <2>1, <2>2, <1>2
<1>5. (iss[e] + j) % RttSpace = iss[p]
  <2>1. CASE iss[p] >= iss[e]
    <3>1. iss[e] + j = iss[p]
      BY <2>1, <1>2, <1>4
    <3> QED
      BY <3>1, <1>iss
  <2>2. CASE iss[p] < iss[e]
    <3>1. iss[e] + j = iss[p] + RttSpace
      BY <2>2, <1>2, <1>4, RttSizes
    <3> DEFINE x == iss[e] + j
    <3>2. x \in RttSpace .. 2 * RttSpace - 1 /\ x \in Int /\ x - RttSpace = iss[p]
      BY <3>1, <1>2, RttSizes
    <3> HIDE DEF x
    <3>3. x % RttSpace = x - RttSpace
      BY <3>2, RttSizes, OneTurn
    <3> QED
      BY <3>2, <3>3 DEF x
  <2> QED
    BY <2>1, <2>2, <1>2
<1>6. (iss[p] + 0) % RttSpace = iss[p]
  <2>1. iss[p] + 0 = iss[p]
    BY <1>2
  <2> QED
    BY <2>1, <1>iss
<1>7. j \in 0 .. s[e] - 1 /\ 0 \in 0 .. s[p] - 1
  BY <1>2, <1>4, RttSizes DEF p
<1> QED
  BY <1>3, <1>5, <1>6, <1>7 DEF Seq16

\* So that a number names one packet.
LEMMA OnePacket ==
  ASSUME RttTypes, NEW s \in [Ends -> Nat], ApartIn(s),
         NEW e \in Ends, NEW f \in Ends, s[Peer(f)] # 0,
         NEW k \in 0 .. s[e] - 1, NEW q \in 0 .. s[f] - 1, Seq16(e, k) = Seq16(f, q)
  PROVE  e = f /\ k = q
<1>1. e = f
  <2>1. \A j \in 0 .. s["a"] - 1, i \in 0 .. s["b"] - 1 : Seq16("a", j) # Seq16("b", i)
    BY DEF ApartIn
  <2> QED
    BY <2>1 DEF Ends
<1>2. s[f] < RttSpace /\ s[f] \in Nat /\ iss[f] \in Int
  <2>1. s[f] < RttSpace
    BY NoTurn
  <2>2. iss[f] \in 0 .. RttSpace - 1
    BY DEF RttTypes
  <2> QED
    BY <2>1, <2>2
<1>3. k < RttSpace /\ q < RttSpace /\ k \in Nat /\ q \in Nat
  <2>1. k \in 0 .. s[f] - 1
    BY <1>1
  <2> QED
    BY <1>2, <2>1, RttSizes
<1>4. (iss[f] + k) % RttSpace = (iss[f] + q) % RttSpace
  BY <1>1 DEF Seq16
<1>5. iss[f] + k = iss[f] + q
  <2>1. iss[f] + k \in Int /\ iss[f] + q \in Int
    BY <1>2, <1>3
  <2>2. (iss[f] + k) - (iss[f] + q) < RttSpace /\ (iss[f] + q) - (iss[f] + k) < RttSpace
    BY <1>2, <1>3, RttSizes
  <2> QED
    BY <1>4, <2>1, <2>2, RttSizes, Apart
<1> QED
  BY <1>1, <1>2, <1>3, <1>5

-----------------------------------------------------------------------------
(* What the ring holds                                                     *)

\* No two values of head in the window use the same slot.
LEMMA OneSlot ==
  ASSUME NEW h \in Nat, NEW n \in Window(h), NEW m \in Window(h), n % Ring = m % Ring
  PROVE  n = m
<1>1. n \in Int /\ m \in Int /\ n - m < Ring /\ m - n < Ring
  BY RttSizes DEF Window
<1> QED
  BY <1>1, RttSizes, Apart

LEMMA InWindow ==
  ASSUME NEW h \in Nat, NEW n \in Window(h)
  PROVE  n \in Nat /\ n < h /\ n + 1 \in 1 .. h /\ n % Ring \in 0 .. Ring - 1
<1>1. n \in Nat /\ n < h
  BY RttSizes DEF Window
<1> QED
  BY <1>1, RttSizes

\* ci_rtt_on_data overwrites the oldest slot.
LEMMA RecordKeeps ==
  ASSUME RttTypes, RingHolds(ring, tape, pairs), Ordered, NEW e \in Ends, NEW k \in Nat
  PROVE  /\ ci_rtt_on_data(ring, Seq16(e, k)) \in [0 .. Ring - 1 -> Slots]
         /\ RingHolds(ci_rtt_on_data(ring, Seq16(e, k)),
                      Append(tape, [from |-> e, pkt |-> k, at |-> now]), pairs)
<1> DEFINE d == [from |-> e, pkt |-> k, at |-> now]
           s == [seq |-> Seq16(e, k), t |-> now % TimeSpace, valid |-> TRUE]
           r == [ring EXCEPT ![head % Ring] = s]
           tp == Append(tape, d)
<1>1. ci_rtt_on_data(ring, Seq16(e, k)) = r
  BY DEF ci_rtt_on_data
<1>2. head \in Nat /\ head = Len(tape) /\ tape \in Seq(Recorded) /\ d \in Recorded
  BY DEF RttTypes, Recorded
<1>3. /\ Len(tp) = head + 1 /\ tp[head + 1] = d
      /\ \A i \in 1 .. head : tp[i] = tape[i]
  <2> HIDE DEF d
  <2> QED
    BY <1>2
<1>4. head % Ring \in 0 .. Ring - 1
  BY <1>2, RttSizes
<1>5. s \in Slots
  <2>1. now % TimeSpace \in 0 .. TimeSpace - 1
    BY RttSizes DEF RttTypes
  <2> QED
    BY <2>1, SeqType DEF Slots
<1>6. r \in [0 .. Ring - 1 -> Slots] /\ r[head % Ring] = s
      /\ \A i \in 0 .. Ring - 1 : i # head % Ring => r[i] = ring[i]
  <2> HIDE DEF s
  <2> QED
    BY <1>4, <1>5 DEF RttTypes
<1>7. ASSUME NEW n \in Window(head + 1)
      PROVE  SlotHolds(r[n % Ring], tp[n + 1], Used(pairs, n + 1))
  <2>1. CASE n = head
    <3>1. ~Used(pairs, n + 1)
      BY <1>2, <2>1 DEF Used, Ordered
    <3>2. r[n % Ring] = s /\ tp[n + 1] = d
      BY <1>3, <1>6, <2>1
    <3> HIDE DEF r, tp
    <3> QED
      BY <3>1, <3>2 DEF SlotHolds
  <2>2. CASE n # head
    <3>1. n \in Window(head) /\ head \in Window(head + 1)
      BY <1>2, <2>2, RttSizes DEF Window
    <3>2. n % Ring # head % Ring
      BY <3>1, <2>2, <1>2, OneSlot
    <3>3. n \in Nat /\ n + 1 \in 1 .. head /\ n % Ring \in 0 .. Ring - 1
      BY <3>1, <1>2, InWindow
    <3>4. r[n % Ring] = ring[n % Ring] /\ tp[n + 1] = tape[n + 1]
      BY <3>2, <3>3, <1>3, <1>6
    <3> HIDE DEF r, tp
    <3> QED
      BY <3>1, <3>4, <1>2 DEF RingHolds
  <2> QED
    BY <2>1, <2>2
<1> HIDE DEF r, tp
<1>8. RingHolds(r, tp, pairs)
  BY <1>3, <1>7 DEF RingHolds
<1> QED
  BY <1>1, <1>6, <1>8 DEF tp

\* A pair uses the slot up.
LEMMA ConsumeKeeps ==
  ASSUME NEW r \in [0 .. Ring - 1 -> Slots], NEW tp \in Seq(Recorded), NEW ps \in Seq(Paired),
         RingHolds(r, tp, ps), NEW n \in Window(Len(tp)), NEW p \in Paired, p.entry = n + 1
  PROVE  /\ Consumed(r, n) \in [0 .. Ring - 1 -> Slots]
         /\ RingHolds(Consumed(r, n), tp, Append(ps, p))
<1>1. Len(tp) \in Nat /\ n \in Nat /\ n % Ring \in 0 .. Ring - 1
  BY InWindow
<1> DEFINE c == Consumed(r, n)
           qs == Append(ps, p)
<1>2. /\ c \in [0 .. Ring - 1 -> Slots]
      /\ c[n % Ring] = [r[n % Ring] EXCEPT !.valid = FALSE]
      /\ \A i \in 0 .. Ring - 1 : i # n % Ring => c[i] = r[i]
  <2>1. r[n % Ring] \in Slots
    BY <1>1
  <2>2. [r[n % Ring] EXCEPT !.valid = FALSE] \in Slots
    BY <2>1 DEF Slots
  <2> QED
    BY <1>1, <2>2 DEF Consumed
<1>3. Len(qs) = Len(ps) + 1 /\ qs[Len(ps) + 1] = p /\ \A j \in 1 .. Len(ps) : qs[j] = ps[j]
  OBVIOUS
<1>4. \A m \in Nat : Used(qs, m + 1) <=> m = n \/ Used(ps, m + 1)
  <2> SUFFICES ASSUME NEW m \in Nat PROVE Used(qs, m + 1) <=> m = n \/ Used(ps, m + 1)
    OBVIOUS
  <2>1. p.entry = m + 1 <=> m = n
    BY <1>1
  <2>2. Used(qs, m + 1) <=> qs[Len(ps) + 1].entry = m + 1 \/ \E j \in 1 .. Len(ps) : qs[j].entry = m + 1
    <3> HIDE DEF qs
    <3>1. Len(ps) \in Nat
      OBVIOUS
    <3> QED
      BY <1>3, <3>1 DEF Used
  <2> HIDE DEF qs
  <2> QED
    BY <2>1, <2>2, <1>3 DEF Used
<1> HIDE DEF c, qs
<1>5. ASSUME NEW m \in Window(Len(tp))
      PROVE  SlotHolds(c[m % Ring], tp[m + 1], Used(qs, m + 1))
  <2>1. SlotHolds(r[m % Ring], tp[m + 1], Used(ps, m + 1))
    BY DEF RingHolds
  <2>2. m \in Nat /\ m % Ring \in 0 .. Ring - 1
    BY <1>1, InWindow
  <2>3. CASE m = n
    <3>1. /\ c[m % Ring].seq = r[m % Ring].seq /\ c[m % Ring].t = r[m % Ring].t
          /\ c[m % Ring].valid = FALSE
      BY <1>1, <1>2, <2>3 DEF Slots
    <3>2. Used(qs, m + 1)
      BY <1>4, <2>2, <2>3
    <3> QED
      BY <2>1, <3>1, <3>2 DEF SlotHolds
  <2>4. CASE m # n
    <3>1. m % Ring # n % Ring
      BY <2>4, <1>1, OneSlot
    <3>2. c[m % Ring] = r[m % Ring]
      BY <3>1, <2>2, <1>2
    <3>3. Used(qs, m + 1) <=> Used(ps, m + 1)
      BY <1>4, <2>2, <2>4
    <3> QED
      BY <2>1, <3>2, <3>3 DEF SlotHolds
  <2> QED
    BY <2>3, <2>4
<1> QED
  BY <1>2, <1>5 DEF RingHolds, c, qs

-----------------------------------------------------------------------------
(* What a look-up finds                                                    *)

\* A set of numbers below h that is not empty has a greatest one.
LEMMA Greatest ==
  ASSUME NEW h \in Nat, NEW S \in SUBSET (0 .. h - 1), S # {}
  PROVE  Newest(S) \in S /\ \A m \in S : m <= Newest(S)
<1> DEFINE T == {x \in Nat : h - x \in S}
<1>1. T \subseteq Nat /\ T # {}
  <2>1. PICK m \in S : m \in 0 .. h - 1
    OBVIOUS
  <2>2. h - m \in Nat /\ h - (h - m) = m
    BY <2>1
  <2> QED
    BY <2>2
<1>2. PICK x \in T : \A y \in T : ~(<<y, x>> \in OpToRel(<, Nat))
  BY <1>1, NatLessThanWellFounded, WFMin
<1>3. \A y \in T : ~(y < x)
  BY <1>1, <1>2 DEF OpToRel
<1>4. h - x \in S /\ \A m \in S : m <= h - x
  <2>1. x \in Nat /\ h - x \in S
    BY <1>2
  <2>2. ASSUME NEW m \in S PROVE m <= h - x
    <3>1. m \in 0 .. h - 1
      OBVIOUS
    <3>2. h - m \in Nat /\ h - (h - m) = m
      BY <3>1
    <3>3. h - m \in T
      BY <3>2
    <3>4. ~(h - m < x)
      BY <1>3, <3>3
    <3> QED
      BY <2>1, <3>1, <3>4
  <2> QED
    BY <2>1, <2>2
<1> QED
  BY <1>4 DEF Newest

\* An entry that has the number a frame of e acknowledges is the packet it acknowledges.
LEMMA MatchIsAcked ==
  ASSUME RttTypes, NEW s \in [Ends -> Nat], ApartIn(s), NEW e \in Ends, s[e] # 0,
         got[e] <= s[Peer(e)], NEW d \in Recorded, d.pkt < s[d.from],
         got[e] = 0 => d.from = "a" /\ d.pkt = 0,
         Seq16(d.from, d.pkt) = Ack(e)
  PROVE  d.from = Peer(e) /\ d.pkt = got[e] - 1
<1>1. d.from \in Ends /\ d.pkt \in Nat /\ got[e] \in Nat /\ s[d.from] \in Nat
  BY DEF Recorded, RttTypes
<1>2. got[e] # 0
  <2> SUFFICES ASSUME got[e] = 0 PROVE FALSE
    OBVIOUS
  <2>1. Seq16("a", 0) = 0
    BY DEF Ack
  <2>2. iss["a"] \in 0 .. RttSpace - 1 /\ iss["a"] + 0 = iss["a"] /\ iss["a"] \in Int
    BY PeerOf DEF RttTypes
  <2>3. iss["a"] % RttSpace = iss["a"]
    BY <2>2, RttSizes, OneTurn
  <2> QED
    BY <2>1, <2>2, <2>3 DEF Seq16, ApartIn
<1>3. Seq16(d.from, d.pkt) = Seq16(Peer(e), got[e] - 1)
  BY <1>2 DEF Ack
<1>4. Peer(e) \in Ends /\ Peer(Peer(e)) = e /\ s[Peer(e)] \in Nat
  BY PeerOf
<1>5. d.pkt \in 0 .. s[d.from] - 1 /\ got[e] - 1 \in 0 .. s[Peer(e)] - 1
  BY <1>1, <1>2, <1>4
<1> QED
  BY <1>1, <1>3, <1>4, <1>5, OnePacket

\* The clock's difference is the time that has passed, if it has not gone round since.
LEMMA Elapsed ==
  ASSUME NEW d \in Nat \ {0}, NEW t \in Nat, NEW u \in Nat, t <= u, u - t < d
  PROVE  (u - (t % d)) % d = u - t
<1>1. t \div d \in Int /\ t % d \in 0 .. d - 1 /\ t = d * (t \div d) + (t % d)
  BY Divided
<1>2. u - (t % d) \in Int
  BY <1>1
<1>3. /\ (u - (t % d)) \div d \in Int /\ (u - (t % d)) % d \in 0 .. d - 1
      /\ u - (t % d) = d * ((u - (t % d)) \div d) + ((u - (t % d)) % d)
  BY <1>2, Divided
<1> DEFINE q == t \div d
           r == t % d
           p == (u - (t % d)) \div d
           x == (u - (t % d)) % d
<1> HIDE DEF q, r, p, x
<1>4. /\ q \in Int /\ r \in 0 .. d - 1 /\ t = d * q + r
      /\ p \in Int /\ x \in 0 .. d - 1 /\ u - r = d * p + x
  BY <1>1, <1>3 DEF q, r, p, x
<1>5. x - (u - t) = d * (q - p)
  BY <1>4
<1>6. x - (u - t) < d /\ (u - t) - x < d
  BY <1>4
<1>7. ~(q - p >= 1)
  BY <1>4, <1>5, <1>6
<1>8. ~(p - q >= 1)
  BY <1>4, <1>5, <1>6
<1>9. q = p
  BY <1>4, <1>7, <1>8
<1> QED
  BY <1>4, <1>9 DEF x

\* PairsAreGenuine of one pair.
Genuine(i, ps, tp) ==
  LET p == ps[i]
      d == tp[p.entry]
  IN /\ d.from = Peer(p.by) /\ d.pkt = p.acked
     /\ p.at - d.at < TimeSpace => p.rtt = p.at - d.at
     /\ \A j \in 1 .. i - 1 : ps[j].entry # p.entry
     /\ \A n \in p.entry + 1 .. Len(tp) :
          tp[n].from = d.from /\ tp[n].pkt = d.pkt /\ tp[n].at < p.at
          => \E j \in 1 .. i - 1 : ps[j].entry = n

\* It says nothing of later pairs.
LEMMA GenuineAgain ==
  ASSUME NEW ps, NEW qs, NEW tp, NEW i, qs[i] = ps[i], \A j \in 1 .. i - 1 : qs[j] = ps[j],
         Genuine(i, ps, tp)
  PROVE  Genuine(i, qs, tp)
  BY DEF Genuine

LEMMA GenuinePairs ==
  PairsAreGenuine <=> (ApartIn(sent) => \A i \in 1 .. Len(pairs) : Genuine(i, pairs, tape))
  BY DEF PairsAreGenuine, NumbersApart, ApartIn, Genuine

\* What is recorded or paired later does not spoil it.
LEMMA GenuineStays ==
  ASSUME RttTypes, Ordered, NEW tp \in Seq(Recorded), NEW ps \in Seq(Paired),
         Len(tape) <= Len(tp), \A n \in 1 .. Len(tape) : tp[n] = tape[n],
         \A n \in Len(tape) + 1 .. Len(tp) : tp[n].at = now,
         Len(pairs) <= Len(ps), \A j \in 1 .. Len(pairs) : ps[j] = pairs[j],
         NEW i \in 1 .. Len(pairs), Genuine(i, pairs, tape)
  PROVE  Genuine(i, ps, tp)
<1>1. Len(tape) \in Nat /\ Len(tp) \in Nat /\ Len(pairs) \in Nat /\ pairs[i] \in Paired
  BY DEF RttTypes
<1>2. ps[i] = pairs[i] /\ \A j \in 1 .. i - 1 : ps[j] = pairs[j]
  BY <1>1
<1> DEFINE p == pairs[i]
           d == tape[p.entry]
<1> HIDE DEF p, d
<1>3. p.entry \in 1 .. Len(tape) /\ p.entry \in Nat /\ p.at \in Nat /\ p.at <= now /\ now \in Nat
  BY <1>1 DEF Ordered, Paired, RttTypes, p
<1>4. /\ d.from = Peer(p.by) /\ d.pkt = p.acked
      /\ p.at - d.at < TimeSpace => p.rtt = p.at - d.at
      /\ \A j \in 1 .. i - 1 : pairs[j].entry # p.entry
      /\ \A n \in p.entry + 1 .. Len(tape) :
           tape[n].from = d.from /\ tape[n].pkt = d.pkt /\ tape[n].at < p.at
           => \E j \in 1 .. i - 1 : pairs[j].entry = n
  BY DEF Genuine, p, d
<1>5. tp[p.entry] = d
  BY <1>3 DEF d
<1>6. ASSUME NEW n \in p.entry + 1 .. Len(tp),
             tp[n].from = d.from, tp[n].pkt = d.pkt, tp[n].at < p.at
      PROVE  \E j \in 1 .. i - 1 : ps[j].entry = n
  <2>1. CASE n <= Len(tape)
    <3>1. n \in p.entry + 1 .. Len(tape) /\ n \in 1 .. Len(tape)
      BY <1>1, <1>3, <2>1
    <3>2. tp[n] = tape[n]
      BY <3>1
    <3> QED
      BY <1>2, <1>4, <1>6, <3>1, <3>2
  <2>2. CASE n > Len(tape)
    <3>1. n \in Len(tape) + 1 .. Len(tp)
      BY <1>1, <1>3, <2>2
    <3>2. tp[n].at = now
      BY <3>1
    <3> QED
      BY <1>3, <1>6, <3>2
  <2> QED
    BY <1>1, <1>3, <2>1, <2>2
<1>7. ps[i] = p
  BY <1>2 DEF p
<1>8. \A j \in 1 .. i - 1 : ps[j].entry # p.entry
  BY <1>2, <1>4
<1> QED
  BY <1>4, <1>5, <1>6, <1>7, <1>8 DEF Genuine

\* A pair is made of the newest transmission of what the frame acknowledges.
LEMMA GenuineNew ==
  ASSUME RttTypes, NEW r \in [0 .. Ring - 1 -> Slots], NEW tp \in Seq(Recorded),
         RingHolds(r, tp, pairs), \A i \in 1 .. Len(tp) : tp[i].at <= now,
         NEW e \in Ends, NEW n \in Matches(r, Len(tp), Ack(e)),
         \A m \in Matches(r, Len(tp), Ack(e)) : m <= n,
         tp[n + 1].from = Peer(e), tp[n + 1].pkt = got[e] - 1,
         NEW p, p = [entry |-> n + 1, by |-> e, acked |-> got[e] - 1, at |-> now,
                     rtt |-> (now - r[n % Ring].t) % TimeSpace]
  PROVE  Genuine(Len(pairs) + 1, Append(pairs, p), tp)
<1>1. Len(tp) \in Nat /\ Len(pairs) \in Nat /\ now \in Nat /\ pairs \in Seq(Paired)
  BY DEF RttTypes
<1>2. n \in Window(Len(tp)) /\ r[n % Ring].valid /\ r[n % Ring].seq = Ack(e)
  BY DEF Matches, Window
<1>3. n \in Nat /\ n + 1 \in 1 .. Len(tp) /\ tp[n + 1] \in Recorded
  BY <1>1, <1>2, InWindow
<1>4. SlotHolds(r[n % Ring], tp[n + 1], Used(pairs, n + 1))
  BY <1>2 DEF RingHolds
<1> DEFINE d == tp[n + 1]
           ps == Append(pairs, p)
           i == Len(pairs) + 1
<1> HIDE DEF d
<1>5. ps[i] = p /\ \A j \in 1 .. i - 1 : ps[j] = pairs[j]
  BY <1>1
<1>6. i - 1 = Len(pairs)
  BY <1>1
<1> HIDE DEF ps, i
<1>7. now - d.at < TimeSpace => p.rtt = now - d.at
  <2>1. d.at \in Nat /\ d.at <= now /\ r[n % Ring].t = d.at % TimeSpace
    BY <1>3, <1>4 DEF SlotHolds, Recorded, d
  <2>2. p.rtt = (now - (d.at % TimeSpace)) % TimeSpace
    BY <2>1
  <2> QED
    BY <1>1, <2>1, <2>2, RttSizes, Elapsed
<1>8. \A j \in 1 .. i - 1 : ps[j].entry # n + 1
  BY <1>2, <1>4, <1>5, <1>6 DEF SlotHolds, Used
<1>9. ASSUME NEW m \in n + 2 .. Len(tp), tp[m].from = d.from, tp[m].pkt = d.pkt
      PROVE  \E j \in 1 .. i - 1 : ps[j].entry = m
  <2>1. m - 1 \in Window(Len(tp)) /\ m - 1 > n /\ (m - 1) + 1 = m /\ m - 1 \in Int
    BY <1>1, <1>2, <1>3, RttSizes DEF Window
  <2>2. SlotHolds(r[(m - 1) % Ring], tp[m], Used(pairs, m))
    BY <2>1 DEF RingHolds
  <2>3. r[(m - 1) % Ring].seq = Ack(e)
    BY <1>2, <1>4, <1>9, <2>2 DEF SlotHolds, d
  <2>4. m - 1 \notin Matches(r, Len(tp), Ack(e))
    BY <1>3, <2>1
  <2>5. ~r[(m - 1) % Ring].valid
    BY <2>1, <2>3, <2>4 DEF Matches, Window
  <2>6. Used(pairs, m)
    BY <2>2, <2>5 DEF SlotHolds
  <2> QED
    BY <2>6, <1>5, <1>6 DEF Used
<1>10. /\ p.entry = n + 1 /\ p.by = e /\ p.acked = got[e] - 1 /\ p.at = now
       /\ tp[p.entry] = d /\ d.from = Peer(e) /\ d.pkt = got[e] - 1
  BY DEF d
<1>11. p.entry + 1 = n + 2
  BY <1>3, <1>10
<1>12. Genuine(i, ps, tp)
  BY <1>5, <1>7, <1>8, <1>9, <1>10, <1>11 DEF Genuine
<1> QED
  BY <1>12 DEF ps, i

\* The ring and the pairs r, tp, ps, and what is known of them when the ends have sent s.
RingIs(r, tp, ps, s) ==
  /\ r \in [0 .. Ring - 1 -> Slots] /\ tp \in Seq(Recorded) /\ ps \in Seq(Paired)
  /\ RingHolds(r, tp, ps)
  /\ \A i \in 1 .. Len(tp) : tp[i].pkt < s[tp[i].from] /\ tp[i].at <= now
  /\ \A i \in 1 .. Len(ps) : ps[i].entry \in 1 .. Len(tp) /\ ps[i].at <= now
  /\ ApartIn(s) => \A i \in 1 .. Len(ps) : Genuine(i, ps, tp)

\* What a frame of e finds, once its payload is recorded.
LookUp(r, tp, e) ==
  LET Hits == Matches(r, Len(tp), Ack(e))
  IN /\ ring' = IF Hits = {} THEN r ELSE Consumed(r, Newest(Hits))
     /\ pairs' = IF Hits = {} THEN pairs
                 ELSE Append(pairs, [entry |-> Newest(Hits) + 1, by |-> e, acked |-> got[e] - 1, at |-> now,
                                     rtt |-> (now - r[Newest(Hits) % Ring].t) % TimeSpace])

LEMMA LookUpKeeps ==
  ASSUME RttTypes, NEW s \in [Ends -> Nat], NEW e \in Ends, s[e] # 0, got[e] <= s[Peer(e)],
         NEW r, NEW tp, RingIs(r, tp, pairs, s), LookUp(r, tp, e),
         got[e] = 0 => \A i \in 1 .. Len(tp) : tp[i].from = "a" /\ tp[i].pkt = 0
  PROVE  RingIs(ring', tp, pairs', s)
<1> DEFINE Hits == Matches(r, Len(tp), Ack(e))
           n == Newest(Hits)
           p == [entry |-> n + 1, by |-> e, acked |-> got[e] - 1, at |-> now,
                 rtt |-> (now - r[n % Ring].t) % TimeSpace]
<1>1. CASE Hits = {}
  <2>1. ring' = r /\ pairs' = pairs
    BY <1>1 DEF LookUp
  <2> QED
    BY <2>1
<1>2. CASE Hits # {}
  <2>1. ring' = Consumed(r, n) /\ pairs' = Append(pairs, p)
    BY <1>2 DEF LookUp
  <2>2. /\ r \in [0 .. Ring - 1 -> Slots] /\ tp \in Seq(Recorded) /\ pairs \in Seq(Paired)
        /\ RingHolds(r, tp, pairs) /\ Len(tp) \in Nat /\ Len(pairs) \in Nat
        /\ \A i \in 1 .. Len(tp) : tp[i].pkt < s[tp[i].from] /\ tp[i].at <= now
        /\ \A i \in 1 .. Len(pairs) : pairs[i].entry \in 1 .. Len(tp) /\ pairs[i].at <= now
        /\ ApartIn(s) => \A i \in 1 .. Len(pairs) : Genuine(i, pairs, tp)
    BY DEF RingIs
  <2>3. n \in Hits /\ \A m \in Hits : m <= n
    <3>1. Hits \in SUBSET (0 .. Len(tp) - 1)
      BY <2>2, InWindow DEF Matches, Window
    <3> HIDE DEF Hits
    <3> QED
      BY <1>2, <2>2, <3>1, Greatest
  <2>4. n \in Window(Len(tp)) /\ r[n % Ring].seq = Ack(e)
    BY <2>3 DEF Matches, Window
  <2>5. n \in Nat /\ n + 1 \in 1 .. Len(tp) /\ n % Ring \in 0 .. Ring - 1
    BY <2>2, <2>4, InWindow
  <2>6. p \in Paired
    <3> HIDE DEF Hits, n
    <3>1. r[n % Ring].t \in Int
      BY <2>2, <2>5 DEF Slots
    <3>2. (now - r[n % Ring].t) % TimeSpace \in Int
      <4>1. now - r[n % Ring].t \in Int
        BY <3>1 DEF RttTypes
      <4>2. \A x \in Int : x % TimeSpace \in Int
        BY RttSizes, Divided
      <4> QED
        BY <4>1, <4>2
    <3>3. got[e] - 1 \in Int
      BY DEF RttTypes
    <3> QED
      BY <2>5, <3>2, <3>3 DEF Paired, RttTypes
  <2> HIDE DEF Hits, n
  <2>7. ring' \in [0 .. Ring - 1 -> Slots] /\ RingHolds(ring', tp, pairs')
    <3>1. p.entry = n + 1
      OBVIOUS
    <3> HIDE DEF p
    <3> QED
      BY <2>1, <2>2, <2>4, <2>6, <3>1, ConsumeKeeps
  <2>8. p.entry = n + 1 /\ p.at = now
    OBVIOUS
  <2>9. /\ pairs' \in Seq(Paired) /\ Len(pairs') = Len(pairs) + 1 /\ pairs'[Len(pairs) + 1] = p
        /\ \A j \in 1 .. Len(pairs) : pairs'[j] = pairs[j]
    <3> HIDE DEF p
    <3> QED
      BY <2>1, <2>2, <2>6
  <2>10. \A i \in 1 .. Len(pairs') : pairs'[i].entry \in 1 .. Len(tp) /\ pairs'[i].at <= now
    <3> HIDE DEF p
    <3> SUFFICES ASSUME NEW i \in 1 .. Len(pairs')
                 PROVE  pairs'[i].entry \in 1 .. Len(tp) /\ pairs'[i].at <= now
      OBVIOUS
    <3>1. CASE i = Len(pairs) + 1
      <4>1. now <= now
        BY DEF RttTypes
      <4> QED
        BY <3>1, <4>1, <2>5, <2>8, <2>9
    <3>2. CASE i \in 1 .. Len(pairs)
      BY <3>2, <2>2, <2>9
    <3> QED
      BY <2>2, <2>9, <3>1, <3>2
  <2>11. ASSUME ApartIn(s), NEW i \in 1 .. Len(pairs') PROVE Genuine(i, pairs', tp)
    <3>1. CASE i = Len(pairs) + 1
      <4>1. tp[n + 1] \in Recorded /\ tp[n + 1].pkt < s[tp[n + 1].from]
        BY <2>2, <2>5
      <4>2. Seq16(tp[n + 1].from, tp[n + 1].pkt) = Ack(e)
        BY <2>2, <2>4 DEF RingHolds, SlotHolds
      <4>3. got[e] = 0 => tp[n + 1].from = "a" /\ tp[n + 1].pkt = 0
        BY <2>5
      <4>4. tp[n + 1].from = Peer(e) /\ tp[n + 1].pkt = got[e] - 1
        BY <2>11, <4>1, <4>2, <4>3, MatchIsAcked
      <4>5. \A j \in 1 .. Len(tp) : tp[j].at <= now
        BY <2>2
      <4>6. Genuine(Len(pairs) + 1, Append(pairs, p), tp)
        BY <2>2, <2>3, <4>4, <4>5, GenuineNew DEF Hits
      <4> QED
        BY <2>1, <3>1, <4>6
    <3>2. CASE i \in 1 .. Len(pairs)
      <4>1. Genuine(i, pairs, tp)
        BY <2>2, <2>11, <3>2
      <4> HIDE DEF p
      <4>2. pairs'[i] = pairs[i] /\ \A j \in 1 .. i - 1 : pairs'[j] = pairs[j]
        BY <2>2, <2>9, <3>2
      <4> QED
        BY <4>1, <4>2, GenuineAgain
    <3> QED
      BY <2>2, <2>9, <3>1, <3>2
  <2> QED
    BY <2>2, <2>7, <2>9, <2>10, <2>11 DEF RingIs
<1> QED
  BY <1>1, <1>2

-----------------------------------------------------------------------------
(* The steps                                                               *)

LEMMA RttInvInit == RttInit => RttInv
<1> SUFFICES ASSUME RttInit PROVE RttInv
  OBVIOUS
<1>1. RttTypes
  <2>1. [seq |-> 0, t |-> 0, valid |-> FALSE] \in Slots
    BY RttSizes DEF Slots
  <2>2. ring \in [0 .. Ring - 1 -> Slots]
    BY <2>1 DEF RttInit
  <2>3. tape \in Seq(Recorded) /\ pairs \in Seq(Paired) /\ head = Len(tape)
    BY DEF RttInit
  <2>4. iss \in [Ends -> 0 .. RttSpace - 1] /\ now \in Nat
    BY RttSizes DEF RttInit
  <2> QED
    BY <2>2, <2>3, <2>4 DEF RttTypes, RttInit
<1>2. Len(tape) = 0 /\ Len(pairs) = 0
  BY DEF RttInit
<1>3. Handshake
  BY <1>2, PeerOf DEF Handshake, RttInit
<1>4. RingHolds(ring, tape, pairs) /\ Ordered /\ PairsAreGenuine
  BY <1>2, RttSizes DEF RingHolds, Window, Ordered, PairsAreGenuine
<1> QED
  BY <1>1, <1>3, <1>4 DEF RttInv

\* Of e's frame: what the counters are after it.
LEMMA SentGrows ==
  ASSUME RttInv, NEW e \in Ends, NEW payload \in BOOLEAN, NEW k \in got[Peer(e)] .. sent[e],
         Frame(e, k, payload)
  PROVE  /\ k \in Nat /\ (payload => k < sent'[e])
         /\ sent' \in [Ends -> Nat] /\ got' \in [Ends -> Nat] /\ now' \in Nat /\ now <= now'
         /\ \A f \in Ends : sent[f] <= sent'[f] /\ got'[Peer(f)] <= sent'[f]
         /\ sent'[e] # 0
         /\ got'["b"] = 0 => sent'["b"] = 0
         /\ got'["a"] = 0 => sent'["a"] <= 1
<1>1. /\ sent \in [Ends -> Nat] /\ got \in [Ends -> Nat] /\ now \in Nat
      /\ \A f \in Ends : got[Peer(f)] <= sent[f] /\ got[f] \in Nat /\ sent[f] \in Nat
      /\ got["b"] = 0 => sent["b"] = 0
      /\ got["a"] = 0 => sent["a"] <= 1
  BY PeerOf DEF RttInv, RttTypes, Handshake
<1>2. Peer(e) \in Ends /\ Peer(Peer(e)) = e
  BY PeerOf
<1>3. k \in Nat /\ got[Peer(e)] <= k /\ k <= sent[e]
  BY <1>1, <1>2
<1>4. k > 0 \/ e = "b" => got[e] > 0
  BY DEF Frame
<1>5. now' \in Nat /\ now <= now'
  BY <1>1, RttSizes DEF Frame
<1>6. \/ sent' = [sent EXCEPT ![e] = k + 1] /\ k = sent[e] /\ (payload \/ k = 0)
      \/ sent' = sent /\ ~(k = sent[e] /\ (payload \/ k = 0))
  BY DEF Frame
<1>7. /\ sent' \in [Ends -> Nat]
      /\ \A f \in Ends : f # e => sent'[f] = sent[f]
      /\ sent'[e] = (IF k = sent[e] /\ (payload \/ k = 0) THEN k + 1 ELSE sent[e])
  BY <1>1, <1>3, <1>6
<1>8. \/ got' = got
      \/ got' = [got EXCEPT ![Peer(e)] = k + 1] /\ (payload \/ k = 0) /\ k = got[Peer(e)]
  BY DEF Frame
<1>9. /\ got' \in [Ends -> Nat]
      /\ \A f \in Ends : f # Peer(e) => got'[f] = got[f]
      /\ got'[Peer(e)] = got[Peer(e)] \/ (got'[Peer(e)] = k + 1 /\ (payload \/ k = 0))
  BY <1>1, <1>2, <1>3, <1>8
<1>10. sent'[e] \in Nat /\ sent[e] <= sent'[e] /\ (payload \/ k = 0 => k < sent'[e])
  BY <1>1, <1>3, <1>7
<1>11. \A f \in Ends : sent[f] <= sent'[f] /\ got'[Peer(f)] <= sent'[f]
  <2> SUFFICES ASSUME NEW f \in Ends PROVE sent[f] <= sent'[f] /\ got'[Peer(f)] <= sent'[f]
    OBVIOUS
  <2>1. CASE f = e
    BY <2>1, <1>1, <1>2, <1>3, <1>9, <1>10
  <2>2. CASE f # e
    <3>1. Peer(f) # Peer(e) /\ Peer(f) \in Ends
      BY <2>2, PeerOf
    <3>2. got'[Peer(f)] = got[Peer(f)] /\ sent'[f] = sent[f]
      BY <2>2, <3>1, <1>7, <1>9
    <3> QED
      BY <3>2, <1>1
  <2> QED
    BY <2>1, <2>2
<1>12. sent'[e] # 0
  BY <1>1, <1>3, <1>10
<1>13. got'["b"] = 0 => sent'["b"] = 0
  <2> SUFFICES ASSUME got'["b"] = 0 PROVE sent'["b"] = 0
    OBVIOUS
  <2>1. CASE e = "b"
    BY <2>1, <1>4, <1>9, <1>1, PeerOf
  <2>2. CASE e = "a"
    <3>1. sent'["b"] = sent["b"] /\ got["b"] = 0
      BY <2>2, <1>1, <1>3, <1>7, <1>9, PeerOf
    <3> QED
      BY <3>1, <1>1
  <2> QED
    BY <2>1, <2>2 DEF Ends
<1>14. got'["a"] = 0 => sent'["a"] <= 1
  <2> SUFFICES ASSUME got'["a"] = 0 PROVE sent'["a"] <= 1
    OBVIOUS
  <2>1. CASE e = "a"
    <3>1. got["a"] = 0
      BY <2>1, <1>9, PeerOf
    <3>2. k = 0
      BY <3>1, <2>1, <1>3, <1>4
    <3> QED
      BY <2>1, <3>1, <3>2, <1>1, <1>7
  <2>2. CASE e = "b"
    <3>1. sent'["a"] = sent["a"] /\ got["a"] = 0
      BY <2>2, <1>1, <1>3, <1>7, <1>9, PeerOf
    <3> QED
      BY <3>1, <1>1
  <2> QED
    BY <2>1, <2>2 DEF Ends
<1> QED
  BY <1>3, <1>5, <1>7, <1>9, <1>10, <1>11, <1>12, <1>13, <1>14

LEMMA RingIsInv ==
  ASSUME RttInv, NEW s \in [Ends -> Nat], \A f \in Ends : sent[f] <= s[f]
  PROVE  RingIs(ring, tape, pairs, s)
<1>1. RttTypes /\ Handshake /\ RingHolds(ring, tape, pairs) /\ Ordered /\ PairsAreGenuine
  BY DEF RttInv
<1>2. /\ sent \in [Ends -> Nat] /\ tape \in Seq(Recorded)
  BY <1>1 DEF RttTypes
<1>3. ApartIn(s) => ApartIn(sent)
  <2>1. \A f \in Ends : 0 .. sent[f] - 1 \subseteq 0 .. s[f] - 1
    BY <1>2
  <2> QED
    BY <2>1, PeerOf DEF ApartIn
<1>4. ASSUME NEW i \in 1 .. Len(tape) PROVE tape[i].pkt < s[tape[i].from] /\ tape[i].at <= now
  <2>1. tape[i] \in Recorded
    BY <1>2
  <2>2. tape[i].from \in Ends /\ tape[i].pkt \in Nat
    BY <2>1 DEF Recorded
  <2>3. tape[i].pkt < sent[tape[i].from] /\ tape[i].at <= now
    BY <1>1 DEF Handshake
  <2>4. sent[tape[i].from] <= s[tape[i].from] /\ sent[tape[i].from] \in Nat
        /\ s[tape[i].from] \in Nat
    BY <1>2, <2>2
  <2> QED
    BY <2>2, <2>3, <2>4
<1>5. ApartIn(s) => \A i \in 1 .. Len(pairs) : Genuine(i, pairs, tape)
  BY <1>1, <1>3, GenuinePairs
<1> QED
  BY <1>1, <1>4, <1>5 DEF RingIs, RttTypes, Ordered

\* The frame misses the tap, or is recorded if it has payload, and looked up.
LEMMA Tapped ==
  ASSUME NEW e, NEW k, NEW payload, Frame(e, k, payload)
  PROVE  \/ UNCHANGED <<ring, head, tape, pairs>>
         \/ /\ payload /\ head' = head + 1
            /\ tape' = Append(tape, [from |-> e, pkt |-> k, at |-> now])
            /\ LET Hits == Matches(ci_rtt_on_data(ring, Seq16(e, k)), head + 1, Ack(e))
                   r == ci_rtt_on_data(ring, Seq16(e, k))
               IN /\ ring' = IF Hits = {} THEN r ELSE Consumed(r, Newest(Hits))
                  /\ pairs' = IF Hits = {} THEN pairs
                              ELSE Append(pairs, [entry |-> Newest(Hits) + 1, by |-> e, acked |-> got[e] - 1,
                                        at |-> now, rtt |-> (now - r[Newest(Hits) % Ring].t) % TimeSpace])
         \/ /\ ~payload /\ head' = head /\ tape' = tape
            /\ LET Hits == Matches(ring, head, Ack(e))
               IN /\ ring' = IF Hits = {} THEN ring ELSE Consumed(ring, Newest(Hits))
                  /\ pairs' = IF Hits = {} THEN pairs
                              ELSE Append(pairs, [entry |-> Newest(Hits) + 1, by |-> e, acked |-> got[e] - 1,
                                        at |-> now, rtt |-> (now - ring[Newest(Hits) % Ring].t) % TimeSpace])
<1>1. Observe(e, k, payload) \/ UNCHANGED <<ring, head, tape, pairs>>
  BY DEF Frame
<1>2. CASE payload
  BY <1>1, <1>2 DEF Observe
<1>3. CASE ~payload
  BY <1>1, <1>3 DEF Observe
<1> QED
  BY <1>2, <1>3

LEMMA FrameKeeps ==
  ASSUME RttInv, NEW e \in Ends, NEW payload \in BOOLEAN, NEW k \in got[Peer(e)] .. sent[e],
         Frame(e, k, payload)
  PROVE  RttInv'
<1>1. RttTypes /\ Handshake /\ RingHolds(ring, tape, pairs) /\ Ordered
  BY DEF RttInv
<1>2. /\ k \in Nat /\ (payload => k < sent'[e])
      /\ sent' \in [Ends -> Nat] /\ got' \in [Ends -> Nat] /\ now' \in Nat /\ now <= now'
      /\ \A f \in Ends : sent[f] <= sent'[f] /\ got'[Peer(f)] <= sent'[f]
      /\ sent'[e] # 0
      /\ got'["b"] = 0 => sent'["b"] = 0
      /\ got'["a"] = 0 => sent'["a"] <= 1
  BY SentGrows
<1>3. RingIs(ring, tape, pairs, sent')
  BY <1>2, RingIsInv
<1>4. iss' = iss
  BY DEF Frame
<1>5. got[e] <= sent'[Peer(e)]
  <2>1. Peer(e) \in Ends /\ Peer(Peer(e)) = e
    BY PeerOf
  <2>2. got[e] <= sent[Peer(e)] /\ got[e] \in Nat /\ sent[Peer(e)] \in Nat
    BY <1>1, <2>1 DEF Handshake, RttTypes
  <2>3. sent[Peer(e)] <= sent'[Peer(e)] /\ sent'[Peer(e)] \in Nat
    BY <1>2, <2>1
  <2> QED
    BY <2>2, <2>3
<1>6. got[e] = 0 => /\ e = "a" /\ k = 0
                    /\ \A i \in 1 .. Len(tape) : tape[i].from = "a" /\ tape[i].pkt = 0
  <2> SUFFICES ASSUME got[e] = 0
               PROVE  /\ e = "a" /\ k = 0
                      /\ \A i \in 1 .. Len(tape) : tape[i].from = "a" /\ tape[i].pkt = 0
    OBVIOUS
  <2>1. e = "a" /\ k = 0
    BY <1>2 DEF Frame, Ends
  <2>2. got["b"] = 0 /\ sent["b"] = 0 /\ sent["a"] <= 1
    <3>1. got["b"] \in Nat /\ got[Peer(e)] <= k
      BY <1>1, PeerOf DEF RttTypes
    <3> QED
      BY <1>1, <2>1, <3>1, PeerOf DEF Handshake
  <2>3. ASSUME NEW i \in 1 .. Len(tape) PROVE tape[i].from = "a" /\ tape[i].pkt = 0
    <3>1. tape[i].from \in Ends /\ tape[i].pkt \in Nat
      <4>1. tape[i] \in Recorded
        BY <1>1 DEF RttTypes
      <4> QED
        BY <4>1 DEF Recorded
    <3>2. tape[i].pkt < sent[tape[i].from]
      BY <1>1 DEF Handshake
    <3>3. sent["a"] \in Nat
      BY <1>1, PeerOf DEF RttTypes
    <3> QED
      BY <2>2, <3>1, <3>2, <3>3 DEF Ends
  <2> QED
    BY <2>1, <2>3
<1>7. head' = Len(tape') /\ RingIs(ring', tape', pairs', sent')
  <2>1. CASE UNCHANGED <<ring, head, tape, pairs>>
    BY <1>1, <1>3, <2>1 DEF RttTypes
  <2>2. CASE payload /\ ~UNCHANGED <<ring, head, tape, pairs>>
    <3> DEFINE r == ci_rtt_on_data(ring, Seq16(e, k))
               d == [from |-> e, pkt |-> k, at |-> now]
               tp == Append(tape, d)
    <3>1. tape' = tp /\ head' = head + 1 /\ head = Len(tape) /\ tape \in Seq(Recorded)
          /\ d \in Recorded
      BY <1>1, <1>2, <2>2, Tapped DEF RttTypes, Recorded
    <3>2. r \in [0 .. Ring - 1 -> Slots] /\ RingHolds(r, tp, pairs)
      BY <1>1, <1>2, RecordKeeps
    <3>3. d.from = e /\ d.pkt = k /\ d.at = now
      OBVIOUS
    <3> HIDE DEF r, d
    <3>4. /\ tp \in Seq(Recorded) /\ Len(tp) = Len(tape) + 1 /\ Len(tape) \in Nat
          /\ tp[Len(tape) + 1] = d /\ \A i \in 1 .. Len(tape) : tp[i] = tape[i]
      BY <3>1
    <3>5. LookUp(r, tp, e)
      <4>1. Len(tp) = head + 1
        BY <3>1, <3>4
      <4> HIDE DEF tp
      <4> QED
        BY <2>2, <4>1, Tapped DEF LookUp, r
    <3> HIDE DEF tp
    <3>6. RingIs(r, tp, pairs, sent')
      <4>1. /\ pairs \in Seq(Paired) /\ now <= now
            /\ \A i \in 1 .. Len(tape) : tape[i].pkt < sent'[tape[i].from] /\ tape[i].at <= now
            /\ \A i \in 1 .. Len(pairs) : pairs[i].entry \in 1 .. Len(tape) /\ pairs[i].at <= now
            /\ ApartIn(sent') => \A i \in 1 .. Len(pairs) : Genuine(i, pairs, tape)
        BY <1>1, <1>3 DEF RingIs, RttTypes
      <4>2. ASSUME NEW i \in 1 .. Len(tp) PROVE tp[i].pkt < sent'[tp[i].from] /\ tp[i].at <= now
        <5>1. CASE i = Len(tape) + 1
          BY <5>1, <1>2, <2>2, <3>3, <3>4, <4>1
        <5>2. CASE i \in 1 .. Len(tape)
          BY <5>2, <3>4, <4>1
        <5> QED
          BY <5>1, <5>2, <3>4
      <4>3. \A i \in 1 .. Len(pairs) : pairs[i].entry \in 1 .. Len(tp)
        BY <3>4, <4>1
      <4>4. ASSUME ApartIn(sent'), NEW i \in 1 .. Len(pairs) PROVE Genuine(i, pairs, tp)
        <5>1. Genuine(i, pairs, tape)
          BY <4>1, <4>4
        <5>2. \A n \in Len(tape) + 1 .. Len(tp) : tp[n].at = now
          BY <3>3, <3>4
        <5>3. Len(tape) <= Len(tp) /\ Len(pairs) <= Len(pairs) /\ \A j \in 1 .. Len(pairs) : pairs[j] = pairs[j]
          BY <3>4, <4>1
        <5> QED
          BY <1>1, <3>4, <4>1, <5>1, <5>2, <5>3, GenuineStays
      <4> QED
        BY <3>2, <3>4, <4>1, <4>2, <4>3, <4>4 DEF RingIs
    <3>7. got[e] = 0 => \A i \in 1 .. Len(tp) : tp[i].from = "a" /\ tp[i].pkt = 0
      <4> SUFFICES ASSUME got[e] = 0, NEW i \in 1 .. Len(tp) PROVE tp[i].from = "a" /\ tp[i].pkt = 0
        OBVIOUS
      <4>1. CASE i = Len(tape) + 1
        BY <4>1, <1>6, <3>3, <3>4
      <4>2. CASE i \in 1 .. Len(tape)
        BY <4>2, <1>6, <3>4
      <4> QED
        BY <4>1, <4>2, <3>4
    <3>8. RingIs(ring', tp, pairs', sent')
      BY <1>1, <1>2, <1>5, <3>5, <3>6, <3>7, LookUpKeeps
    <3> QED
      BY <3>1, <3>4, <3>8 DEF tp
  <2>3. CASE ~payload /\ ~UNCHANGED <<ring, head, tape, pairs>>
    <3>1. tape' = tape /\ head' = head /\ head = Len(tape)
      BY <1>1, <2>3, Tapped DEF RttTypes
    <3>2. LookUp(ring, tape, e)
      BY <2>3, <3>1, Tapped DEF LookUp
    <3>3. RingIs(ring', tape, pairs', sent')
      BY <1>1, <1>2, <1>3, <1>5, <1>6, <3>2, LookUpKeeps
    <3> QED
      BY <3>1, <3>3
  <2> QED
    BY <2>1, <2>2, <2>3
<1>8. /\ ring' \in [0 .. Ring - 1 -> Slots] /\ tape' \in Seq(Recorded) /\ pairs' \in Seq(Paired)
      /\ RingHolds(ring', tape', pairs')
      /\ \A i \in 1 .. Len(tape') : tape'[i].pkt < sent'[tape'[i].from] /\ tape'[i].at <= now
      /\ \A i \in 1 .. Len(pairs') : pairs'[i].entry \in 1 .. Len(tape') /\ pairs'[i].at <= now
      /\ ApartIn(sent') => \A i \in 1 .. Len(pairs') : Genuine(i, pairs', tape')
  BY <1>7 DEF RingIs
<1>9. RttTypes'
  BY <1>1, <1>2, <1>4, <1>7, <1>8 DEF RttTypes
<1>10. Handshake'
  <2>1. ASSUME NEW i \in 1 .. Len(tape') PROVE tape'[i].pkt < sent'[tape'[i].from]
               /\ tape'[i].at <= now'
    <3>1. tape'[i] \in Recorded
      BY <1>8
    <3>2. tape'[i].at \in Nat
      BY <3>1 DEF Recorded
    <3>3. tape'[i].at <= now /\ tape'[i].pkt < sent'[tape'[i].from]
      BY <1>8
    <3>4. now \in Nat /\ now' \in Nat /\ now <= now'
      BY <1>1, <1>2 DEF RttTypes
    <3> QED
      BY <3>2, <3>3, <3>4
  <2> QED
    BY <1>2, <2>1 DEF Handshake
<1>11. Ordered'
  <2> SUFFICES ASSUME NEW i \in 1 .. Len(pairs')
               PROVE  pairs'[i].entry \in 1 .. Len(tape') /\ pairs'[i].at <= now'
    BY DEF Ordered
  <2>1. pairs'[i] \in Paired
    BY <1>8
  <2>2. pairs'[i].at \in Nat
    BY <2>1 DEF Paired
  <2>3. pairs'[i].at <= now /\ pairs'[i].entry \in 1 .. Len(tape')
    BY <1>8
  <2>4. now \in Nat /\ now' \in Nat /\ now <= now'
    BY <1>1, <1>2 DEF RttTypes
  <2> QED
    BY <2>2, <2>3, <2>4
<1>12. RingHolds(ring, tape, pairs)'
  BY <1>4, <1>8 DEF RingHolds, SlotHolds, Seq16
<1>13. PairsAreGenuine'
  BY <1>4, <1>8 DEF PairsAreGenuine, NumbersApart, ApartIn, Genuine, Seq16
<1> QED
  BY <1>9, <1>10, <1>11, <1>12, <1>13 DEF RttInv

LEMMA RttInvNext == RttInv /\ [RttNext]_rttVars => RttInv'
<1> SUFFICES ASSUME RttInv, [RttNext]_rttVars PROVE RttInv'
  OBVIOUS
<1>1. CASE RttNext
  BY <1>1, FrameKeeps DEF RttNext
<1>2. CASE UNCHANGED rttVars
  BY <1>2 DEF rttVars, RttInv, RttTypes, Handshake, RingHolds, SlotHolds, Used, Seq16, Ordered,
              PairsAreGenuine, NumbersApart
<1> QED
  BY <1>1, <1>2

\* Whatever the width of the sequence numbers and of the clock, the length of the ring, and
\* the frames that miss the tap or the peer: the rows the drainer writes are times of
\* packets, as far as the numbers of the two directions do not meet.
THEOREM PairsHold == RttSpec => []PairsAreGenuine
<1>1. RttInv => PairsAreGenuine
  BY DEF RttInv
<1> QED
  BY <1>1, RttInvInit, RttInvNext, PTL DEF RttSpec

-----------------------------------------------------------------------------
(* The instruments together, as the runs check them                        *)

LEMMA InstrumentsInit == Init => LossInit /\ LinkInit /\ VerdictInit /\ RttInit /\ BridgeInit
  BY DEF Init

LEMMA InstrumentsNext ==
  [Next]_vars => /\ [LossNext]_lossVars /\ [LinkNext]_linkVars /\ [VerdictNext]_verdictVars
                 /\ [RttNext]_rttVars /\ [BridgeNext]_bridgeVars
<1> SUFFICES ASSUME [Next]_vars
             PROVE  /\ [LossNext]_lossVars /\ [LinkNext]_linkVars /\ [VerdictNext]_verdictVars
                    /\ [RttNext]_rttVars /\ [BridgeNext]_bridgeVars
  OBVIOUS
<1>1. CASE Loss
  BY <1>1 DEF Loss
<1>2. CASE Link
  BY <1>2 DEF Link
<1>3. CASE Monitor
  BY <1>3 DEF Monitor
<1>4. CASE Rtt
  BY <1>4 DEF Rtt
<1>5. CASE Pump
  BY <1>5 DEF Pump
<1>6. CASE UNCHANGED vars
  BY <1>6 DEF vars
<1> QED
  BY <1>1, <1>2, <1>3, <1>4, <1>5, <1>6 DEF Next

\* The composition implements each of the components: a step of one instrument is a
\* stutter of the others.
THEOREM InstrumentsApart ==
  FairSpec => LossSpec /\ LinkSpec /\ VerdictSpec /\ RttSpec /\ BridgeSpec
  BY InstrumentsInit, InstrumentsNext, PTL DEF FairSpec, LossSpec, LinkSpec, VerdictSpec, RttSpec, BridgeSpec

\* Every instrument keeps the types of its state, whichever is in use.
THEOREM InstrumentsTypesHold == FairSpec => []TypeOK
<1>1. LossTypeOK /\ LinkTypeOK /\ VerdictTypeOK /\ BridgeTypeOK => TypeOK
  BY DEF TypeOK
<1> QED
  BY <1>1, InstrumentsApart, TypeCorrect, LinkTypesHold, VerdictTypeCorrect, BridgeTypesHold, PTL

\* What is proved of each instrument holds of the composition that the run
\* instruments explores.
THEOREM InstrumentsCorrect ==
  FairSpec => /\ [](PacketConsumed /\ HookChain /\ FaultOnlyAfterRacedStop /\ DeliveredNotNegative)
              /\ [](DirectionSplit /\ VerdictAccounts /\ NoFalseReboot /\ PairsAreGenuine /\ PassedOnOnce)
              /\ DropsOnHookedIface
<1>1. FairSpec => [](PacketConsumed /\ HookChain /\ FaultOnlyAfterRacedStop /\ DeliveredNotNegative)
  BY InstrumentsApart, EveryPacketConsumed, ChainRestored, OnlyRacedStopsFault, NeverNegative, PTL
<1>2. FairSpec => [](DirectionSplit /\ VerdictAccounts /\ NoFalseReboot /\ PairsAreGenuine /\ PassedOnOnce)
  BY InstrumentsApart, SplitHolds, VerdictIsAccounted, RestartsAreReal, PairsHold, EveryFrameOnce, PTL
<1> QED
  BY <1>1, <1>2, InstrumentsApart, DropsOnlyWhereHooked, PTL
=============================================================================

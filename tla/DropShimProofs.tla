--------------------------- MODULE DropShimProofs ---------------------------
(***************************************************************************)
(* Proofs about DropShim, for every sequence space, window, rule and       *)
(* number of transmissions.                                                *)
(***************************************************************************)
EXTENDS DropShim, FiniteSetTheorems, WellFoundedInduction, TLAPS

-----------------------------------------------------------------------------
(* The inductive invariant                                                 *)

\* The packet sent last is the newest one or lies in the window.
LastInWindow ==
  /\ fresh = 0 => lastNum = 0
  /\ fresh > 0 => lastNum < fresh
  /\ flow = "rdp" => lastNum + Window >= fresh \/ lastNum + 1 >= fresh

\* The packet the tracker saw last.  A rule that matches SYN frames shows it
\* packet 0 only.
LastSeen == IF rule.match_rdp_syn THEN 0 ELSE lastNum

\* Epoch and sequence number put together are the number of the packet seen last.
TrackerExact ==
  flow = "rdp" =>
    /\ tracker.have_last_seq =>
         /\ ci_flow_index_rdp(tracker.epoch, tracker.last_seq) = isn + LastSeen
         /\ InScope(0)
    /\ ~tracker.have_last_seq => tracker.epoch = 0 /\ (fresh > 0 => ~InScope(0))

LogEntry == [pkt : Packet, index : Nat, dropped : BOOLEAN]

\* What holds of any traffic.
BaseInv == TypeOK /\ BuffersConserved

\* What holds of traffic that is Aligned.
IndexInv == LastInWindow /\ TrackerExact /\ IndexIsIdentity

\* What the index theorem asks of the traffic: repeats do not go back over a wrap,
\* and a DTP sender cuts fragments of the size the tracker divides by.
Aligned == /\ ~ReorderAcrossWrap
           /\ Mtu > Overhead
           /\ Stride = Mtu - Overhead

-----------------------------------------------------------------------------
(* Arithmetic                                                              *)

\* Quotient and remainder.
LEMMA DivModFacts ==
  ASSUME NEW a \in Nat, NEW d \in Nat \ {0}
  PROVE  /\ a \div d \in Nat
         /\ a % d \in 0 .. d - 1
         /\ a = (a \div d) * d + (a % d)
<1>1. a \div d \in Nat
  OBVIOUS
<1>2. a % d \in 0 .. d - 1
  OBVIOUS
<1>3. a = d * (a \div d) + (a % d)
  OBVIOUS
<1>4. d * (a \div d) = (a \div d) * d
  BY <1>1
<1> QED
  BY <1>1, <1>2, <1>3, <1>4

\* Quotient and remainder are determined by the number.
LEMMA DivModUnique ==
  ASSUME NEW q \in Nat, NEW d \in Nat \ {0}, NEW r \in 0 .. d - 1
  PROVE  (q * d + r) \div d = q /\ (q * d + r) % d = r
<1>1. (q * d + r) % d = r
  BY Z3
<1>2. q * d + r \in Int /\ (q * d + r) \div d \in Int
  OBVIOUS
<1> DEFINE p == (q * d + r) \div d
<1>3. q * d + r = p * d + r
  <2>1. q * d + r \in Nat
    OBVIOUS
  <2> QED
    BY <1>1, <2>1, DivModFacts
<1> HIDE DEF p
<1>4. (p - q) * d = 0
  BY <1>2, <1>3 DEF p
<1>5. p = q
  BY <1>2, <1>4 DEF p
<1> QED
  BY <1>1, <1>5 DEF p

\* Division undoes multiplication.
LEMMA DivMul ==
  ASSUME NEW n \in Nat, NEW d \in Nat \ {0}
  PROVE  (n * d) \div d = n
<1> DEFINE q == (n * d) \div d
<1>1. n * d \in Nat
  OBVIOUS
<1>2. q \in Nat /\ q * d <= n * d /\ n * d < (q + 1) * d
  BY <1>1
<1> HIDE DEF q
<1>3. ~(q < n)
  <2> SUFFICES ASSUME q < n PROVE FALSE
    OBVIOUS
  <2>1. q + 1 <= n
    BY <1>2
  <2>2. (q + 1) * d <= n * d
    BY <1>2, <2>1
  <2> QED
    BY <1>1, <1>2, <2>2
<1>4. ~(q > n)
  <2> SUFFICES ASSUME q > n PROVE FALSE
    OBVIOUS
  <2>1. n + 1 <= q
    BY <1>2
  <2>2. (n + 1) * d <= q * d
    BY <1>2, <2>1
  <2>3. n * d + d <= q * d
    BY <2>2
  <2> QED
    BY <1>1, <1>2, <2>3
<1> QED
  BY <1>2, <1>3, <1>4 DEF q

\* A remainder shifted by one turn.
LEMMA ModBelow ==
  ASSUME NEW x \in Int, NEW d \in Nat \ {0}, 0 - d < x, x < 0
  PROVE  x % d = x + d
  OBVIOUS

\* The heart of the matter: when packet b follows packet a, no further than half
\* the sequence space ahead, or back within the same turn, the epoch is bumped
\* exactly when b lies in the next turn.
LEMMA EpochExact ==
  ASSUME NEW a \in Nat, NEW b \in Nat,
         \/ a <= b /\ b - a < Half
         \/ b < a /\ a - b < Half /\ a \div SeqSpace = b \div SeqSpace
  PROVE  b \div SeqSpace
           = IF ci_rdp_seq_is_wrap(a % SeqSpace, b % SeqSpace)
             THEN a \div SeqSpace + 1 ELSE a \div SeqSpace
<1> DEFINE S == SeqSpace
           e == a \div S
           f == b \div S
           s == a % S
           r == b % S
<1>0. Half \in Nat \ {0} /\ S \in Nat \ {0} /\ S = Half + Half
  BY FlowAssumption DEF SeqSpace
<1>1. /\ e \in Nat /\ s \in 0 .. S - 1 /\ a = e * S + s
      /\ f \in Nat /\ r \in 0 .. S - 1 /\ b = f * S + r
  <2> HIDE DEF S
  <2> QED
    BY <1>0, DivModFacts
<1>2. ci_rdp_seq_is_wrap(s, r) <=> (r - s) % S < Half /\ r < s
  BY DEF ci_rdp_seq_is_wrap
<1> HIDE DEF S, e, f, s, r
<1>3. r < s => (r - s) % S = r - s + S
  BY <1>0, <1>1, ModBelow
<1>4. f * S - e * S = (f - e) * S /\ f * S \in Int /\ e * S \in Int /\ f - e \in Int
  BY <1>0, <1>1
<1> DEFINE k == f - e
           m == k * S
<1>5. k \in Int /\ m \in Int /\ b - a = m + (r - s)
  BY <1>0, <1>1, <1>4
<1>6. /\ k >= 2 => m >= S + S
      /\ k = 1 => m = S
      /\ k = 0 => m = 0
      /\ k <= -1 => m <= -S
  BY <1>0, <1>5
<1>7. k = 0 \/ k = 1
  <2> HIDE DEF k, m
  <2>1. b < a => k = 0
    BY <1>1 DEF k, e, f, S
  <2>2. a <= b => 0 <= m + (r - s) /\ m + (r - s) < Half
    BY <1>5
  <2> QED
    BY <1>0, <1>1, <1>5, <1>6, <2>1, <2>2
<1>8. CASE k = 0
  <2>1. b - a = r - s /\ f = e
    BY <1>1, <1>5, <1>6, <1>8
  <2>2. ~ci_rdp_seq_is_wrap(s, r)
    BY <1>0, <1>1, <1>2, <1>3, <2>1
  <2> QED
    BY <2>1, <2>2 DEF e, f, s, r, S
<1>9. CASE k = 1
  <2>1. b - a = S + (r - s) /\ f = e + 1
    BY <1>1, <1>5, <1>6, <1>9
  <2>2. a <= b
    BY <1>9, <1>1 DEF k, e, f, S
  <2>3. ci_rdp_seq_is_wrap(s, r)
    BY <1>0, <1>1, <1>2, <1>3, <2>1, <2>2
  <2> QED
    BY <2>1, <2>3 DEF e, f, s, r, S
<1> QED
  BY <1>7, <1>8, <1>9

-----------------------------------------------------------------------------
(* The index of a packet                                                   *)

\* The frame of a packet of the flow.
LEMMA FrameFacts ==
  ASSUME TypeOK, NEW n \in Nat
  PROVE  /\ n # Other
         /\ FrameOf(n).is_rdp <=> flow = "rdp"
         /\ FrameOf(n).parsed
         /\ FrameOf(n).seq = (isn + n) % SeqSpace
         /\ FrameOf(n).off = n * Stride
         /\ FrameOf(n).syn <=> n = 0
         /\ FrameOf(n).dport = FlowPort
<1>1. n # Other
  BY DEF Other
<1> QED
  BY <1>1 DEF FrameOf

\* A rule that does not single out SYN frames treats all packets of a flow alike.
LEMMA ScopeFacts ==
  ASSUME TypeOK, NEW n \in Nat, InScope(n)
  PROVE  /\ InScope(0) \/ rule.match_rdp_syn
         /\ rule.match_rdp_syn => n = 0
  BY FrameFacts DEF InScope, ci_rule_match

\* The sequence space and the initial number.
LEMMA SpaceFacts ==
  ASSUME TypeOK
  PROVE  /\ Half \in Nat \ {0, 1} /\ SeqSpace \in Nat \ {0} /\ SeqSpace = Half + Half
         /\ isn \in 0 .. SeqSpace - 1 /\ Window \in Nat /\ Window < Half
         /\ rule.match_rdp_syn \in BOOLEAN
<1>1. Half \in Nat \ {0, 1} /\ SeqSpace \in Nat \ {0} /\ SeqSpace = Half + Half
  BY FlowAssumption DEF SeqSpace
<1>2. isn \in 0 .. SeqSpace - 1 /\ Window \in Nat /\ Window < Half
  BY ShimAssumption DEF TypeOK
<1>3. rule.match_rdp_syn \in BOOLEAN
  BY ShimAssumption DEF TypeOK
<1> QED
  BY <1>1, <1>2, <1>3

\* What may be sent next: the newest packet, or a repeat.
MaySend(n) ==
  \/ n = fresh
  \/ /\ n < fresh
     /\ flow = "rdp" => n + Window >= fresh /\ SameTurn(n)

\* ci_flow_index gives an in-scope packet its identity, and leaves the tracker at
\* that packet.
LEMMA FlowIndexExact ==
  ASSUME TypeOK, LastInWindow, TrackerExact, Aligned, NEW n \in Nat, MaySend(n), InScope(n)
  PROVE  LET ix == ci_flow_index(tracker, FrameOf(n)) IN
         /\ ix.index = Identity(n) /\ ix.index \in Nat
         /\ ix.tracker \in [last_seq : 0 .. SeqSpace - 1, have_last_seq : BOOLEAN, epoch : Nat]
         /\ flow = "rdp" =>
              /\ ix.tracker.have_last_seq
              /\ ci_flow_index_rdp(ix.tracker.epoch, ix.tracker.last_seq) = isn + n
<1> DEFINE ix == ci_flow_index(tracker, FrameOf(n))
<1>0. /\ SeqSpace \in Nat \ {0} /\ isn \in Nat /\ isn < SeqSpace /\ Half \in Nat \ {0, 1}
      /\ Window \in Nat /\ Window < Half /\ lastNum \in Nat /\ fresh \in Nat
      /\ tracker \in [last_seq : 0 .. SeqSpace - 1, have_last_seq : BOOLEAN, epoch : Nat]
      /\ rule.match_rdp_syn \in BOOLEAN
  <2>1. /\ lastNum \in 0 .. fresh /\ fresh \in Nat
        /\ tracker \in [last_seq : 0 .. SeqSpace - 1, have_last_seq : BOOLEAN, epoch : Nat]
    BY Zenon DEF TypeOK
  <2>2. isn \in Nat /\ isn < SeqSpace /\ lastNum \in Nat
    BY SpaceFacts, <2>1
  <2> QED
    BY SpaceFacts, <2>1, <2>2
<1>1. CASE flow = "rdp"
  <2> DEFINE seq == (isn + n) % SeqSpace
             turn == (isn + n) \div SeqSpace
             epoch == NextEpoch(tracker, seq)
  <2>1. /\ seq \in 0 .. SeqSpace - 1 /\ turn \in Nat
        /\ isn + n = turn * SeqSpace + seq
    <3>1. isn + n \in Nat
      BY <1>0
    <3> QED
      BY <1>0, <3>1, DivModFacts
  <2>2. /\ ix.tracker = [last_seq |-> seq, have_last_seq |-> TRUE, epoch |-> epoch]
        /\ ix.index = ci_flow_index_rdp(epoch, seq)
    BY <1>1, FrameFacts DEF ci_flow_index
  <2>3. epoch = turn
    <3>1. CASE ~tracker.have_last_seq
      <4>1. tracker.epoch = 0 /\ epoch = 0
        BY <1>1, <3>1 DEF TrackerExact, NextEpoch
      <4>2. n = 0
        BY <1>0, <1>1, <3>1, ScopeFacts DEF TrackerExact, MaySend
      <4>3. turn = 0
        BY <1>0, <4>2
      <4> QED
        BY <4>1, <4>3
    <3>2. CASE tracker.have_last_seq
      <4> DEFINE a == isn + LastSeen
                 b == isn + n
      <4>1. a \in Nat /\ b \in Nat /\ a = tracker.epoch * SeqSpace + tracker.last_seq
        BY <1>0, <1>1, <3>2 DEF TrackerExact, LastSeen, ci_flow_index_rdp
      <4>2. a \div SeqSpace = tracker.epoch /\ a % SeqSpace = tracker.last_seq
        <5> DEFINE q == tracker.epoch
                   r == tracker.last_seq
        <5>1. q \in Nat /\ r \in 0 .. SeqSpace - 1 /\ SeqSpace \in Nat \ {0}
          BY <1>0
        <5>2. a = q * SeqSpace + r
          BY <4>1
        <5> HIDE DEF ix, seq, turn, epoch, a, b, q, r
        <5>3. (q * SeqSpace + r) \div SeqSpace = q /\ (q * SeqSpace + r) % SeqSpace = r
          BY <5>1, DivModUnique, Zenon
        <5>4. a \div SeqSpace = q /\ a % SeqSpace = r
          BY <5>2, <5>3, Zenon
        <5> QED
          BY <5>4 DEF q, r
      <4>3. \/ a <= b /\ b - a < Half
            \/ b < a /\ a - b < Half /\ a \div SeqSpace = b \div SeqSpace
        <5>1. CASE rule.match_rdp_syn
          <6>1. a = b
            BY <5>1, ScopeFacts DEF LastSeen
          <6> QED
            BY <1>0, <4>1, <6>1
        <5>2. CASE ~rule.match_rdp_syn
          <6>1. a = isn + lastNum
            BY <5>2 DEF LastSeen
          <6>2. n >= lastNum => n - lastNum < Half
            BY <1>0, <1>1 DEF LastInWindow, MaySend
          <6>3. n < lastNum => /\ lastNum - n < Half
                               /\ (isn + n) \div SeqSpace = (isn + lastNum) \div SeqSpace
            BY <1>0, <1>1 DEF LastInWindow, MaySend, SameTurn
          <6>4. CASE n >= lastNum
            <7>1. a <= b /\ b - a = n - lastNum
              BY <1>0, <6>1, <6>4
            <7> QED
              BY <6>2, <6>4, <7>1
          <6>5. CASE n < lastNum
            <7>1. b < a /\ a - b = lastNum - n
              BY <1>0, <6>1, <6>5
            <7> QED
              BY <6>1, <6>3, <6>5, <7>1
          <6> QED
            BY <1>0, <6>4, <6>5
        <5> QED
          BY <1>0, <5>1, <5>2
      <4>4. turn = IF ci_rdp_seq_is_wrap(tracker.last_seq, seq)
                   THEN tracker.epoch + 1 ELSE tracker.epoch
        <5> HIDE DEF a, b
        <5>1. b \div SeqSpace = IF ci_rdp_seq_is_wrap(a % SeqSpace, b % SeqSpace)
                                THEN a \div SeqSpace + 1 ELSE a \div SeqSpace
          BY <4>1, <4>3, EpochExact
        <5> QED
          BY <4>2, <5>1 DEF b
      <4> QED
        BY <3>2, <4>4 DEF NextEpoch
    <3> QED
      BY <3>1, <3>2
  <2> HIDE DEF seq, turn, epoch, ix
  <2>4. ix.index = isn + n
    BY <2>1, <2>2, <2>3 DEF ci_flow_index_rdp
  <2>5. /\ ix.tracker.have_last_seq
        /\ ci_flow_index_rdp(ix.tracker.epoch, ix.tracker.last_seq) = isn + n
    <3>1. ix.tracker.have_last_seq /\ ix.tracker.epoch = epoch /\ ix.tracker.last_seq = seq
      BY <2>2
    <3> QED
      BY <2>2, <2>4, <3>1
  <2>6. ix.tracker \in [last_seq : 0 .. SeqSpace - 1, have_last_seq : BOOLEAN, epoch : Nat]
    BY <2>1, <2>2, <2>3
  <2>7. Identity(n) = isn + n /\ isn + n \in Nat
    BY <1>0, <1>1 DEF Identity
  <2> QED
    BY <2>4, <2>5, <2>6, <2>7 DEF ix
<1>2. CASE flow # "rdp"
  <2>1. ix.tracker = tracker /\ ix.index = ci_dtp_fragment_index_ovh(n * Stride)
    BY <1>2, FrameFacts DEF ci_flow_index
  <2>2. Stride \in Nat \ {0} /\ ~(Mtu <= Overhead) /\ Mtu - Overhead = Stride
    BY ShimAssumption, FlowAssumption DEF Aligned
  <2>3. ci_dtp_fragment_index_ovh(n * Stride) = n
    BY <2>2, DivMul DEF ci_dtp_fragment_index_ovh
  <2> HIDE DEF ix
  <2>4. ix.index = Identity(n) /\ ix.index \in Nat
    BY <1>2, <2>1, <2>3 DEF Identity
  <2> QED
    BY <1>0, <1>2, <2>1, <2>4 DEF ix
<1> QED
  BY <1>1, <1>2

-----------------------------------------------------------------------------
(* Types and buffers                                                       *)

\* Any packet gets an index and leaves a tracker, whatever the traffic.
LEMMA IndexType ==
  ASSUME TypeOK, NEW n \in Packet
  PROVE  LET ix == ci_flow_index(tracker, FrameOf(n)) IN
         /\ ix.index \in Nat
         /\ ix.tracker \in [last_seq : 0 .. SeqSpace - 1, have_last_seq : BOOLEAN, epoch : Nat]
<1> DEFINE f == FrameOf(n)
           ix == ci_flow_index(tracker, f)
<1>0. /\ SeqSpace \in Nat \ {0} /\ isn \in Nat /\ Stride \in Nat
      /\ tracker \in [last_seq : 0 .. SeqSpace - 1, have_last_seq : BOOLEAN, epoch : Nat]
  BY SpaceFacts, ShimAssumption DEF TypeOK
<1>1. f.seq \in 0 .. SeqSpace - 1 /\ f.off \in Nat
  <2>1. CASE n = Other
    BY <1>0, <2>1 DEF FrameOf
  <2>2. CASE n # Other
    <3>1. n \in Nat /\ isn + n \in Nat /\ n * Stride \in Nat
      BY <1>0, <2>2 DEF Packet
    <3>2. (isn + n) % SeqSpace \in 0 .. SeqSpace - 1
      BY <1>0, <3>1, DivModFacts
    <3> QED
      BY <2>2, <3>1, <3>2 DEF FrameOf
  <2> QED
    BY <2>1, <2>2
<1> HIDE DEF f
<1>2. NextEpoch(tracker, f.seq) \in Nat
  BY <1>0 DEF NextEpoch
<1>3. ci_flow_index_rdp(NextEpoch(tracker, f.seq), f.seq) \in Nat
  BY <1>0, <1>1, <1>2 DEF ci_flow_index_rdp
<1>4. ci_dtp_fragment_index_ovh(f.off) \in Nat
  <2>1. CASE Mtu <= Overhead
    BY <2>1 DEF ci_dtp_fragment_index_ovh
  <2>2. CASE ~(Mtu <= Overhead)
    <3>1. Mtu - Overhead \in Nat \ {0}
      BY <2>2, FlowAssumption
    <3>2. f.off \div (Mtu - Overhead) \in Nat
      BY <1>1, <3>1, DivModFacts
    <3> QED
      BY <2>2, <3>2 DEF ci_dtp_fragment_index_ovh
  <2> QED
    BY <2>1, <2>2
<1>5. CASE f.is_rdp /\ f.parsed
  BY <1>1, <1>2, <1>3, <1>5 DEF ci_flow_index, f
<1>6. CASE ~(f.is_rdp /\ f.parsed)
  BY <1>0, <1>4, <1>6 DEF ci_flow_index, f
<1> QED
  BY <1>5, <1>6

\* The rule's decision is a yes or a no.
LEMMA DecideType ==
  ASSUME TypeOK, NEW index \in Nat
  PROVE  ci_rule_decide(rule, index) \in BOOLEAN
<1>1. CASE rule.replay_vector # NoVector
  <2>1. rule.replay_vector \in Seq(BOOLEAN)
    BY <1>1, ShimAssumption DEF TypeOK
  <2>2. index < Len(rule.replay_vector) => rule.replay_vector[index + 1] \in BOOLEAN
    BY <2>1
  <2> QED
    BY <1>1, <2>2 DEF ci_rule_decide
<1>2. CASE rule.replay_vector = NoVector
  BY <1>2 DEF ci_rule_decide
<1> QED
  BY <1>1, <1>2

\* The real interface takes a frame with its buffer, or leaves both.
LEMMA TargetBase ==
  ASSUME BaseInv, pool > 0, NEW n \in Packet, TargetAccepts(n) \/ TargetRefuses
  PROVE  /\ txq' \in Seq(Packet) /\ Len(txq') <= TxDepth
         /\ pool' \in 0 .. PoolSize /\ pool' + Len(txq') = PoolSize
<1>1. /\ txq \in Seq(Packet) /\ Len(txq) <= TxDepth /\ pool \in Nat /\ pool <= PoolSize
      /\ pool + Len(txq) = PoolSize /\ TxDepth \in Nat /\ PoolSize \in Nat
  BY ShimAssumption DEF BaseInv, TypeOK, BuffersConserved
<1>2. CASE TargetAccepts(n)
  <2>1. txq' \in Seq(Packet) /\ Len(txq') = Len(txq) + 1
    BY <1>1, <1>2 DEF TargetAccepts
  <2> QED
    BY <1>1, <1>2, <2>1 DEF TargetAccepts
<1>3. CASE TargetRefuses
  BY <1>1, <1>3 DEF TargetRefuses
<1> QED
  BY <1>2, <1>3

\* One call of the shim's nexthop.
LEMMA NexthopBase ==
  ASSUME BaseInv, pool > 0, NEW n \in Packet, ci_drop_iface_nexthop(n)
  PROVE  /\ txq' \in Seq(Packet) /\ Len(txq') <= TxDepth
         /\ pool' \in 0 .. PoolSize /\ pool' + Len(txq') = PoolSize
         /\ wire' = wire /\ per_attempt' = per_attempt
         /\ tracker' \in [last_seq : 0 .. SeqSpace - 1, have_last_seq : BOOLEAN, epoch : Nat]
         /\ ge' = [seed |-> ge'.seed, step |-> ge'.step, t_g2b |-> ge'.t_g2b,
                   t_b2g |-> ge'.t_b2g, bad |-> ge'.bad]
         /\ ge'.step \in Nat /\ ge'.bad \in BOOLEAN
         /\ {injected_drops', forwarded', passthrough', nexthop_errors'} \subseteq Nat
         /\ drop_log' \in Seq(LogEntry)
<1>0. TypeOK /\ BuffersConserved /\ drop_log \in Seq(LogEntry)
  BY DEF BaseInv, TypeOK, LogEntry
<1>1. CASE Passthrough(n)
  <2>1. /\ txq' \in Seq(Packet) /\ Len(txq') <= TxDepth
        /\ pool' \in 0 .. PoolSize /\ pool' + Len(txq') = PoolSize
    BY <1>1, TargetBase DEF Passthrough
  <2>0. {injected_drops, forwarded, passthrough, nexthop_errors} \subseteq Nat
    BY <1>0, Zenon DEF TypeOK
  <2>1a. /\ UNCHANGED <<tracker, ge, per_attempt, drop_log, wire, injected_drops, forwarded,
                        nexthop_errors>>
         /\ passthrough' = passthrough + 1
    BY <1>1, Zenon DEF Passthrough, ci_drop_iface_nexthop
  <2>2. /\ UNCHANGED <<tracker, ge, per_attempt, drop_log, wire>>
        /\ {injected_drops', forwarded', passthrough', nexthop_errors'} \subseteq Nat
    BY <2>0, <2>1a
  <2>3. /\ tracker \in [last_seq : 0 .. SeqSpace - 1, have_last_seq : BOOLEAN, epoch : Nat]
        /\ ge = [seed |-> ge.seed, step |-> ge.step, t_g2b |-> ge.t_g2b,
                  t_b2g |-> ge.t_b2g, bad |-> ge.bad]
        /\ ge.step \in Nat /\ ge.bad \in BOOLEAN
    BY <1>0, Zenon DEF TypeOK
  <2> QED
    BY <1>0, <2>1, <2>2, <2>3
<1>2. CASE Decide(n)
  <2> DEFINE ix   == ci_flow_index(tracker, FrameOf(n))
             drop == IF per_attempt THEN ge.bad ELSE ci_rule_decide(rule, ix.index)
  <2>1. /\ tracker' = ix.tracker
        /\ ge' = IF per_attempt THEN ci_ge_state_step(ge) ELSE ge
        /\ drop_log' = Append(drop_log, [pkt |-> n, index |-> ix.index, dropped |-> drop])
        /\ IF drop THEN DropPacket ELSE KeepPacket(n)
        /\ UNCHANGED <<per_attempt, passthrough, wire>>
    BY <1>2, Zenon DEF Decide, ci_drop_iface_nexthop, Passthrough
  <2>2. /\ ix.index \in Nat
        /\ ix.tracker \in [last_seq : 0 .. SeqSpace - 1, have_last_seq : BOOLEAN, epoch : Nat]
    BY <1>0, IndexType
  <2> HIDE DEF ix
  <2>3. drop \in BOOLEAN
    BY <1>0, <2>2, DecideType DEF TypeOK
  <2>4. [pkt |-> n, index |-> ix.index, dropped |-> drop] \in LogEntry
    BY <2>2, <2>3 DEF LogEntry
  <2> HIDE DEF drop
  <2>5. drop_log' \in Seq(LogEntry)
    BY <1>0, <2>1, <2>4
  <2>6. /\ ge' = [seed |-> ge'.seed, step |-> ge'.step, t_g2b |-> ge'.t_g2b,
                  t_b2g |-> ge'.t_b2g, bad |-> ge'.bad]
        /\ ge'.step \in Nat /\ ge'.bad \in BOOLEAN
    <3>1. CASE per_attempt
      <4>1. ge' = ci_ge_state_step(ge)
        BY <2>1, <3>1
      <4>2. /\ ge = [seed |-> ge.seed, step |-> ge.step, t_g2b |-> ge.t_g2b,
                     t_b2g |-> ge.t_b2g, bad |-> ge.bad]
            /\ ge.step \in Nat /\ ge.bad \in BOOLEAN
        BY <1>0 DEF TypeOK
      <4> DEFINE nb == IF ge.bad THEN ~(Draw(ge.seed, ge.step) < ge.t_b2g)
                       ELSE Draw(ge.seed, ge.step) < ge.t_g2b
      <4>3. nb \in BOOLEAN
        <5>1. (Draw(ge.seed, ge.step) < ge.t_b2g) \in BOOLEAN
          OBVIOUS
        <5>2. (Draw(ge.seed, ge.step) < ge.t_g2b) \in BOOLEAN
          OBVIOUS
        <5> QED
          BY <5>1, <5>2, Zenon
      <4>4. ge' = [ge EXCEPT !.step = ge.step + 1, !.bad = nb]
        BY <4>1, <4>2 DEF ci_ge_state_step
      <4> HIDE DEF nb
      <4>5. ge' = [seed |-> ge.seed, step |-> ge.step + 1, t_g2b |-> ge.t_g2b,
                   t_b2g |-> ge.t_b2g, bad |-> nb]
        BY <4>2, <4>4
      <4> QED
        BY <4>2, <4>3, <4>5
    <3>2. CASE ~per_attempt
      BY <1>0, <2>1, <3>2 DEF TypeOK
    <3> QED
      BY <3>1, <3>2
  <2>7. CASE drop
    <3>1. DropPacket
      BY <2>1, <2>7
    <3>2. /\ txq \in Seq(Packet) /\ Len(txq) <= TxDepth /\ pool \in 0 .. PoolSize
          /\ pool + Len(txq) = PoolSize
          /\ {injected_drops, forwarded, passthrough, nexthop_errors} \subseteq Nat
      BY <1>0, Zenon DEF TypeOK, BuffersConserved
    <3>3. /\ txq' \in Seq(Packet) /\ Len(txq') <= TxDepth
          /\ pool' \in 0 .. PoolSize /\ pool' + Len(txq') = PoolSize
      BY <3>1, <3>2 DEF DropPacket
    <3>4. {injected_drops', forwarded', passthrough', nexthop_errors'} \subseteq Nat
      BY <2>1, <3>1, <3>2 DEF DropPacket
    <3> QED
      BY <2>1, <2>2, <2>5, <2>6, <3>3, <3>4
  <2>8. CASE ~drop
    <3>1. KeepPacket(n)
      BY <2>1, <2>8
    <3>2. /\ txq' \in Seq(Packet) /\ Len(txq') <= TxDepth
          /\ pool' \in 0 .. PoolSize /\ pool' + Len(txq') = PoolSize
      BY <3>1, TargetBase DEF KeepPacket
    <3>3. {injected_drops', forwarded', passthrough', nexthop_errors'} \subseteq Nat
      BY <1>0, <2>1, <3>1, SMTT(60) DEF KeepPacket, TypeOK
    <3> QED
      BY <2>1, <2>2, <2>5, <2>6, <3>2, <3>3
  <2> QED
    BY <2>7, <2>8
<1> QED
  BY <1>1, <1>2 DEF ci_drop_iface_nexthop

\* Every step keeps the types and the buffers.
LEMMA BaseStep ==
  ASSUME BaseInv, [Next]_vars
  PROVE  BaseInv'
<1>0. TypeOK /\ BuffersConserved /\ Other \in Packet /\ Nat \subseteq Packet
  BY DEF BaseInv, Packet
<1>1. CASE SendNew
  <2>1. /\ pool > 0 /\ fresh \in Packet /\ ci_drop_iface_nexthop(fresh)
        /\ fresh' = fresh + 1 /\ lastNum' = fresh /\ UNCHANGED <<rule, flow, isn>>
    BY <1>0, <1>1 DEF SendNew, CanSend, TypeOK
  <2>2. fresh' \in Nat /\ lastNum' \in 0 .. fresh'
    BY <1>0, <2>1, SMTT(60) DEF TypeOK
  <2> QED
    BY <1>0, <2>1, <2>2, NexthopBase DEF BaseInv, TypeOK, BuffersConserved, LogEntry
<1>2. CASE Resend
  <2>1. PICK n \in 0 .. fresh - 1 : ci_drop_iface_nexthop(n) /\ lastNum' = n
    BY <1>2 DEF Resend
  <2>2. /\ pool > 0 /\ n \in Packet /\ UNCHANGED <<rule, flow, isn, fresh>>
        /\ lastNum' \in 0 .. fresh'
    BY <1>0, <1>2, <2>1, SMTT(60) DEF Resend, CanSend, TypeOK
  <2> QED
    BY <1>0, <2>1, <2>2, NexthopBase DEF BaseInv, TypeOK, BuffersConserved, LogEntry
<1>3. CASE SendOther
  <2>1. /\ pool > 0 /\ ci_drop_iface_nexthop(Other) /\ UNCHANGED <<rule, flow, isn, fresh, lastNum>>
    BY <1>3 DEF SendOther, CanSend, senderVars
  <2> QED
    BY <1>0, <2>1, NexthopBase DEF BaseInv, TypeOK, BuffersConserved, LogEntry
<1>4. CASE Transmit
  <2>1. /\ txq \in Seq(Packet) /\ txq # <<>> /\ wire \in Seq(Packet)
        /\ wire' = Append(wire, Head(txq)) /\ txq' = Tail(txq) /\ pool' = pool + 1
        /\ Len(txq) <= TxDepth /\ pool \in Nat /\ pool + Len(txq) = PoolSize
        /\ PoolSize \in Nat /\ TxDepth \in Nat
    BY <1>0, <1>4, ShimAssumption DEF Transmit, TypeOK, BuffersConserved
  <2>2. /\ txq' \in Seq(Packet) /\ Len(txq') = Len(txq) - 1 /\ wire' \in Seq(Packet)
        /\ Len(txq') \in Nat
    BY <2>1
  <2>3. pool' \in 0 .. PoolSize /\ pool' + Len(txq') = PoolSize /\ Len(txq') <= TxDepth
    <3> DEFINE k == Len(txq)
               l == Len(txq')
    <3>1. k \in Nat /\ l \in Nat /\ l = k - 1 /\ k <= TxDepth /\ pool + k = PoolSize
      BY <2>1, <2>2
    <3> HIDE DEF k, l
    <3>2. pool' \in 0 .. PoolSize /\ pool' + l = PoolSize /\ l <= TxDepth
      BY <2>1, <3>1
    <3> QED
      BY <3>2 DEF l
  <2> QED
    BY <1>0, <1>4, <2>2, <2>3
    DEF Transmit, BaseInv, TypeOK, BuffersConserved, senderVars, shimVars
<1>5. CASE ci_drop_iface_enable_ge
  <2>1. /\ ge' = [seed |-> ge'.seed, step |-> ge'.step, t_g2b |-> ge'.t_g2b,
                  t_b2g |-> ge'.t_b2g, bad |-> ge'.bad]
        /\ ge'.step \in Nat /\ ge'.bad \in BOOLEAN
    <3>1. PICK t \in Thresholds : ge' = ci_ge_state_init(rule.seed, t[1], t[2])
      BY <1>5 DEF ci_drop_iface_enable_ge
    <3> QED
      BY <3>1 DEF ci_ge_state_init
  <2> QED
    BY <1>0, <1>5, <2>1
    DEF ci_drop_iface_enable_ge, BaseInv, TypeOK, BuffersConserved, senderVars
<1>6. CASE UNCHANGED vars
  BY <1>0, <1>6 DEF vars, BaseInv, TypeOK, BuffersConserved
<1> QED
  BY <1>1, <1>2, <1>3, <1>4, <1>5, <1>6 DEF Next, Stopped

-----------------------------------------------------------------------------
(* The index                                                               *)

\* Appending an entry to the log that carries the packet's identity.
LEMMA AppendIdentity ==
  ASSUME BaseInv, IndexIsIdentity, NEW e \in LogEntry,
         drop_log' = Append(drop_log, e), UNCHANGED <<flow, isn>>,
         e.pkt # Other => e.index = Identity(e.pkt)
  PROVE  IndexIsIdentity'
<1>1. drop_log \in Seq(LogEntry)
  BY DEF BaseInv, TypeOK, LogEntry
<1>2. /\ Len(drop_log') = Len(drop_log) + 1 /\ drop_log'[Len(drop_log) + 1] = e
      /\ \A i \in 1 .. Len(drop_log) : drop_log'[i] = drop_log[i]
      /\ Len(drop_log) \in Nat
  BY <1>1
<1>3. ASSUME NEW i \in 1 .. Len(drop_log'), drop_log'[i].pkt # Other
      PROVE  drop_log'[i].index = Identity(drop_log'[i].pkt)
  <2>1. CASE i = Len(drop_log) + 1
    BY <1>2, <1>3, <2>1
  <2>2. CASE i # Len(drop_log) + 1
    <3>1. i \in 1 .. Len(drop_log) /\ drop_log'[i] = drop_log[i]
      BY <1>2, <2>2
    <3> QED
      BY <1>3, <3>1 DEF IndexIsIdentity
  <2> QED
    BY <2>1, <2>2
<1> QED
  BY <1>3 DEF IndexIsIdentity, Identity

\* What one in-scope call logs and does to the tracker.
LEMMA DecideLogs ==
  ASSUME BaseInv, NEW n \in Packet, Decide(n)
  PROVE  LET ix == ci_flow_index(tracker, FrameOf(n)) IN
         /\ tracker' = ix.tracker
         /\ \E e \in LogEntry :
              e.pkt = n /\ e.index = ix.index /\ drop_log' = Append(drop_log, e)
<1> DEFINE ix   == ci_flow_index(tracker, FrameOf(n))
           drop == IF per_attempt THEN ge.bad ELSE ci_rule_decide(rule, ix.index)
           e    == [pkt |-> n, index |-> ix.index, dropped |-> drop]
<1>1. tracker' = ix.tracker /\ drop_log' = Append(drop_log, e)
  BY Zenon DEF Decide
<1>2. ix.index \in Nat
  BY IndexType DEF BaseInv
<1> HIDE DEF ix
<1>3. drop \in BOOLEAN
  BY <1>2, DecideType DEF BaseInv, TypeOK
<1> HIDE DEF drop
<1>4. e \in LogEntry /\ e.pkt = n /\ e.index = ix.index
  BY <1>2, <1>3 DEF LogEntry
<1> HIDE DEF e
<1> QED
  BY <1>1, <1>4 DEF ix

\* Sending a packet of the flow keeps the tracker and the log exact.
LEMMA SendExact ==
  ASSUME BaseInv, IndexInv, Aligned, NEW n \in Nat, MaySend(n), ci_drop_iface_nexthop(n),
         UNCHANGED <<rule, flow, isn>>, lastNum' = n, fresh' > 0, fresh = 0 => n = 0
  PROVE  TrackerExact' /\ IndexIsIdentity'
<1>0. /\ TypeOK /\ LastInWindow /\ TrackerExact /\ IndexIsIdentity /\ n \in Packet /\ n # Other
      /\ rule.match_rdp_syn \in BOOLEAN
  BY SpaceFacts DEF BaseInv, IndexInv, Packet, Other
<1>1. InScope(0)' <=> InScope(0)
  BY DEF InScope, ci_rule_match, FrameOf
<1>2. CASE InScope(n)
  <2>1. Decide(n)
    BY <1>2 DEF ci_drop_iface_nexthop, Passthrough
  <2> DEFINE ix == ci_flow_index(tracker, FrameOf(n))
  <2>2. PICK e \in LogEntry :
          e.pkt = n /\ e.index = ix.index /\ drop_log' = Append(drop_log, e)
    BY <1>0, <2>1, DecideLogs
  <2>3. /\ ix.index = Identity(n) /\ tracker' = ix.tracker
        /\ flow = "rdp" =>
             /\ ix.tracker.have_last_seq
             /\ ci_flow_index_rdp(ix.tracker.epoch, ix.tracker.last_seq) = isn + n
    BY <1>0, <1>2, <2>1, DecideLogs, FlowIndexExact
  <2> HIDE DEF ix
  <2>4. IndexIsIdentity'
    BY <1>0, <2>2, <2>3, AppendIdentity
  <2>5. LastSeen' = n /\ InScope(0)
    BY <1>0, <1>2, ScopeFacts DEF LastSeen
  <2> QED
    BY <1>1, <2>3, <2>4, <2>5 DEF TrackerExact, ci_flow_index_rdp
<1>3. CASE ~InScope(n)
  <2>1. UNCHANGED <<tracker, drop_log>>
    BY <1>3 DEF ci_drop_iface_nexthop, Passthrough, Decide
  <2>2. IndexIsIdentity'
    BY <1>0, <2>1 DEF IndexIsIdentity, Identity
  <2>3. InScope(0) => rule.match_rdp_syn
    <3>1. ~rule.match_rdp_syn => (InScope(0) <=> InScope(n))
      BY <1>0, FrameFacts DEF InScope, ci_rule_match
    <3> QED
      BY <1>0, <1>3, <3>1
  <2>4. CASE tracker.have_last_seq
    BY <1>0, <1>1, <2>1, <2>2, <2>3, <2>4 DEF TrackerExact, LastSeen, ci_flow_index_rdp
  <2>5. CASE ~tracker.have_last_seq
    <3>1. flow = "rdp" => tracker.epoch = 0 /\ ~InScope(0)
      BY <1>0, <1>3, <2>5 DEF TrackerExact, TypeOK
    <3> QED
      BY <1>1, <2>1, <2>2, <2>5, <3>1 DEF TrackerExact
  <2> QED
    BY <2>4, <2>5
<1> QED
  BY <1>2, <1>3

\* Every step keeps the index exact.
LEMMA IndexStep ==
  ASSUME BaseInv, IndexInv, Aligned, [Next]_vars
  PROVE  IndexInv'
<1>0. /\ TypeOK /\ LastInWindow /\ TrackerExact /\ IndexIsIdentity /\ fresh \in Nat
      /\ Window \in Nat /\ lastNum \in Nat
  BY SpaceFacts DEF BaseInv, IndexInv, TypeOK
<1>1. CASE SendNew
  <2>1. /\ ci_drop_iface_nexthop(fresh) /\ fresh' = fresh + 1 /\ lastNum' = fresh
        /\ UNCHANGED <<rule, flow, isn>>
    BY <1>1 DEF SendNew
  <2>2. LastInWindow'
    BY <1>0, <2>1 DEF LastInWindow
  <2>3. MaySend(fresh)
    BY DEF MaySend
  <2>4. TrackerExact' /\ IndexIsIdentity'
    BY <1>0, <2>1, <2>3, SendExact
  <2> QED
    BY <2>2, <2>4 DEF IndexInv
<1>2. CASE Resend
  <2>1. PICK n \in 0 .. fresh - 1 :
          /\ flow = "rdp" => n + Window >= fresh /\ (ReorderAcrossWrap \/ SameTurn(n))
          /\ ci_drop_iface_nexthop(n) /\ lastNum' = n
    BY <1>2 DEF Resend
  <2>2. UNCHANGED <<rule, flow, isn, fresh>> /\ n \in Nat /\ n < fresh /\ fresh > 0
    BY <1>0, <1>2, <2>1 DEF Resend
  <2>3. LastInWindow'
    BY <1>0, <2>1, <2>2 DEF LastInWindow
  <2>4. MaySend(n)
    BY <2>1, <2>2 DEF MaySend, Aligned
  <2>5. TrackerExact' /\ IndexIsIdentity'
    BY <1>0, <2>1, <2>2, <2>4, SendExact
  <2> QED
    BY <2>3, <2>5 DEF IndexInv
<1>3. CASE SendOther
  <2>1. ci_drop_iface_nexthop(Other) /\ UNCHANGED <<rule, flow, isn, fresh, lastNum>>
    BY <1>3 DEF SendOther, senderVars
  <2>2. tracker' = tracker /\ IndexIsIdentity'
    <3>1. CASE Passthrough(Other)
      BY <1>0, <2>1, <3>1 DEF Passthrough, IndexIsIdentity, Identity
    <3>2. CASE Decide(Other)
      <4> DEFINE ix == ci_flow_index(tracker, FrameOf(Other))
      <4>1. ix.tracker = tracker
        BY DEF ci_flow_index, FrameOf
      <4>2. /\ tracker' = ix.tracker
            /\ \E e \in LogEntry :
                 e.pkt = Other /\ e.index = ix.index /\ drop_log' = Append(drop_log, e)
        BY <3>2, DecideLogs DEF Packet
      <4> HIDE DEF ix
      <4> QED
        BY <1>0, <2>1, <4>1, <4>2, AppendIdentity
    <3> QED
      BY <2>1, <3>1, <3>2 DEF ci_drop_iface_nexthop
  <2> QED
    BY <1>0, <2>1, <2>2
    DEF IndexInv, LastInWindow, TrackerExact, LastSeen, InScope, ci_rule_match, FrameOf
<1>4. CASE UNCHANGED <<senderVars, tracker, drop_log>>
  BY <1>0, <1>4
  DEF IndexInv, LastInWindow, TrackerExact, LastSeen, InScope, ci_rule_match, FrameOf,
      IndexIsIdentity, Identity, senderVars
<1>5. CASE Transmit \/ ci_drop_iface_enable_ge \/ UNCHANGED vars
  BY <1>4, <1>5 DEF Transmit, ci_drop_iface_enable_ge, senderVars, shimVars, vars
<1> QED
  BY <1>1, <1>2, <1>3, <1>5 DEF Next, Stopped

-----------------------------------------------------------------------------
(* The theorems                                                            *)

\* The initial states.
LEMMA InitInv == Init => BaseInv /\ IndexInv
<1> SUFFICES ASSUME Init PROVE BaseInv /\ IndexInv
  OBVIOUS
<1>1. TypeOK
  <2>1. tracker \in [last_seq : 0 .. SeqSpace - 1, have_last_seq : BOOLEAN, epoch : Nat]
    BY FlowAssumption DEF Init, ci_flow_tracker_init, SeqSpace
  <2>2. /\ ge = [seed |-> ge.seed, step |-> ge.step, t_g2b |-> ge.t_g2b,
                 t_b2g |-> ge.t_b2g, bad |-> ge.bad]
        /\ ge.step \in Nat /\ ge.bad \in BOOLEAN
    BY DEF Init, ci_ge_state_init
  <2>3. pool \in 0 .. PoolSize /\ TxDepth \in Nat
    BY ShimAssumption DEF Init
  <2>4. /\ drop_log \in Seq([pkt : Packet, index : Nat, dropped : BOOLEAN])
        /\ txq \in Seq(Packet) /\ Len(txq) = 0 /\ wire \in Seq(Packet)
    BY DEF Init
  <2> QED
    <3>1. /\ rule \in Rules /\ flow \in Flows /\ isn \in Isns /\ per_attempt \in BOOLEAN
      BY DEF Init
    <3>2. injected_drops = 0 /\ forwarded = 0 /\ passthrough = 0 /\ nexthop_errors = 0
      BY DEF Init
    <3>3. {injected_drops, forwarded, passthrough, nexthop_errors} \subseteq Nat
      BY <3>2
    <3>4. fresh \in Nat /\ lastNum \in 0 .. fresh
      BY DEF Init
    <3>5. Len(txq) <= TxDepth
      BY <2>3, <2>4
    <3> QED
      BY <2>1, <2>2, <2>3, <2>4, <3>1, <3>3, <3>4, <3>5 DEF TypeOK
<1>2. BuffersConserved
  BY ShimAssumption DEF Init, BuffersConserved
<1>3. LastInWindow /\ TrackerExact /\ IndexIsIdentity
  BY ShimAssumption DEF Init, LastInWindow, TrackerExact, ci_flow_tracker_init, IndexIsIdentity
<1> QED
  BY <1>1, <1>2, <1>3 DEF BaseInv, IndexInv

\* The shim's state is always well typed.
THEOREM TypeCorrect == Spec => []TypeOK
<1>1. BaseInv => TypeOK
  BY DEF BaseInv
<1>2. BaseInv /\ [Next]_vars => BaseInv'
  BY BaseStep
<1> QED
  BY <1>1, <1>2, InitInv, PTL DEF Spec

\* No buffer is lost or freed twice, for any rule, mode, pool and queue.
THEOREM DropContract == Spec => []BuffersConserved
<1>1. BaseInv => BuffersConserved
  BY DEF BaseInv
<1>2. BaseInv /\ [Next]_vars => BaseInv'
  BY BaseStep
<1> QED
  BY <1>1, <1>2, InitInv, PTL DEF Spec

\* The wrap epoch is exact: if repeats stay within a window of less than half the
\* sequence space and do not go back over a wrap, every RDP packet is keyed by
\* its absolute number, past any number of wraps; and every DTP fragment by its
\* number, if the sender's fragment size is the tracker's.
THEOREM IndexExact ==
  ASSUME Aligned
  PROVE  Spec => []IndexIsIdentity
<1>1. BaseInv /\ IndexInv /\ [Next]_vars => BaseInv' /\ IndexInv'
  BY BaseStep, IndexStep
<1>2. IndexInv => IndexIsIdentity
  BY DEF IndexInv
<1> QED
  BY <1>1, <1>2, InitInv, PTL DEF Spec

-----------------------------------------------------------------------------
(* The decisions of identity mode                                          *)

\* Every decision of the log is the rule's, taken on the index logged with it.
DecidedByRule ==
  ~per_attempt =>
    \A i \in 1 .. Len(drop_log) :
      drop_log[i].dropped = ci_rule_decide(rule, drop_log[i].index)

LEMMA NexthopDecides ==
  ASSUME BaseInv, DecidedByRule, NEW n \in Packet, ci_drop_iface_nexthop(n), rule' = rule
  PROVE  DecidedByRule'
<1>1. CASE Passthrough(n)
  BY <1>1 DEF Passthrough, DecidedByRule
<1>2. CASE Decide(n) /\ ~per_attempt
  <2> DEFINE ix == ci_flow_index(tracker, FrameOf(n)).index
             drop == ci_rule_decide(rule, ix)
             e  == [pkt |-> n, index |-> ix, dropped |-> drop]
  <2>1. drop_log' = Append(drop_log, e) /\ per_attempt' = per_attempt
    BY <1>2, Zenon DEF Decide
  <2>2. drop_log \in Seq(LogEntry)
    BY DEF BaseInv, TypeOK, LogEntry
  <2>3. e.dropped = ci_rule_decide(rule, e.index)
    OBVIOUS
  <2> HIDE DEF e
  <2>4. /\ Len(drop_log) \in Nat /\ Len(drop_log') = Len(drop_log) + 1
        /\ drop_log'[Len(drop_log) + 1] = e
        /\ \A i \in 1 .. Len(drop_log) : drop_log'[i] = drop_log[i]
    BY <2>1, <2>2
  <2>5. ASSUME NEW i \in 1 .. Len(drop_log')
        PROVE  drop_log'[i].dropped = ci_rule_decide(rule, drop_log'[i].index)
    <3>1. CASE i = Len(drop_log) + 1
      BY <2>3, <2>4, <3>1
    <3>2. CASE i \in 1 .. Len(drop_log)
      BY <1>2, <2>4, <3>2 DEF DecidedByRule
    <3> QED
      BY <2>4, <3>1, <3>2
  <2> QED
    BY <2>5 DEF DecidedByRule
<1>3. CASE Decide(n) /\ per_attempt
  BY <1>3 DEF Decide, DecidedByRule
<1> QED
  BY <1>1, <1>2, <1>3 DEF ci_drop_iface_nexthop

LEMMA DecidedStep ==
  ASSUME BaseInv, DecidedByRule, [Next]_vars
  PROVE  DecidedByRule'
<1>0. Other \in Packet /\ fresh \in Packet /\ Nat \subseteq Packet
  BY DEF BaseInv, TypeOK, Packet
<1>1. CASE SendNew
  BY <1>0, <1>1, NexthopDecides DEF SendNew
<1>2. CASE Resend
  <2>1. PICK n \in 0 .. fresh - 1 : ci_drop_iface_nexthop(n)
    BY <1>2 DEF Resend
  <2>2. n \in Packet
    BY <1>0
  <2> QED
    BY <1>2, <2>1, <2>2, NexthopDecides DEF Resend
<1>3. CASE SendOther
  BY <1>0, <1>3, NexthopDecides DEF SendOther, senderVars
<1>4. CASE ci_drop_iface_enable_ge
  BY <1>4 DEF ci_drop_iface_enable_ge, DecidedByRule
<1>5. CASE Transmit \/ UNCHANGED vars
  BY <1>5 DEF Transmit, senderVars, shimVars, vars, DecidedByRule
<1> QED
  BY <1>1, <1>2, <1>3, <1>4, <1>5 DEF Next, Stopped

\* With the index exact, the rule gives every transmission of a packet the same
\* decision: what ci_rule.h promises holds of all traffic whose repeats do not go
\* back over a wrap of the sequence number, and the run drop_wrap shows that it
\* does not hold of the rest.
THEOREM DecisionsArePure ==
  ASSUME Aligned
  PROVE  Spec => []DecisionIsPure
<1>1. Init => DecidedByRule
  BY DEF Init, DecidedByRule
<1>2. BaseInv /\ IndexInv /\ DecidedByRule /\ [Next]_vars
        => BaseInv' /\ IndexInv' /\ DecidedByRule'
  BY BaseStep, IndexStep, DecidedStep
<1>3. IndexInv /\ DecidedByRule => DecisionIsPure
  <2> SUFFICES ASSUME IndexIsIdentity, DecidedByRule, ~per_attempt,
                      NEW i \in 1 .. Len(drop_log), NEW j \in 1 .. Len(drop_log),
                      drop_log[i].pkt = drop_log[j].pkt, drop_log[i].pkt # Other
               PROVE  drop_log[i].dropped = drop_log[j].dropped
    BY DEF DecisionIsPure, IndexInv
  <2>1. drop_log[i].index = drop_log[j].index
    BY DEF IndexIsIdentity
  <2> QED
    BY <2>1 DEF DecidedByRule
<1> QED
  BY <1>1, <1>2, <1>3, InitInv, PTL DEF Spec

-----------------------------------------------------------------------------
(* The burst-loss chain                                                    *)

\* A set of natural numbers that is not empty has a least one.
LEMMA Least ==
  ASSUME NEW S \in SUBSET Nat, S # {}
  PROVE  \E m \in S : \A n \in S : m <= n
<1>1. PICK m \in S : \A n \in S : ~(<<n, m>> \in OpToRel(<, Nat))
  BY NatLessThanWellFounded, WFMin
<1>2. \A n \in S : ~(n < m)
  BY <1>1 DEF OpToRel
<1> QED
  BY <1>2

\* Where one draw, the i-th, moves the chain.
Moved(x, i, seed, t_g2b, t_b2g) ==
  IF x THEN ~(Draw(Mix(seed), i) < t_b2g) ELSE Draw(Mix(seed), i) < t_g2b

\* A function that starts GOOD and follows the draws is the one ci_ge_fill runs
\* along: the recursion has a solution and, by the least index at which two
\* would differ, no other.
LEMMA FillFollows ==
  ASSUME NEW seed, NEW t_g2b, NEW t_b2g, NEW n \in Nat, NEW g \in [0 .. n -> BOOLEAN],
         ~g[0], \A i \in 1 .. n : g[i] <=> Moved(g[i - 1], i - 1, seed, t_g2b, t_b2g)
  PROVE  ci_ge_fill(seed, t_g2b, t_b2g, n) = [i \in 1 .. n |-> g[i - 1]]
<1> DEFINE Body(b) == [i \in 0 .. n |->
                         IF i = 0 THEN FALSE
                         ELSE IF b[i - 1] THEN ~(Draw(Mix(seed), i - 1) < t_b2g)
                         ELSE Draw(Mix(seed), i - 1) < t_g2b]
           c == CHOOSE b : b = Body(b)
<1>1. ci_ge_fill(seed, t_g2b, t_b2g, n) = [i \in 1 .. n |-> c[i - 1]]
  BY DEF ci_ge_fill
<1>2. g = Body(g)
  <2>1. ASSUME NEW i \in 0 .. n PROVE g[i] = Body(g)[i]
    <3>1. CASE i = 0
      BY <3>1
    <3>2. CASE i # 0
      <4>1. i \in 1 .. n
        BY <3>2
      <4>2. g[i] <=> Moved(g[i - 1], i - 1, seed, t_g2b, t_b2g)
        BY <4>1
      <4> QED
        BY <3>2, <4>1, <4>2 DEF Moved
    <3> QED
      BY <3>1, <3>2
  <2> HIDE DEF Body
  <2>2. DOMAIN Body(g) = 0 .. n
    BY DEF Body
  <2>3. Body(g) = [i \in 0 .. n |-> Body(g)[i]]
    BY DEF Body
  <2> QED
    BY <2>1, <2>2, <2>3
<1>3. c = Body(c)
  <2> HIDE DEF Body
  <2> QED
    BY <1>2
<1> HIDE DEF c
<1>4. \A i \in 0 .. n : c[i] = g[i]
  <2> DEFINE D == {i \in 0 .. n : c[i] # g[i]}
  <2> SUFFICES ASSUME D # {} PROVE FALSE
    OBVIOUS
  <2>1. PICK m \in D : \A i \in D : m <= i
    <3>1. D \in SUBSET Nat
      OBVIOUS
    <3> HIDE DEF D
    <3> QED
      BY <3>1, Least
  <2>2. m # 0
    <3>1. c[0] = FALSE
      BY <1>3
    <3> QED
      BY <2>1, <3>1
  <2>3. m \in 1 .. n /\ m - 1 \in 0 .. n /\ c[m - 1] = g[m - 1]
    BY <2>1, <2>2
  <2>4. c[m] = Body(c)[m] /\ g[m] = Body(g)[m]
    BY <1>2, <1>3
  <2>5. Body(c)[m] = Body(g)[m]
    BY <2>3
  <2> QED
    BY <2>1, <2>4, <2>5
<1>5. \A i \in 1 .. n : i - 1 \in 0 .. n /\ c[i - 1] = g[i - 1]
  BY <1>4
<1> QED
  BY <1>1, <1>5

\* The states the chain has been in: those the log was decided by and the one
\* that decides next.
Course == [i \in 0 .. Len(drop_log) |->
             IF i < Len(drop_log) THEN drop_log[i + 1].dropped ELSE ge.bad]

\* The chain started GOOD and has drawn once for every entry of the log.
ChainExact ==
  per_attempt =>
    /\ ge.seed = Mix(rule.seed)
    /\ ge.step = Len(drop_log)
    /\ ~Course[0]
    /\ \A i \in 1 .. Len(drop_log) :
         Course[i] <=> Moved(Course[i - 1], i - 1, rule.seed, ge.t_g2b, ge.t_b2g)

\* It then replays ci_ge_fill.
LEMMA CourseReplays ==
  ASSUME TypeOK, ChainExact
  PROVE  ChannelReplays
<1> SUFFICES ASSUME per_attempt
             PROVE  [i \in 1 .. Len(drop_log) |-> drop_log[i].dropped]
                      = ci_ge_fill(rule.seed, ge.t_g2b, ge.t_b2g, Len(drop_log))
  BY DEF ChannelReplays
<1>1. drop_log \in Seq(LogEntry) /\ Len(drop_log) \in Nat /\ ge.bad \in BOOLEAN
  BY DEF TypeOK, LogEntry
<1>2. ASSUME NEW i \in 1 .. Len(drop_log) PROVE drop_log[i].dropped \in BOOLEAN
  <2>1. drop_log[i] \in LogEntry
    BY <1>1
  <2> QED
    BY <2>1 DEF LogEntry
<1>3. Course \in [0 .. Len(drop_log) -> BOOLEAN]
  BY <1>1, <1>2 DEF Course
<1>4. ci_ge_fill(rule.seed, ge.t_g2b, ge.t_b2g, Len(drop_log))
        = [i \in 1 .. Len(drop_log) |-> Course[i - 1]]
  <2>1. PICK g : g = Course
    OBVIOUS
  <2>2. PICK n : n = Len(drop_log)
    OBVIOUS
  <2>3. /\ n \in Nat /\ g \in [0 .. n -> BOOLEAN] /\ ~g[0]
        /\ \A i \in 1 .. n : g[i] <=> Moved(g[i - 1], i - 1, rule.seed, ge.t_g2b, ge.t_b2g)
    BY <1>1, <1>3, <2>1, <2>2 DEF ChainExact
  <2>4. ci_ge_fill(rule.seed, ge.t_g2b, ge.t_b2g, n) = [i \in 1 .. n |-> g[i - 1]]
    BY <2>3, FillFollows
  <2> QED
    BY <2>1, <2>2, <2>4
<1>5. \A i \in 1 .. Len(drop_log) : Course[i - 1] = drop_log[i].dropped
  BY <1>1 DEF Course
<1> QED
  BY <1>4, <1>5

\* One decision in per-attempt mode moves the chain by one draw.
LEMMA DecideCourse ==
  ASSUME BaseInv, ChainExact, per_attempt, NEW n \in Packet, Decide(n), rule' = rule
  PROVE  ChainExact'
<1> DEFINE len == Len(drop_log)
           e == [pkt |-> n, index |-> ci_flow_index(tracker, FrameOf(n)).index,
                 dropped |-> ge.bad]
<1>1. drop_log \in Seq(LogEntry) /\ len \in Nat /\ ge.bad \in BOOLEAN
  BY DEF BaseInv, TypeOK, LogEntry
<1>2. drop_log' = Append(drop_log, e) /\ ge' = ci_ge_state_step(ge) /\ per_attempt' = per_attempt
  BY Zenon DEF Decide
<1> HIDE DEF e
<1>3. e.dropped = ge.bad
  BY DEF e
<1>4. Len(drop_log') = len + 1 /\ drop_log'[len + 1] = e
      /\ \A i \in 1 .. len : drop_log'[i] = drop_log[i]
  BY <1>1, <1>2
<1>5. ge = [seed |-> ge.seed, step |-> ge.step, t_g2b |-> ge.t_g2b, t_b2g |-> ge.t_b2g,
            bad |-> ge.bad] /\ ge.step \in Nat
  BY DEF BaseInv, TypeOK
<1>6. /\ ge'.seed = ge.seed /\ ge'.step = ge.step + 1
      /\ ge'.t_g2b = ge.t_g2b /\ ge'.t_b2g = ge.t_b2g
  BY <1>2, <1>5 DEF ci_ge_state_step
<1>7. ge'.bad <=> Moved(ge.bad, len, rule.seed, ge.t_g2b, ge.t_b2g)
  <2>1. ge'.bad = IF ge.bad THEN ~(Draw(ge.seed, ge.step) < ge.t_b2g)
                  ELSE Draw(ge.seed, ge.step) < ge.t_g2b
    BY <1>2, <1>5 DEF ci_ge_state_step
  <2>2. ge.seed = Mix(rule.seed) /\ ge.step = len
    BY DEF ChainExact
  <2> QED
    BY <2>1, <2>2 DEF Moved
<1>8. /\ \A i \in 0 .. len : Course'[i] = Course[i]
      /\ Course'[len + 1] = ge'.bad
      /\ Course[len] = ge.bad
  <2>1. ASSUME NEW i \in 0 .. len PROVE Course'[i] = Course[i]
    <3>1. CASE i = len
      BY <1>1, <1>3, <1>4, <3>1 DEF Course
    <3>2. CASE i # len
      BY <1>1, <1>4, <3>2 DEF Course
    <3> QED
      BY <3>1, <3>2
  <2>2. Course'[len + 1] = ge'.bad /\ Course[len] = ge.bad
    BY <1>1, <1>4 DEF Course
  <2> QED
    BY <2>1, <2>2
<1>9. ASSUME NEW i \in 1 .. len + 1
      PROVE  Course'[i] <=> Moved(Course'[i - 1], i - 1, rule.seed, ge.t_g2b, ge.t_b2g)
  <2>1. CASE i = len + 1
    <3>1. i - 1 = len /\ Course'[i - 1] = ge.bad /\ Course'[i] = ge'.bad
      BY <1>1, <1>8, <2>1
    <3> QED
      BY <1>7, <3>1
  <2>2. CASE i # len + 1
    <3>1. i \in 1 .. len /\ Course'[i] = Course[i] /\ Course'[i - 1] = Course[i - 1]
      BY <1>1, <1>8, <2>2
    <3> QED
      BY <3>1 DEF ChainExact
  <2> QED
    BY <2>1, <2>2
<1>10. ~Course'[0]
  BY <1>1, <1>8 DEF ChainExact
<1>11. ge'.seed = Mix(rule.seed) /\ ge'.step = Len(drop_log')
  BY <1>4, <1>6 DEF ChainExact
<1> QED
  BY <1>4, <1>6, <1>9, <1>10, <1>11 DEF ChainExact

\* A frame that is passed by untouched, or that is decided by the rule.
LEMMA NexthopCourse ==
  ASSUME BaseInv, ChainExact, NEW n \in Packet, ci_drop_iface_nexthop(n), rule' = rule
  PROVE  ChainExact'
<1>1. CASE Passthrough(n)
  <2>1. UNCHANGED <<drop_log, ge, per_attempt>>
    BY <1>1 DEF Passthrough
  <2>2. Course' = Course
    BY <2>1 DEF Course
  <2> QED
    BY <2>1, <2>2 DEF ChainExact
<1>2. CASE Decide(n) /\ per_attempt
  BY <1>2, DecideCourse
<1>3. CASE Decide(n) /\ ~per_attempt
  BY <1>3 DEF Decide, ChainExact
<1> QED
  BY <1>1, <1>2, <1>3 DEF ci_drop_iface_nexthop

LEMMA ChainStep ==
  ASSUME BaseInv, ChainExact, [Next]_vars
  PROVE  ChainExact'
<1>0. Other \in Packet /\ fresh \in Nat /\ Nat \subseteq Packet
  BY DEF BaseInv, TypeOK, Packet
<1>1. CASE SendNew
  BY <1>0, <1>1, NexthopCourse DEF SendNew
<1>2. CASE Resend
  <2>1. PICK n \in 0 .. fresh - 1 : ci_drop_iface_nexthop(n)
    BY <1>2 DEF Resend
  <2>2. n \in Packet
    BY <1>0
  <2> QED
    BY <1>2, <2>1, <2>2, NexthopCourse DEF Resend
<1>3. CASE SendOther
  BY <1>0, <1>3, NexthopCourse DEF SendOther, senderVars
<1>4. CASE ci_drop_iface_enable_ge
  <2>1. PICK t \in Thresholds : ge' = ci_ge_state_init(rule.seed, t[1], t[2])
    BY <1>4 DEF ci_drop_iface_enable_ge
  <2>2. Len(drop_log) = 0 /\ drop_log' = drop_log /\ rule' = rule
    <3>1. Len(drop_log) + passthrough = 0 /\ Len(drop_log) \in Nat /\ passthrough \in Nat
      BY <1>4 DEF ci_drop_iface_enable_ge, Sent, BaseInv, TypeOK
    <3> QED
      BY <1>4, <3>1 DEF ci_drop_iface_enable_ge, senderVars
  <2>3. ge'.seed = Mix(rule.seed) /\ ge'.step = 0 /\ ge'.bad = FALSE
    BY <2>1 DEF ci_ge_state_init
  <2>4. ~Course'[0]
    BY <2>2, <2>3 DEF Course
  <2> QED
    BY <2>2, <2>3, <2>4 DEF ChainExact
<1>5. CASE Transmit \/ UNCHANGED vars
  BY <1>5 DEF Transmit, senderVars, shimVars, vars, ChainExact, Course
<1> QED
  BY <1>1, <1>2, <1>3, <1>4, <1>5 DEF Next, Stopped

\* In per-attempt mode the decisions of a run are the vector ci_ge_fill gives for
\* the same seed and thresholds, whatever is sent, repeated or passed by in
\* between, for every draw function and number of transmissions.
THEOREM ReplayHolds == Spec => []ChannelReplays
<1>1. Init => ChainExact
  BY DEF Init, ChainExact
<1>2. BaseInv /\ ChainExact /\ [Next]_vars => BaseInv' /\ ChainExact'
  BY BaseStep, ChainStep
<1>3. BaseInv /\ ChainExact => ChannelReplays
  BY CourseReplays DEF BaseInv
<1>4. Init => BaseInv
  BY InitInv
<1> QED
  BY <1>1, <1>2, <1>3, <1>4, PTL DEF Spec

-----------------------------------------------------------------------------
(* The log against the bus                                                 *)

\* Positions of a sequence are finitely many.
LEMMA PositionsFinite ==
  ASSUME NEW n \in Nat, NEW S \in SUBSET (1 .. n)
  PROVE  /\ IsFiniteSet(S) /\ Cardinality(S) \in Nat
         /\ n + 1 \notin S
         /\ Cardinality(S \cup {n + 1}) = Cardinality(S) + 1
<1>1. 1 \in Int /\ n \in Int
  OBVIOUS
<1>2. IsFiniteSet(S)
  BY <1>1, FS_Interval, FS_Subset
<1>3. n + 1 \notin S
  OBVIOUS
<1> QED
  BY <1>2, <1>3, FS_CardinalityType, FS_AddElement

\* A position added at the end comes after the others and leaves them in place.
LEMMA PlaceAtEnd ==
  ASSUME NEW n \in Nat, NEW S \in SUBSET (1 .. n)
  PROVE  /\ Place(S \cup {n + 1}, n + 1) = Cardinality(S) + 1
         /\ \A i \in S : /\ Place(S \cup {n + 1}, i) = Place(S, i)
                         /\ Place(S, i) \in Nat
                         /\ Place(S, i) <= Cardinality(S)
<1>a. \A k \in S \cup {n + 1} : k <= n + 1
  OBVIOUS
<1>1. {k \in S \cup {n + 1} : k <= n + 1} = S \cup {n + 1}
  BY <1>a
<1>2. Place(S \cup {n + 1}, n + 1) = Cardinality(S) + 1
  BY <1>1, PositionsFinite DEF Place
<1>3. ASSUME NEW i \in S
      PROVE  /\ Place(S \cup {n + 1}, i) = Place(S, i)
             /\ Place(S, i) \in Nat /\ Place(S, i) <= Cardinality(S)
  <2> DEFINE B == {k \in S : k <= i}
  <2>1. {k \in S \cup {n + 1} : k <= i} = B
    OBVIOUS
  <2>2. B \in SUBSET S /\ IsFiniteSet(S)
    BY PositionsFinite
  <2>3. Place(S, i) = Cardinality(B) /\ Place(S \cup {n + 1}, i) = Cardinality(B)
    BY <2>1 DEF Place
  <2> HIDE DEF B
  <2>4. Cardinality(B) <= Cardinality(S) /\ Cardinality(B) \in Nat
    BY <2>2, FS_Subset, FS_CardinalityType
  <2> QED
    BY <2>3, <2>4
<1> QED
  BY <1>2, <1>3

\* The k-th of the entries S of the log names the k-th of the frames T of out.
SameOrder(S, log, T, out) ==
  \A i \in S, j \in T : Place(S, i) = Place(T, j) => log[i].pkt = out[j]

\* It stays so when one of each is added at the end.
LEMMA BothGrow ==
  ASSUME NEW m \in Nat, NEW n \in Nat, NEW S \in SUBSET (1 .. m), NEW T \in SUBSET (1 .. n),
         Cardinality(S) = Cardinality(T), NEW log, NEW out, NEW log2, NEW out2,
         SameOrder(S, log, T, out),
         \A i \in 1 .. m : log2[i] = log[i], \A j \in 1 .. n : out2[j] = out[j],
         log2[m + 1].pkt = out2[n + 1]
  PROVE  SameOrder(S \cup {m + 1}, log2, T \cup {n + 1}, out2)
<1> SUFFICES ASSUME NEW i \in S \cup {m + 1}, NEW j \in T \cup {n + 1},
                    Place(S \cup {m + 1}, i) = Place(T \cup {n + 1}, j)
             PROVE  log2[i].pkt = out2[j]
  BY DEF SameOrder
<1>1. Cardinality(S) \in Nat
  BY PositionsFinite
<1>2. CASE i \in S /\ j \in T
  <2>1. Place(S, i) = Place(T, j) /\ i \in 1 .. m /\ j \in 1 .. n
    BY <1>2, PlaceAtEnd
  <2> QED
    BY <1>2, <2>1 DEF SameOrder
<1>3. CASE i = m + 1 /\ j = n + 1
  BY <1>3
<1>4. CASE i \in S /\ j = n + 1
  BY <1>1, <1>4, PlaceAtEnd
<1>5. CASE i = m + 1 /\ j \in T
  BY <1>1, <1>5, PlaceAtEnd
<1> QED
  BY <1>2, <1>3, <1>4, <1>5

\* What a step does to the queue and the bus: nothing to their contents, or one
\* frame more.
OneMore(n) == /\ Outgoing' \in Seq(Packet)
              /\ Len(Outgoing') = Len(Outgoing) + 1
              /\ Outgoing'[Len(Outgoing) + 1] = n
              /\ \A j \in 1 .. Len(Outgoing) : Outgoing'[j] = Outgoing[j]

LEMMA OutgoingType == ASSUME TypeOK PROVE Outgoing \in Seq(Packet) /\ Len(Outgoing) \in Nat
  BY DEF TypeOK, Outgoing

LEMMA AcceptGrows ==
  ASSUME TypeOK, NEW n \in Packet, TargetAccepts(n), wire' = wire
  PROVE  OneMore(n)
<1>1. txq \in Seq(Packet) /\ wire \in Seq(Packet) /\ txq' = Append(txq, n)
  BY DEF TypeOK, TargetAccepts
<1>2. Outgoing' = wire \o Append(txq, n) /\ Outgoing = wire \o txq
  BY <1>1 DEF Outgoing
<1>3. wire \o Append(txq, n) = Append(wire \o txq, n)
  BY <1>1
<1> QED
  BY <1>1, <1>2, <1>3 DEF OneMore

LEMMA RefuseKeeps ==
  ASSUME TargetRefuses, wire' = wire
  PROVE  Outgoing' = Outgoing
  BY DEF TargetRefuses, Outgoing

LEMMA TransmitKeeps ==
  ASSUME TypeOK, Transmit
  PROVE  Outgoing' = Outgoing
<1>1. /\ txq \in Seq(Packet) /\ wire \in Seq(Packet) /\ txq # <<>>
      /\ wire' = Append(wire, Head(txq)) /\ txq' = Tail(txq)
  BY DEF TypeOK, Transmit
<1>2. Append(wire, Head(txq)) \o Tail(txq) = wire \o txq
  BY <1>1
<1> QED
  BY <1>1, <1>2 DEF Outgoing

\* The scope of a packet does not change.
SameScope == \A n : InScope(n)' <=> InScope(n)

LEMMA ScopeFixed ==
  ASSUME UNCHANGED <<rule, flow, isn>>
  PROVE  SameScope
  BY DEF SameScope, InScope, FrameOf

\* The frames let through, after a step.
LEMMA DeliveredNext ==
  ASSUME TypeOK, SameScope
  PROVE  /\ Delivered \in SUBSET (1 .. Len(Outgoing))
         /\ Outgoing' = Outgoing => Delivered' = Delivered
         /\ \A n : OneMore(n) =>
              Delivered' = IF InScope(n) THEN Delivered \cup {Len(Outgoing) + 1} ELSE Delivered
<1>1. Delivered \in SUBSET (1 .. Len(Outgoing))
  BY DEF Delivered
<1>2. ASSUME Outgoing' = Outgoing PROVE Delivered' = Delivered
  BY <1>2 DEF Delivered, SameScope
<1>3. ASSUME NEW n, OneMore(n)
      PROVE  Delivered' = IF InScope(n) THEN Delivered \cup {Len(Outgoing) + 1} ELSE Delivered
  <2>1. Len(Outgoing) \in Nat
    BY OutgoingType
  <2>2. Delivered' = {j \in 1 .. Len(Outgoing) + 1 : InScope(Outgoing'[j])}
    BY <1>3 DEF Delivered, SameScope, OneMore
  <2>3. \A j \in 1 .. Len(Outgoing) + 1 :
          Outgoing'[j] = IF j = Len(Outgoing) + 1 THEN n ELSE Outgoing[j]
    BY <1>3, <2>1 DEF OneMore
  <2> QED
    BY <2>1, <2>2, <2>3 DEF Delivered
<1> QED
  BY <1>1, <1>2, <1>3

\* The entries kept, after one more.
LEMMA KeptNext ==
  ASSUME TypeOK, NEW e \in LogEntry, drop_log' = Append(drop_log, e)
  PROVE  /\ Kept \in SUBSET (1 .. Len(drop_log)) /\ Len(drop_log) \in Nat
         /\ Kept' = IF e.dropped THEN Kept ELSE Kept \cup {Len(drop_log) + 1}
         /\ drop_log'[Len(drop_log) + 1] = e
         /\ \A i \in 1 .. Len(drop_log) : drop_log'[i] = drop_log[i]
<1>1. drop_log \in Seq(LogEntry) /\ Len(drop_log) \in Nat
  BY DEF TypeOK, LogEntry
<1>2. /\ Len(drop_log') = Len(drop_log) + 1
      /\ drop_log'[Len(drop_log) + 1] = e
      /\ \A i \in 1 .. Len(drop_log) : drop_log'[i] = drop_log[i]
  BY <1>1
<1>3. Kept' = IF e.dropped THEN Kept ELSE Kept \cup {Len(drop_log) + 1}
  BY <1>1, <1>2 DEF Kept
<1> QED
  BY <1>1, <1>2, <1>3 DEF Kept

\* LogAccounts in the words of the lemmas.
LEMMA AccountsMeans ==
  LogAccounts <=>
    /\ Cardinality(Kept) = Cardinality(Delivered) + nexthop_errors
    /\ nexthop_errors = 0 => SameOrder(Kept, drop_log, Delivered, Outgoing)
  BY DEF LogAccounts, SameOrder

\* A kept frame is one more entry and, if the interface took it, one more frame;
\* otherwise one more error.
LEMMA KeptAccounts ==
  ASSUME TypeOK, LogAccounts, SameScope, NEW n \in Packet, InScope(n), NEW e \in LogEntry,
         e.pkt = n, ~e.dropped, drop_log' = Append(drop_log, e), KeepPacket(n), wire' = wire
  PROVE  LogAccounts'
<1> DEFINE m == Len(drop_log)
           l == Len(Outgoing)
<1>0. /\ m \in Nat /\ l \in Nat /\ nexthop_errors \in Nat
      /\ Kept \in SUBSET (1 .. m) /\ Delivered \in SUBSET (1 .. l)
      /\ Kept' = Kept \cup {m + 1}
      /\ drop_log'[m + 1] = e /\ \A i \in 1 .. m : drop_log'[i] = drop_log[i]
  BY KeptNext, DeliveredNext, OutgoingType DEF TypeOK
<1>1. /\ Cardinality(Kept') = Cardinality(Kept) + 1
      /\ Cardinality(Kept) \in Nat /\ Cardinality(Delivered) \in Nat
      /\ Cardinality(Delivered \cup {l + 1}) = Cardinality(Delivered) + 1
  BY <1>0, PositionsFinite
<1>2. /\ Cardinality(Kept) = Cardinality(Delivered) + nexthop_errors
      /\ nexthop_errors = 0 => SameOrder(Kept, drop_log, Delivered, Outgoing)
  BY AccountsMeans
<1>3. CASE TargetAccepts(n) /\ nexthop_errors' = nexthop_errors
  <2>1. OneMore(n)
    BY <1>3, AcceptGrows
  <2>2. Delivered' = Delivered \cup {l + 1}
    BY <2>1, DeliveredNext
  <2>3. /\ Outgoing'[l + 1] = n /\ \A j \in 1 .. l : Outgoing'[j] = Outgoing[j]
    BY <2>1 DEF OneMore
  <2>4. ASSUME nexthop_errors = 0
        PROVE  SameOrder(Kept', drop_log', Delivered', Outgoing')
    <3>1. Cardinality(Kept) = Cardinality(Delivered)
      BY <1>1, <1>2, <2>4
    <3>2. drop_log'[m + 1].pkt = Outgoing'[l + 1]
      BY <1>0, <2>3
    <3> HIDE DEF m, l
    <3>3. SameOrder(Kept \cup {m + 1}, drop_log', Delivered \cup {l + 1}, Outgoing')
      BY <1>0, <1>2, <2>3, <2>4, <3>1, <3>2, BothGrow
    <3> QED
      BY <1>0, <2>2, <3>3
  <2>5. Cardinality(Kept') = Cardinality(Delivered') + nexthop_errors'
    BY <1>0, <1>1, <1>2, <1>3, <2>2
  <2> QED
    BY <1>3, <2>4, <2>5 DEF LogAccounts, SameOrder
<1>4. CASE TargetRefuses /\ nexthop_errors' = nexthop_errors + 1
  <2>1. Delivered' = Delivered
    BY <1>4, RefuseKeeps, DeliveredNext
  <2>2. Cardinality(Kept') = Cardinality(Delivered') + nexthop_errors' /\ nexthop_errors' # 0
    BY <1>0, <1>1, <1>2, <1>4, <2>1
  <2> QED
    BY <2>2 DEF LogAccounts
<1> QED
  BY <1>3, <1>4 DEF KeepPacket

\* One call of the shim's nexthop.
LEMMA NexthopAccounts ==
  ASSUME BaseInv, LogAccounts, NEW n \in Packet, ci_drop_iface_nexthop(n),
         UNCHANGED <<rule, flow, isn>>
  PROVE  LogAccounts'
<1>0. TypeOK /\ SameScope /\ wire' = wire
  BY ScopeFixed DEF BaseInv, ci_drop_iface_nexthop
<1>a. /\ Cardinality(Kept) = Cardinality(Delivered) + nexthop_errors
      /\ nexthop_errors = 0 => SameOrder(Kept, drop_log, Delivered, Outgoing)
  BY AccountsMeans
<1>1. CASE Passthrough(n)
  <2>1. ~InScope(n) /\ drop_log' = drop_log /\ nexthop_errors' = nexthop_errors
        /\ (TargetAccepts(n) \/ TargetRefuses)
    BY <1>1 DEF Passthrough
  <2>2. Kept' = Kept
    BY <2>1 DEF Kept
  <2>3. CASE TargetAccepts(n)
    <3>1. OneMore(n)
      BY <1>0, <2>3, AcceptGrows
    <3>2. Delivered' = Delivered /\ Delivered \in SUBSET (1 .. Len(Outgoing))
      BY <1>0, <2>1, <3>1, DeliveredNext
    <3>3. \A j \in Delivered : Outgoing'[j] = Outgoing[j]
      BY <3>1, <3>2 DEF OneMore
    <3> QED
      BY <1>a, <2>1, <2>2, <3>2, <3>3 DEF LogAccounts, SameOrder
  <2>4. CASE TargetRefuses
    <3>1. Outgoing' = Outgoing /\ Delivered' = Delivered
      BY <1>0, <2>4, RefuseKeeps, DeliveredNext
    <3> QED
      BY <1>a, <2>1, <2>2, <3>1 DEF LogAccounts, SameOrder
  <2> QED
    BY <2>1, <2>3, <2>4
<1>2. CASE Decide(n)
  <2> DEFINE ix   == ci_flow_index(tracker, FrameOf(n))
             drop == IF per_attempt THEN ge.bad ELSE ci_rule_decide(rule, ix.index)
             e    == [pkt |-> n, index |-> ix.index, dropped |-> drop]
  <2>1. /\ InScope(n) /\ drop_log' = Append(drop_log, e)
        /\ IF drop THEN DropPacket ELSE KeepPacket(n)
    BY <1>2, Zenon DEF Decide
  <2>2. ix.index \in Nat
    BY IndexType DEF BaseInv
  <2> HIDE DEF ix
  <2>3. drop \in BOOLEAN
    BY <1>0, <2>2, DecideType DEF TypeOK
  <2> HIDE DEF drop
  <2>4. e \in LogEntry /\ e.pkt = n /\ e.dropped = drop
    BY <2>2, <2>3 DEF LogEntry
  <2> HIDE DEF e
  <2>5. CASE drop
    <3>1. UNCHANGED <<nexthop_errors, txq>>
      BY <2>1, <2>5 DEF DropPacket
    <3>2. Outgoing' = Outgoing
      BY <1>0, <3>1 DEF Outgoing
    <3>3. Delivered' = Delivered
      BY <1>0, <3>2, DeliveredNext
    <3>4. /\ Kept' = Kept /\ \A i \in Kept : drop_log'[i] = drop_log[i]
      BY <1>0, <2>1, <2>4, <2>5, KeptNext
    <3> QED
      BY <1>a, <3>1, <3>2, <3>3, <3>4 DEF LogAccounts, SameOrder
  <2>6. CASE ~drop
    BY <1>0, <2>1, <2>4, <2>6, KeptAccounts
  <2> QED
    BY <2>3, <2>5, <2>6
<1> QED
  BY <1>1, <1>2 DEF ci_drop_iface_nexthop

LEMMA AccountsStep ==
  ASSUME BaseInv, LogAccounts, [Next]_vars
  PROVE  LogAccounts'
<1>0. TypeOK /\ Other \in Packet /\ fresh \in Packet /\ Nat \subseteq Packet
  BY DEF BaseInv, TypeOK, Packet
<1>1. CASE SendNew
  BY <1>0, <1>1, NexthopAccounts DEF SendNew
<1>2. CASE Resend
  <2>1. PICK n \in 0 .. fresh - 1 : ci_drop_iface_nexthop(n)
    BY <1>2 DEF Resend
  <2>2. n \in Packet
    BY <1>0
  <2> QED
    BY <1>2, <2>1, <2>2, NexthopAccounts DEF Resend
<1>3. CASE SendOther
  BY <1>0, <1>3, NexthopAccounts DEF SendOther, senderVars
<1>4. ASSUME Outgoing' = Outgoing, UNCHANGED <<rule, flow, isn, drop_log, nexthop_errors>>
      PROVE  LogAccounts'
  <2>1. Delivered' = Delivered
    BY <1>0, <1>4, ScopeFixed, DeliveredNext
  <2>2. Kept' = Kept
    BY <1>4 DEF Kept
  <2> QED
    BY <1>4, <2>1, <2>2 DEF LogAccounts
<1>5. CASE Transmit
  <2>1. UNCHANGED <<rule, flow, isn, drop_log, nexthop_errors>>
    BY <1>5 DEF Transmit, senderVars, shimVars
  <2> QED
    BY <1>0, <1>4, <1>5, <2>1, TransmitKeeps
<1>6. CASE ci_drop_iface_enable_ge \/ UNCHANGED vars
  <2>1. UNCHANGED <<rule, flow, isn, drop_log, nexthop_errors, txq, wire>>
    BY <1>6 DEF ci_drop_iface_enable_ge, senderVars, vars
  <2>2. Outgoing' = Outgoing
    BY <2>1 DEF Outgoing
  <2> QED
    BY <1>4, <2>1, <2>2
<1> QED
  BY <1>1, <1>2, <1>3, <1>5, <1>6 DEF Next, Stopped

\* Oracle A agrees with oracle B: the frames logged as kept are, one for one and
\* in order, the in-scope frames that reach the bus or its queue, but for as many
\* as nexthop_errors counts, for any rule, channel, flow, pool and queue.
THEOREM AccountsHold == Spec => []LogAccounts
<1>1. Init => LogAccounts
  <2> SUFFICES ASSUME Init PROVE LogAccounts
    OBVIOUS
  <2>1. drop_log = <<>> /\ Outgoing = <<>> /\ nexthop_errors = 0
    BY DEF Init, Outgoing
  <2>2. Kept = {} /\ Delivered = {}
    BY <2>1 DEF Kept, Delivered
  <2>3. Cardinality({}) = 0
    BY FS_EmptySet
  <2> QED
    BY <2>1, <2>2, <2>3 DEF LogAccounts
<1>2. BaseInv /\ LogAccounts /\ [Next]_vars => BaseInv' /\ LogAccounts'
  BY BaseStep, AccountsStep
<1>3. Init => BaseInv
  BY InitInv
<1> QED
  BY <1>1, <1>2, <1>3, PTL DEF Spec
=============================================================================

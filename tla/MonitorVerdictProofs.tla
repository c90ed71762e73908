------------------------ MODULE MonitorVerdictProofs ------------------------
(***************************************************************************)
(* Proofs about MonitorVerdict, for any number of targets, any width of    *)
(* the counters and any bounds that are small beside it.                   *)
(***************************************************************************)
EXTENDS MonitorVerdict, FiniteSetTheorems, FunctionTheorems, TLAPS

-----------------------------------------------------------------------------
(* Numbers modulo ModCount                                                 *)

M == ModCount

\* x and y differ by a multiple of ModCount.
Cong(x, y) == \E k \in Int : x = y + k * M

LEMMA Width == M \in Nat /\ M > 0 /\ M = 2 * (M \div 2) /\ M \div 2 \in Nat
  BY VerdictAssumption, Z3 DEF M

LEMMA CongSame == \A x \in Int : Cong(x, x)
<1> TAKE x \in Int
<1>1. 0 \in Int /\ x = x + 0 * M
  BY Width
<1> QED
  BY <1>1 DEF Cong

LEMMA CongTrans ==
  ASSUME NEW x \in Int, NEW y \in Int, NEW z \in Int, Cong(x, y), Cong(y, z)
  PROVE  Cong(x, z)
<1>1. PICK k \in Int : x = y + k * M
  BY DEF Cong
<1>2. PICK j \in Int : y = z + j * M
  BY DEF Cong
<1>3. k + j \in Int /\ x = z + (k + j) * M
  BY <1>1, <1>2, Width
<1> QED
  BY <1>3 DEF Cong

LEMMA CongSub ==
  ASSUME NEW x \in Int, NEW y \in Int, NEW v \in Int, NEW w \in Int, Cong(x, y), Cong(v, w)
  PROVE  Cong(x - v, y - w)
<1>1. PICK k \in Int : x = y + k * M
  BY DEF Cong
<1>2. PICK j \in Int : v = w + j * M
  BY DEF Cong
<1>3. k - j \in Int /\ x - v = y - w + (k - j) * M
  BY <1>1, <1>2, Width
<1> QED
  BY <1>3 DEF Cong

\* Quotient and remainder of an integer.
LEMMA DivMod ==
  ASSUME NEW a \in Int, NEW d \in Nat \ {0}
  PROVE  a \div d \in Int /\ a % d \in 0 .. d - 1 /\ a = d * (a \div d) + (a % d)
<1>1. a \div d \in Int
  OBVIOUS
<1>2. a % d \in 0 .. d - 1
  OBVIOUS
<1>3. a = d * (a \div d) + (a % d)
  OBVIOUS
<1> QED
  BY <1>1, <1>2, <1>3

\* What % returns.
LEMMA ModFacts ==
  ASSUME NEW x \in Int
  PROVE  x % M \in 0 .. M - 1 /\ Cong(x % M, x) /\ x % M \in Int
<1> DEFINE q == x \div M
           r == x % M
<1>1. r \in 0 .. M - 1 /\ q \in Int /\ x = M * q + r
  <2>1. M \in Nat \ {0}
    BY Width
  <2> QED
    BY <2>1, DivMod
<1> HIDE DEF q, r
<1>2. r \in Int /\ -q \in Int /\ r = x + (-q) * M
  BY <1>1, Width
<1> QED
  BY <1>1, <1>2 DEF Cong, r

\* Congruent numbers of one turn are equal.
LEMMA CongEqual ==
  ASSUME NEW x \in 0 .. M - 1, NEW y \in 0 .. M - 1, Cong(x, y)
  PROVE  x = y
<1>1. PICK k \in Int : x = y + k * M
  BY DEF Cong
<1>2. CASE k >= 1
  <2>1. k * M >= M
    BY <1>2, Width
  <2> QED
    BY <1>1, <2>1, Width
<1>3. CASE k <= -1
  <2>1. k * M <= -M
    BY <1>3, Width
  <2> QED
    BY <1>1, <2>1, Width
<1>4. CASE k = 0
  BY <1>1, <1>4, Width
<1> QED
  BY <1>1, <1>2, <1>3, <1>4

LEMMA CongSym ==
  ASSUME NEW x \in Int, NEW y \in Int, Cong(x, y)
  PROVE  Cong(y, x)
<1>1. PICK k \in Int : x = y + k * M
  BY DEF Cong
<1>2. -k \in Int /\ y = x + (-k) * M
  BY <1>1, Width
<1> QED
  BY <1>2 DEF Cong

LEMMA CongMod ==
  ASSUME NEW x \in Int, NEW y \in Int, Cong(x, y)
  PROVE  x % M = y % M
<1>1. /\ x % M \in 0 .. M - 1 /\ y % M \in 0 .. M - 1 /\ x % M \in Int /\ y % M \in Int
      /\ Cong(x % M, x) /\ Cong(y % M, y)
  BY ModFacts
<1>2. Cong(x % M, y) /\ Cong(y, y % M)
  BY <1>1, CongTrans, CongSym
<1>3. Cong(x % M, y % M)
  BY <1>1, <1>2, CongTrans
<1> QED
  BY <1>1, <1>3, CongEqual

LEMMA IncFacts ==
  ASSUME NEW n \in 0 .. M - 1
  PROVE  Inc(n) \in 0 .. M - 1 /\ Cong(Inc(n), n + 1)
  BY ModFacts, Width DEF Inc, M

LEMMA MinusFacts ==
  ASSUME NEW x \in Int, NEW y \in Int
  PROVE  Minus(x, y) \in 0 .. M - 1 /\ Minus(x, y) \in Int /\ Cong(Minus(x, y), x - y)
  BY ModFacts DEF Minus, M

\* A counter that has gone d on, less than half a turn, and is behind all the same
\* is behind by more than half a turn: this is what RebootSeen goes by.
LEMMA BehindByWrap ==
  ASSUME NEW a \in 0 .. M - 1, NEW b \in 0 .. M - 1, NEW d \in Nat, d < M \div 2,
         Cong(a, b + d), a < b
  PROVE  Minus(b, a) >= M \div 2
<1>1. b - a \in 0 .. M - 1
  BY Width
<1>2. Minus(b, a) = b - a
  <2>1. b \in Int /\ a \in Int
    BY Width
  <2>2. Minus(b, a) \in 0 .. M - 1 /\ Cong(Minus(b, a), b - a)
    BY <2>1, MinusFacts
  <2> QED
    BY <1>1, <2>2, CongEqual
<1>3. PICK k \in Int : a = b + d + k * M
  BY DEF Cong
<1>4. CASE k >= 0
  <2>1. k * M >= 0
    BY <1>4, Width
  <2> QED
    BY <1>3, <2>1, Width
<1>5. CASE k <= -1
  <2>1. k * M <= -M
    BY <1>5, Width
  <2>2. b - a >= M - d
    BY <1>3, <2>1, Width
  <2> QED
    BY <1>2, <2>2, Width
<1> QED
  BY <1>3, <1>4, <1>5

-----------------------------------------------------------------------------
(* The polls that Sum counts                                               *)

PollsOf(f, t) == {t} \X (1 .. f[t])
Polls(f) == UNION {PollsOf(f, t) : t \in 2 .. NRemotes}

LEMMA PollsIn ==
  ASSUME NEW f, NEW p
  PROVE  p \in Polls(f) <=> \E t \in 2 .. NRemotes : \E k \in 1 .. f[t] : p = <<t, k>>
  BY DEF Polls, PollsOf

LEMMA SumType ==
  ASSUME NEW f \in [Targets -> Nat]
  PROVE  IsFiniteSet(Polls(f)) /\ Sum(f) = Cardinality(Polls(f)) /\ Sum(f) \in Nat
<1> DEFINE D == 2 .. NRemotes
           T == {PollsOf(f, t) : t \in D}
           g == [t \in D |-> PollsOf(f, t)]
<1>1. ASSUME NEW t \in D PROVE IsFiniteSet(PollsOf(f, t))
  <2>1. f[t] \in Nat
    BY VerdictAssumption DEF Targets
  <2>2. ASSUME NEW n \in Nat PROVE IsFiniteSet(1 .. n)
    BY FS_Interval
  <2>3. IsFiniteSet({t})
    BY FS_EmptySet, FS_AddElement
  <2> QED
    BY <2>1, <2>2, <2>3, FS_Product DEF PollsOf
<1>2. IsFiniteSet(D)
  BY VerdictAssumption, FS_Interval
<1>3. g \in Surjection(D, T)
  <2>1. g \in [D -> T] /\ \A x \in T : \E t \in D : g[t] = x
    OBVIOUS
  <2> HIDE DEF g, T, D
  <2> QED
    BY <2>1, Fun_IsSurj
<1>4. IsFiniteSet(T)
  <2> HIDE DEF g, T, D
  <2> QED
    BY <1>2, <1>3, FS_Surjection
<1>5. IsFiniteSet(UNION T)
  BY <1>1, <1>4, FS_UNION
<1> QED
  BY <1>5, FS_CardinalityType DEF Polls, Sum, PollsOf

\* One more poll of another target is one more; one of the far end is none.
LEMMA SumOther ==
  ASSUME NEW f \in [Targets -> Nat], NEW t \in Targets, t # 1
  PROVE  Sum([f EXCEPT ![t] = @ + 1]) = Sum(f) + 1
<1> DEFINE g == [f EXCEPT ![t] = @ + 1]
           new == <<t, f[t] + 1>>
<1>1. f[t] \in Nat /\ t \in 2 .. NRemotes /\ 2 .. NRemotes \subseteq Targets
  BY VerdictAssumption DEF Targets
<1>2. g \in [Targets -> Nat] /\ g[t] = f[t] + 1 /\ \A u \in Targets \ {t} : g[u] = f[u]
  OBVIOUS
<1> HIDE DEF g
<1>3. new \notin Polls(f)
  BY <1>1, PollsIn
<1>4. Polls(g) = Polls(f) \cup {new}
  <2>1. ASSUME NEW u \in 2 .. NRemotes, NEW k \in 1 .. g[u] PROVE <<u, k>> \in Polls(f) \cup {new}
    <3>1. CASE u = t /\ k = f[t] + 1
      BY <3>1
    <3>2. CASE ~(u = t /\ k = f[t] + 1)
      <4>1. f[u] \in Nat /\ k \in 1 .. f[u]
        BY <1>1, <1>2, <2>1, <3>2
      <4> QED
        BY <2>1, <4>1, PollsIn
    <3> QED
      BY <3>1, <3>2
  <2>2. ASSUME NEW u \in 2 .. NRemotes, NEW k \in 1 .. f[u] PROVE <<u, k>> \in Polls(g)
    <3>1. k \in 1 .. g[u]
      BY <1>1, <1>2, <2>2
    <3> QED
      BY <2>2, <3>1, PollsIn
  <2>3. new \in Polls(g)
    <3>1. f[t] + 1 \in 1 .. g[t]
      BY <1>1, <1>2
    <3> QED
      BY <1>1, <3>1, PollsIn
  <2> HIDE DEF new
  <2>4. Polls(g) \subseteq Polls(f) \cup {new}
    BY <2>1, PollsIn
  <2>5. Polls(f) \subseteq Polls(g)
    BY <2>2, PollsIn
  <2> QED
    BY <2>3, <2>4, <2>5
<1>5. Cardinality(Polls(g)) = Cardinality(Polls(f)) + 1
  BY <1>3, <1>4, SumType, FS_AddElement
<1> QED
  BY <1>2, <1>5, SumType DEF g

LEMMA SumFar ==
  ASSUME NEW f \in [Targets -> Nat]
  PROVE  Sum([f EXCEPT ![1] = @ + 1]) = Sum(f)
<1> DEFINE g == [f EXCEPT ![1] = @ + 1]
<1>1. 1 \in Targets /\ 2 .. NRemotes \subseteq Targets \ {1}
  BY VerdictAssumption DEF Targets
<1>2. \A t \in 2 .. NRemotes : g[t] = f[t]
  BY <1>1
<1> HIDE DEF g
<1>3. {{t} \X (1 .. g[t]) : t \in 2 .. NRemotes} = {{t} \X (1 .. f[t]) : t \in 2 .. NRemotes}
  BY <1>2
<1> QED
  BY <1>3 DEF Sum, g

-----------------------------------------------------------------------------
(* The inductive invariant                                                 *)

Value == 0 .. ModCount - 1
Counters == [tx : Value, rx : Value]
Direction == [lost : Nat, pend : Nat, since : Nat, early : Nat]
Past == [up : Direction, dn : Direction, queries : Nat, replies : Int, late : Nat,
         asked : Nat, sampled : Nat, mixed : BOOLEAN]

PollerTyped ==
  /\ mpc \in {"off", "check", "wait", "record", "sleep", "done"}
  /\ target \in Targets /\ mon_poll_running \in BOOLEAN /\ rounds \in 0 .. MaxRounds
  /\ user \in 0 .. MaxUser /\ lives \in Nat
SamplesTyped ==
  /\ samples \in [Targets -> Nat] /\ misses \in [Targets -> Nat]
  /\ \A t \in Targets : misses[t] <= samples[t]
CountersTyped ==
  /\ local \in Counters /\ local_base \in Counters /\ far \in Counters
  /\ answer \in [got : BOOLEAN, tx : Value, rx : Value]
  /\ remote \in [have_base : BOOLEAN, base : Counters, last : Counters, reboots : Nat]
PastTyped == past \in Past

Typed == PollerTyped /\ SamplesTyped /\ CountersTyped /\ PastTyped

\* In a round the far end is asked once, so that its counters have not moved by
\* half a turn since the sample recorded last; and samples are taken in order.
Order ==
  /\ past.up.pend <= past.up.since /\ past.dn.pend <= past.dn.since
  /\ LET open == IF mpc = "check" /\ target = 1 THEN 1 ELSE 0
     IN past.up.since <= user + rounds - open /\ past.dn.since <= user + rounds - open
  /\ mpc = "off" => rounds = 0 /\ ~remote.have_base
  /\ mpc = "record" => answer.got
  /\ past.sampled <= past.asked /\ past.asked <= lives
  /\ remote.reboots <= past.sampled

\* The far end's counters, unless it has restarted since the sample.
FarOK ==
  remote.have_base /\ lives = past.sampled =>
    /\ Cong(far.rx, remote.last.rx + past.up.since)
    /\ Cong(far.tx, remote.last.tx + past.dn.since)

\* The counters in an answer of the far end lie between the two.
AnswerOK ==
  target = 1 /\ mpc \in {"wait", "record"} /\ answer.got =>
    /\ remote.have_base /\ past.asked = past.sampled =>
         /\ Cong(answer.rx, remote.last.rx + past.up.since - past.up.pend)
         /\ Cong(answer.tx, remote.last.tx + past.dn.since - past.dn.pend)
    /\ lives = past.asked =>
         /\ Cong(far.rx, answer.rx + past.up.pend)
         /\ Cong(far.tx, answer.tx + past.dn.pend)

\* VerdictAccounts without its remainders.
UpMissing == local.tx - others_q - local_base.tx - remote.last.rx + remote.base.rx
DnMissing == remote.last.tx - remote.base.tx - local.rx + others_r + local_base.rx
UpPackets == past.up.lost + past.up.since - past.up.early
DnPackets == past.dn.lost + past.dn.early - past.dn.since
DnPolls == past.replies - past.late - OpenReply
UpAccount == UpPackets + (OpenQuery - past.queries)
DnAccount == DnPackets + (OpenFar + DnPolls)

AccountsOK ==
  remote.have_base /\ ~past.mixed => Cong(UpMissing, UpAccount) /\ Cong(DnMissing, DnAccount)

VerdictInv == Typed /\ Order /\ FarOK /\ AnswerOK /\ AccountsOK

-----------------------------------------------------------------------------
(* Type correctness                                                        *)

LEMMA IncTyped == \A n \in Value : Inc(n) \in Value
  BY IncFacts DEF Value, M

LEMMA Consts ==
  /\ NRemotes \in Nat \ {0} /\ MaxRounds \in Nat \ {0} /\ MaxUser \in Nat
  /\ 0 \in Value /\ 1 \in Targets /\ Zero \in Counters
  /\ FirstCounts \subseteq Counters
  /\ MaxUser + MaxRounds < M \div 2
<1>1. 2 * NRemotes * MaxRounds >= MaxRounds
  BY VerdictAssumption
<1> QED
  BY <1>1, VerdictAssumption, Width DEF M, Value, Targets, Zero, Counters

LEMMA NextTyped ==
  ASSUME target \in Targets, NextTarget
  PROVE  /\ target' \in Targets /\ mpc' \in {"check", "sleep"}
         /\ mpc' = "check" => target' # 1
<1>1. NRemotes \in Nat \ {0} /\ target \in 1 .. NRemotes
  BY Consts DEF Targets
<1>2. target # NRemotes => target % NRemotes = target
  BY <1>1
<1>3. target = NRemotes => target % NRemotes = 0
  BY <1>1
<1> QED
  BY <1>1, <1>2, <1>3 DEF NextTarget, Targets

LEMMA SumsTyped == SamplesTyped => others_q \in Nat /\ others_r \in Int
  BY SumType DEF SamplesTyped, others_q, others_r

LEMMA CountFacts ==
  ASSUME NEW p \in Direction
  PROVE  /\ CountUp(p, TRUE) = [p EXCEPT !.pend = p.pend + 1, !.since = p.since + 1]
         /\ CountUp(p, FALSE) = [p EXCEPT !.lost = p.lost + 1]
         /\ CountDown(p, TRUE) = [p EXCEPT !.pend = p.pend + 1, !.since = p.since + 1]
         /\ CountDown(p, FALSE) = [p EXCEPT !.pend = p.pend + 1, !.since = p.since + 1, !.lost = p.lost + 1]
<1>1. [p EXCEPT !.pend = @ + 1, !.since = @ + 1, !.lost = @] = [p EXCEPT !.pend = @ + 1, !.since = @ + 1]
  BY DEF Direction
<1> QED
  BY <1>1 DEF CountUp, CountDown

LEMMA CountFields ==
  ASSUME NEW p \in Direction
  PROVE  /\ LET u == CountUp(p, TRUE)
            IN u.pend = p.pend + 1 /\ u.since = p.since + 1 /\ u.lost = p.lost /\ u.early = p.early
         /\ LET u == CountUp(p, FALSE)
            IN u.pend = p.pend /\ u.since = p.since /\ u.lost = p.lost + 1 /\ u.early = p.early
         /\ LET d == CountDown(p, TRUE)
            IN d.pend = p.pend + 1 /\ d.since = p.since + 1 /\ d.lost = p.lost /\ d.early = p.early
         /\ LET d == CountDown(p, FALSE)
            IN d.pend = p.pend + 1 /\ d.since = p.since + 1 /\ d.lost = p.lost + 1 /\ d.early = p.early
<1> DEFINE both == [p EXCEPT !.pend = p.pend + 1, !.since = p.since + 1]
           lost == [p EXCEPT !.lost = p.lost + 1]
           all  == [p EXCEPT !.pend = p.pend + 1, !.since = p.since + 1, !.lost = p.lost + 1]
<1>1. both.pend = p.pend + 1 /\ both.since = p.since + 1 /\ both.lost = p.lost /\ both.early = p.early
  BY DEF Direction
<1>2. lost.pend = p.pend /\ lost.since = p.since /\ lost.lost = p.lost + 1 /\ lost.early = p.early
  BY DEF Direction
<1>3. all.pend = p.pend + 1 /\ all.since = p.since + 1 /\ all.lost = p.lost + 1 /\ all.early = p.early
  BY DEF Direction
<1>4. /\ CountUp(p, TRUE) = both /\ CountUp(p, FALSE) = lost
      /\ CountDown(p, TRUE) = both /\ CountDown(p, FALSE) = all
  BY CountFacts
<1> HIDE DEF both, lost, all
<1> QED
  BY <1>1, <1>2, <1>3, <1>4

LEMMA TypedInit == VerdictInit => Typed
<1> SUFFICES ASSUME VerdictInit PROVE Typed
  OBVIOUS
<1>1. NoDirection \in Direction /\ NoPast \in Past
  BY DEF NoDirection, NoPast, Direction, Past
<1>2. PollerTyped
  <2>1. 0 \in 0 .. MaxRounds /\ 0 \in 0 .. MaxUser /\ 1 \in Targets
    BY Consts
  <2> QED
    BY <2>1 DEF VerdictInit, PollerTyped
<1>3. SamplesTyped /\ PastTyped
  BY <1>1 DEF VerdictInit, SamplesTyped, PastTyped
<1>4. CountersTyped
  BY Consts DEF VerdictInit, CountersTyped, NoAnswer, Counters
<1> QED
  BY <1>2, <1>3, <1>4 DEF Typed

\* The numbers in the records.
LEMMA Fields ==
  ASSUME Typed
  PROVE  /\ Value \subseteq Int
         /\ \A c \in {local, local_base, far, answer, remote.base, remote.last} : c.tx \in Value /\ c.rx \in Value
         /\ \A d \in {past.up, past.dn} :
              d \in Direction /\ d.lost \in Nat /\ d.pend \in Nat /\ d.since \in Nat /\ d.early \in Nat
         /\ past.queries \in Nat /\ past.replies \in Int /\ past.late \in Nat
         /\ past.asked \in Nat /\ past.sampled \in Nat /\ remote.reboots \in Nat
         /\ user \in Nat /\ rounds \in Nat /\ lives \in Nat
         /\ others_q \in Nat /\ others_r \in Int
         /\ OpenQuery \in {0, 1} /\ OpenReply \in {0, 1} /\ OpenFar \in {0, 1}
<1>1. Value \subseteq Int
  BY Width DEF Value, M
<1>2. \A c \in {local, local_base, far, answer, remote.base, remote.last} : c.tx \in Value /\ c.rx \in Value
  BY DEF Typed, CountersTyped, Counters
<1>3. /\ past.up \in Direction /\ past.dn \in Direction
      /\ past.queries \in Nat /\ past.replies \in Int /\ past.late \in Nat
      /\ past.asked \in Nat /\ past.sampled \in Nat
  BY DEF Typed, PastTyped, Past
<1>4. \A d \in Direction : d.lost \in Nat /\ d.pend \in Nat /\ d.since \in Nat /\ d.early \in Nat
  BY DEF Direction
<1>5. remote.reboots \in Nat /\ user \in Nat /\ rounds \in Nat /\ lives \in Nat
  BY Consts DEF Typed, CountersTyped, PollerTyped
<1>6. others_q \in Nat /\ others_r \in Int
  BY SumsTyped DEF Typed
<1>7. OpenQuery \in {0, 1} /\ OpenReply \in {0, 1} /\ OpenFar \in {0, 1}
  BY DEF OpenQuery, OpenReply, OpenFar
<1> QED
  BY <1>1, <1>2, <1>3, <1>4, <1>5, <1>6, <1>7

\* What differs as congruent numbers do is congruent.
LEMMA CongShift ==
  ASSUME NEW x \in Int, NEW y \in Int, NEW v \in Int, NEW w \in Int, Cong(x, y), v - w = x - y
  PROVE  Cong(v, w)
<1>1. PICK k \in Int : x = y + k * M
  BY DEF Cong
<1>2. v = w + k * M
  BY <1>1, Width
<1> QED
  BY <1>1, <1>2 DEF Cong

LEMMA CongSum ==
  ASSUME NEW x \in Int, NEW y \in Int, NEW p \in Int, NEW q \in Int, NEW v \in Int, NEW w \in Int,
         Cong(x, y), Cong(p, q), v - w = (x - y) + (p - q)
  PROVE  Cong(v, w)
<1>1. PICK k \in Int : x = y + k * M
  BY DEF Cong
<1>2. PICK j \in Int : p = q + j * M
  BY DEF Cong
<1>3. k + j \in Int /\ v = w + (k + j) * M
  BY <1>1, <1>2, Width
<1> QED
  BY <1>3 DEF Cong

\* d comes e after a, which comes c after b.
LEMMA CongOn ==
  ASSUME NEW a \in Int, NEW b \in Int, NEW c \in Int, NEW d \in Int, NEW e \in Int,
         Cong(a, b + c), Cong(d, a + e)
  PROVE  Cong(d, b + (c + e))
<1>1. /\ b + c \in Int /\ a + e \in Int /\ b + (c + e) \in Int
      /\ d - (b + (c + e)) = (a - (b + c)) + (d - (a + e))
  OBVIOUS
<1> QED
  BY <1>1, CongSum

\* A counter goes on by d, and q of that are taken off.
LEMMA CongLess ==
  ASSUME NEW u \in Int, NEW t \in Int, NEW d \in Int, NEW q \in Int, Cong(u, t + d)
  PROVE  Cong(u - q, t + (d - q))
<1>1. /\ t + d \in Int /\ u - q \in Int /\ t + (d - q) \in Int
      /\ (u - q) - (t + (d - q)) = u - (t + d)
  OBVIOUS
<1> QED
  BY <1>1, CongShift

\* A counter that is incremented goes on by one.
LEMMA IncStep ==
  ASSUME NEW n \in Value
  PROVE  Inc(n) \in Value /\ Inc(n) \in Int /\ Cong(Inc(n), n + 1)
  BY IncFacts, Width DEF Value, M

-----------------------------------------------------------------------------
(* The traffic keeps the invariant                                         *)

\* Packets of the pair that move neither the poller nor the remote's record: du
\* packets up count at the far end and lu are lost, dd count on their way down and
\* ld of them are lost.
PollerStays == UNCHANGED <<mpc, target, rounds, answer, remote, samples, misses, local_base, lives>>
UpMoves(du, lu) ==
  /\ past'.up.pend = past.up.pend + du /\ past'.up.since = past.up.since + du
  /\ past'.up.lost = past.up.lost + lu /\ past'.up.early = past.up.early
DnMoves(dd, ld) ==
  /\ past'.dn.pend = past.dn.pend + dd /\ past'.dn.since = past.dn.since + dd
  /\ past'.dn.lost = past.dn.lost + ld /\ past'.dn.early = past.dn.early
RestStays ==
  /\ past'.queries = past.queries /\ past'.replies = past.replies /\ past'.late = past.late
  /\ past'.asked = past.asked /\ past'.sampled = past.sampled /\ past'.mixed = past.mixed
FarMoves(du, dd) == Cong(far'.rx, far.rx + du) /\ Cong(far'.tx, far.tx + dd)
LocalMoves(tx, rx) == Cong(local'.tx, local.tx + tx) /\ Cong(local'.rx, local.rx + rx)
\* The polls of the others that are counted, and the two accounts.
SumsMove(q, r) == others_q' = others_q + q /\ others_r' = others_r + r
AccountsMove(a, b) == UpAccount' = UpAccount + a /\ DnAccount' = DnAccount - b

\* The sums of AccountsOK are integers.
LEMMA SumsInt ==
  ASSUME Typed
  PROVE  UpMissing \in Int /\ DnMissing \in Int /\ UpAccount \in Int /\ DnAccount \in Int
<1>1. /\ local.rx \in Int /\ local.tx \in Int /\ local_base.tx \in Int /\ local_base.rx \in Int
      /\ remote.last.tx \in Int /\ remote.last.rx \in Int /\ remote.base.tx \in Int /\ remote.base.rx \in Int
      /\ others_q \in Int /\ others_r \in Int
  BY Fields
<1>2. /\ past.up.lost \in Int /\ past.up.since \in Int /\ past.up.early \in Int
      /\ past.dn.lost \in Int /\ past.dn.since \in Int /\ past.dn.early \in Int
      /\ past.queries \in Int /\ past.replies \in Int /\ past.late \in Int
      /\ OpenQuery \in Int /\ OpenReply \in Int /\ OpenFar \in Int
  BY Fields
<1>3. UpMissing \in Int /\ DnMissing \in Int
  BY <1>1 DEF UpMissing, DnMissing
<1>4. UpAccount \in Int /\ DnAccount \in Int
  BY <1>2 DEF UpAccount, DnAccount, UpPackets, DnPackets, DnPolls
<1> QED
  BY <1>3, <1>4

\* The counters here and the polls of the others move on; so do the accounts.
LEMMA StepAccounts ==
  ASSUME Typed, Typed', AccountsOK,
         remote' = remote, local_base' = local_base, past'.mixed = past.mixed,
         NEW tx \in Int, NEW rx \in Int, NEW q \in Int, NEW r \in Int, NEW a \in Int, NEW b \in Int,
         LocalMoves(tx, rx), SumsMove(q, r), AccountsMove(a, b), a = tx - q, b = rx - r
  PROVE  AccountsOK'
<1>0. /\ others_q' = others_q + q /\ others_r' = others_r + r
      /\ UpAccount' = UpAccount + (tx - q) /\ DnAccount' = DnAccount - (rx - r)
  BY DEF SumsMove, AccountsMove
<1>1. /\ local.rx \in Int /\ local.tx \in Int /\ local_base.tx \in Int /\ local_base.rx \in Int
      /\ remote.last.tx \in Int /\ remote.last.rx \in Int /\ remote.base.tx \in Int /\ remote.base.rx \in Int
      /\ others_q \in Int /\ others_r \in Int
  BY Fields
<1>2. local'.tx \in Int /\ local'.rx \in Int
  <2>1. Value \subseteq Int /\ local'.tx \in Value /\ local'.rx \in Value
    BY DEF Typed, CountersTyped, Counters, Value
  <2> QED
    BY <2>1
<1>3. UpMissing \in Int /\ DnMissing \in Int /\ UpAccount \in Int /\ DnAccount \in Int
  BY SumsInt
<1>4. UpMissing' = UpMissing + ((local'.tx - q) - local.tx)
  BY <1>0, <1>1, <1>2 DEF UpMissing
<1>5. DnMissing' = DnMissing - ((local'.rx - r) - local.rx)
  BY <1>0, <1>1, <1>2 DEF DnMissing
<1>6. Cong(local'.tx - q, local.tx + (tx - q)) /\ Cong(local'.rx - r, local.rx + (rx - r))
  <2>1. Cong(local'.tx, local.tx + tx) /\ Cong(local'.rx, local.rx + rx)
    BY DEF LocalMoves
  <2>2. Cong(local'.tx - q, local.tx + (tx - q))
    BY <1>1, <1>2, <2>1, CongLess
  <2>3. Cong(local'.rx - r, local.rx + (rx - r))
    BY <1>1, <1>2, <2>1, CongLess
  <2> QED
    BY <2>2, <2>3
<1>7. /\ UpMissing' \in Int /\ DnMissing' \in Int /\ UpAccount' \in Int /\ DnAccount' \in Int
      /\ local'.tx - q \in Int /\ local'.rx - r \in Int
      /\ local.tx + (tx - q) \in Int /\ local.rx + (rx - r) \in Int
  BY <1>0, <1>1, <1>2, <1>3, <1>4, <1>5
<1>8. ASSUME remote.have_base, ~past.mixed PROVE Cong(UpMissing', UpAccount') /\ Cong(DnMissing', DnAccount')
  <2> DEFINE u  == local'.tx - q
             u0 == local.tx + (tx - q)
             d  == local'.rx - r
             d0 == local.rx + (rx - r)
  <2>1. Cong(UpMissing, UpAccount) /\ Cong(DnMissing, DnAccount)
    BY <1>8 DEF AccountsOK
  <2>2. UpMissing' - UpAccount' = (UpMissing - UpAccount) + (u - u0)
    BY <1>0, <1>1, <1>3, <1>4, <1>7
  <2>3. DnMissing' - DnAccount' = (DnMissing - DnAccount) + (d0 - d)
    BY <1>0, <1>1, <1>3, <1>5, <1>7
  <2>4. u \in Int /\ u0 \in Int /\ Cong(u, u0)
    BY <1>6, <1>7
  <2>5. d \in Int /\ d0 \in Int /\ Cong(d0, d)
    BY <1>6, <1>7, CongSym
  <2> HIDE DEF u, u0, d, d0
  <2>6. Cong(UpMissing', UpAccount')
    <3>1. UpMissing \in Int /\ UpAccount \in Int /\ UpMissing' \in Int /\ UpAccount' \in Int
      BY <1>3, <1>7
    <3> QED
      BY <2>1, <2>2, <2>4, <3>1, CongSum
  <2>7. Cong(DnMissing', DnAccount')
    <3>1. DnMissing \in Int /\ DnAccount \in Int /\ DnMissing' \in Int /\ DnAccount' \in Int
      BY <1>3, <1>7
    <3> QED
      BY <2>1, <2>3, <2>5, <3>1, CongSum
  <2> QED
    BY <2>6, <2>7
<1> QED
  BY <1>8 DEF AccountsOK

\* The far end counts on, and the samples stay as they are.
LEMMA StepFar ==
  ASSUME Typed, Typed', FarOK, AnswerOK, PollerStays,
         past'.asked = past.asked, past'.sampled = past.sampled,
         NEW du \in Int, NEW dd \in Int, FarMoves(du, dd),
         past'.up.pend = past.up.pend + du, past'.up.since = past.up.since + du,
         past'.dn.pend = past.dn.pend + dd, past'.dn.since = past.dn.since + dd
  PROVE  FarOK' /\ AnswerOK'
<1>1. /\ far.rx \in Int /\ far.tx \in Int /\ answer.rx \in Int /\ answer.tx \in Int
      /\ remote.last.tx \in Int /\ remote.last.rx \in Int
      /\ past.up.since \in Int /\ past.up.pend \in Int /\ past.dn.since \in Int /\ past.dn.pend \in Int
  BY Fields
<1>2. far'.tx \in Int /\ far'.rx \in Int
  <2>1. Value \subseteq Int /\ far'.tx \in Value /\ far'.rx \in Value
    BY DEF Typed, CountersTyped, Counters, Value
  <2> QED
    BY <2>1
<1>3. Cong(far'.rx, far.rx + du) /\ Cong(far'.tx, far.tx + dd)
  BY DEF FarMoves
<1>4. remote' = remote /\ answer' = answer /\ target' = target /\ mpc' = mpc /\ lives' = lives
  BY DEF PollerStays
<1>5. FarOK'
  <2>1. ASSUME remote.have_base, lives = past.sampled
        PROVE  /\ Cong(far'.rx, remote.last.rx + (past.up.since + du))
               /\ Cong(far'.tx, remote.last.tx + (past.dn.since + dd))
    <3>1. Cong(far.rx, remote.last.rx + past.up.since) /\ Cong(far.tx, remote.last.tx + past.dn.since)
      BY <2>1 DEF FarOK
    <3> QED
      BY <1>1, <1>2, <1>3, <3>1, CongOn
  <2> QED
    BY <1>4, <2>1 DEF FarOK
<1>6. AnswerOK'
  <2>1. ASSUME target = 1, mpc \in {"wait", "record"}, answer.got, lives = past.asked
        PROVE  /\ Cong(far'.rx, answer.rx + (past.up.pend + du))
               /\ Cong(far'.tx, answer.tx + (past.dn.pend + dd))
    <3>1. Cong(far.rx, answer.rx + past.up.pend) /\ Cong(far.tx, answer.tx + past.dn.pend)
      BY <2>1 DEF AnswerOK
    <3> QED
      BY <1>1, <1>2, <1>3, <3>1, CongOn
  <2>2. ASSUME target = 1, mpc \in {"wait", "record"}, answer.got, remote.have_base, past.asked = past.sampled
        PROVE  /\ Cong(answer.rx, remote.last.rx + (past.up.since + du) - (past.up.pend + du))
               /\ Cong(answer.tx, remote.last.tx + (past.dn.since + dd) - (past.dn.pend + dd))
    <3>1. /\ Cong(answer.rx, remote.last.rx + past.up.since - past.up.pend)
          /\ Cong(answer.tx, remote.last.tx + past.dn.since - past.dn.pend)
      BY <2>2 DEF AnswerOK
    <3>2. remote.last.rx + (past.up.since + du) - (past.up.pend + du) = remote.last.rx + past.up.since - past.up.pend
      BY <1>1
    <3>3. remote.last.tx + (past.dn.since + dd) - (past.dn.pend + dd) = remote.last.tx + past.dn.since - past.dn.pend
      BY <1>1
    <3> QED
      BY <3>1, <3>2, <3>3
  <2> QED
    BY <1>4, <2>1, <2>2 DEF AnswerOK
<1> QED
  BY <1>5, <1>6

-----------------------------------------------------------------------------
(* Every step keeps the types                                              *)

LEMMA CountTyped ==
  ASSUME NEW p \in Direction, NEW arrives \in BOOLEAN
  PROVE  CountUp(p, arrives) \in Direction /\ CountDown(p, arrives) \in Direction
<1>1. p.lost + 1 \in Nat /\ p.pend + 1 \in Nat /\ p.since + 1 \in Nat
  BY DEF Direction
<1>2. /\ [p EXCEPT !.pend = p.pend + 1, !.since = p.since + 1] \in Direction
      /\ [p EXCEPT !.lost = p.lost + 1] \in Direction
      /\ [p EXCEPT !.pend = p.pend + 1, !.since = p.since + 1, !.lost = p.lost + 1] \in Direction
  BY <1>1 DEF Direction
<1>3. arrives = TRUE \/ arrives = FALSE
  OBVIOUS
<1> QED
  BY <1>2, <1>3, CountFacts

LEMMA TrafficTyped ==
  ASSUME Typed, UserUp \/ UserDown \/ FarRestarts \/ PollerStart
  PROVE  Typed'
<1>1. CASE UserUp
  <2>1. PollerTyped' /\ SamplesTyped'
    BY <1>1, Consts DEF UserUp, Typed, PollerTyped, SamplesTyped
  <2>2. CountersTyped'
    BY <1>1, IncTyped DEF UserUp, Typed, CountersTyped, Counters
  <2>3. PastTyped'
    BY <1>1, CountTyped DEF UserUp, Typed, PastTyped, Past
  <2> QED
    BY <2>1, <2>2, <2>3 DEF Typed
<1>2. CASE UserDown
  <2>1. PollerTyped' /\ SamplesTyped'
    BY <1>2, Consts DEF UserDown, Typed, PollerTyped, SamplesTyped
  <2>2. CountersTyped'
    BY <1>2, IncTyped DEF UserDown, Typed, CountersTyped, Counters
  <2>3. PastTyped'
    BY <1>2, CountTyped DEF UserDown, Typed, PastTyped, Past
  <2> QED
    BY <2>1, <2>2, <2>3 DEF Typed
<1>3. CASE FarRestarts
  BY <1>3, Consts DEF FarRestarts, Typed, PollerTyped, SamplesTyped, CountersTyped, PastTyped
<1>4. CASE PollerStart
  <2>1. 1 \in 0 .. MaxRounds
    BY Consts
  <2> QED
    BY <1>4, <2>1, Consts DEF PollerStart, Typed, PollerTyped, SamplesTyped, CountersTyped, PastTyped
<1> QED
  BY <1>1, <1>2, <1>3, <1>4

LEMMA AskTyped ==
  ASSUME Typed, PollAsk \/ PollReply
  PROVE  Typed'
<1>1. PollerTyped' /\ SamplesTyped'
  BY DEF PollAsk, PollReply, Typed, PollerTyped, SamplesTyped
<1>2. CASE PollAsk
  <2>1. CountersTyped'
    <3>1. local' \in Counters
      BY <1>2, IncTyped DEF PollAsk, Typed, CountersTyped, Counters
    <3>2. far.tx \in Value /\ far.rx \in Value /\ Inc(far.tx) \in Value /\ Inc(far.rx) \in Value
      BY IncTyped DEF Typed, CountersTyped, Counters
    <3>3. far' \in Counters
      <4>1. far' = far \/ far' = [tx |-> Inc(far.tx), rx |-> Inc(far.rx)]
        BY <1>2 DEF PollAsk
      <4> QED
        BY <3>2, <4>1 DEF Typed, CountersTyped, Counters
    <3>4. answer' \in [got : BOOLEAN, tx : Value, rx : Value]
      <4>1. \/ \E arrives \in BOOLEAN : answer' = [got |-> arrives, tx |-> 0, rx |-> 0]
            \/ answer' = [got |-> TRUE, tx |-> far.tx, rx |-> Inc(far.rx)]
        BY <1>2 DEF PollAsk, NoAnswer
      <4>2. \A a \in BOOLEAN : \A x, y \in Value :
              [got |-> a, tx |-> x, rx |-> y] \in [got : BOOLEAN, tx : Value, rx : Value]
        OBVIOUS
      <4>3. far.tx \in Value /\ Inc(far.rx) \in Value /\ 0 \in Value
        BY <3>2, Consts
      <4>4. CASE \E arrives \in BOOLEAN : answer' = [got |-> arrives, tx |-> 0, rx |-> 0]
        BY <4>2, <4>3, <4>4
      <4>5. CASE answer' = [got |-> TRUE, tx |-> far.tx, rx |-> Inc(far.rx)]
        BY <4>2, <4>3, <4>5
      <4> QED
        BY <4>1, <4>4, <4>5
    <3> QED
      BY <1>2, <3>1, <3>3, <3>4 DEF PollAsk, Typed, CountersTyped
  <2>2. PastTyped'
    <3>1. past.up \in Direction /\ CountUp(past.up, FALSE) \in Direction /\ lives \in Nat
      BY CountTyped DEF Typed, PastTyped, PollerTyped, Past
    <3>2. CASE UNCHANGED past
      BY <3>2 DEF Typed, PastTyped
    <3>3. CASE past' = [past EXCEPT !.up = CountUp(@, FALSE)]
      BY <3>1, <3>3 DEF Typed, PastTyped, Past
    <3>4. CASE past' = [past EXCEPT !.up.pend = 0, !.up.since = @ + 1,
                                    !.dn.pend = 1, !.dn.since = @ + 1, !.asked = lives]
      <4> DEFINE u == [past.up EXCEPT !.pend = 0, !.since = past.up.since + 1]
                 d == [past.dn EXCEPT !.pend = 1, !.since = past.dn.since + 1]
      <4>1. past' = [past EXCEPT !.up = u, !.dn = d, !.asked = lives]
        BY <3>4 DEF Typed, PastTyped, Past, Direction
      <4>2. u \in Direction /\ d \in Direction
        <5>1. past.up.since + 1 \in Nat /\ past.dn.since + 1 \in Nat
          BY Fields
        <5>2. past.up \in Direction /\ past.dn \in Direction
          BY Fields
        <5> QED
          BY <5>1, <5>2 DEF Direction
      <4> HIDE DEF u, d
      <4> QED
        BY <3>1, <4>1, <4>2 DEF Typed, PastTyped, Past
    <3> QED
      BY <1>2, <3>2, <3>3, <3>4 DEF PollAsk
  <2> QED
    BY <1>1, <2>1, <2>2 DEF Typed
<1>3. CASE PollReply
  <2>1. CountersTyped'
    BY <1>3, IncTyped DEF PollReply, Typed, CountersTyped, Counters
  <2>2. PastTyped'
    BY <1>3 DEF PollReply, Typed, PastTyped
  <2> QED
    BY <1>1, <2>1, <2>2 DEF Typed
<1> QED
  BY <1>2, <1>3

LEMMA TimeoutTyped ==
  ASSUME Typed, PollTimeout
  PROVE  Typed'
<1>1. PollerTyped'
  BY NextTyped DEF PollTimeout, Typed, PollerTyped
<1>2. SamplesTyped'
  BY DEF PollTimeout, Typed, PollerTyped, SamplesTyped
<1>3. CountersTyped'
  BY IncTyped, Consts DEF PollTimeout, Typed, CountersTyped, Counters, NoAnswer
<1>4. PastTyped'
  BY DEF PollTimeout, Typed, PastTyped, Past, Direction
<1> QED
  BY <1>1, <1>2, <1>3, <1>4 DEF Typed

LEMMA RecordTyped ==
  ASSUME Typed, RecordOther \/ RecordBase \/ RecordSample
  PROVE  Typed'
<1>1. PollerTyped'
  BY NextTyped DEF RecordOther, RecordBase, RecordSample, Typed, PollerTyped
<1>2. SamplesTyped'
  BY DEF RecordOther, RecordBase, RecordSample, Typed, PollerTyped, SamplesTyped
<1>3. CASE RecordOther
  BY <1>1, <1>2, <1>3 DEF RecordOther, Typed, CountersTyped, PastTyped
<1>4. CASE RecordBase
  <2>1. CountersTyped'
    BY <1>4 DEF RecordBase, Baseline, Typed, CountersTyped, Counters
  <2>2. PastTyped'
    <3>1. /\ others_q \in Nat /\ others_r + past.late \in Int /\ past.late \in Nat /\ past.asked \in Nat
          /\ past.up.pend \in Nat /\ past.dn.pend \in Nat
      BY Fields
    <3>2. Anew(past.up) \in Direction /\ Anew(past.dn) \in Direction
      BY <3>1 DEF Anew, Direction
    <3> QED
      BY <1>4, <3>1, <3>2 DEF RecordBase, PastTyped, Past
  <2> QED
    BY <1>1, <1>2, <2>1, <2>2 DEF Typed
<1>5. CASE RecordSample
  <2>1. CountersTyped'
    BY <1>5 DEF RecordSample, Typed, CountersTyped, Counters
  <2>2. PastTyped'
    BY <1>5 DEF RecordSample, Typed, PastTyped, Past, Direction
  <2> QED
    BY <1>1, <1>2, <2>1, <2>2 DEF Typed
<1> QED
  BY <1>3, <1>4, <1>5

LEMMA IdleTyped ==
  ASSUME Typed, PollRound \/ PollerEnds \/ PollerStop \/ UNCHANGED verdictVars
  PROVE  Typed'
<1>1. PollerTyped'
  <2>1. CASE PollRound
    <3>1. rounds + 1 \in 0 .. MaxRounds
      BY <2>1, Consts DEF PollRound, Typed, PollerTyped
    <3> QED
      BY <2>1, <3>1 DEF PollRound, Typed, PollerTyped
  <2>2. CASE PollerEnds \/ PollerStop \/ UNCHANGED verdictVars
    BY <2>2 DEF PollerEnds, PollerStop, verdictVars, Typed, PollerTyped
  <2> QED
    BY <2>1, <2>2
<1>2. SamplesTyped' /\ CountersTyped' /\ PastTyped'
  BY DEF PollRound, PollerEnds, PollerStop, verdictVars, Typed, SamplesTyped, CountersTyped, PastTyped
<1> QED
  BY <1>1, <1>2 DEF Typed

-----------------------------------------------------------------------------
(* Traffic and restarts keep the invariant                                 *)

\* The accounts as numbers.
LEMMA AccountFacts ==
  ASSUME Typed
  PROVE  /\ UpPackets \in Int /\ DnPackets \in Int /\ DnPolls \in Int
         /\ OpenQuery \in Int /\ OpenFar \in Int /\ OpenReply \in Int
         /\ past.queries \in Int /\ past.replies \in Int /\ past.late \in Int
         /\ others_q \in Int /\ others_r \in Int
<1>1. /\ past.up.lost \in Int /\ past.up.since \in Int /\ past.up.early \in Int
      /\ past.dn.lost \in Int /\ past.dn.since \in Int /\ past.dn.early \in Int
  BY Fields
<1>2. /\ past.queries \in Int /\ past.replies \in Int /\ past.late \in Int
      /\ OpenQuery \in Int /\ OpenReply \in Int /\ OpenFar \in Int
      /\ others_q \in Int /\ others_r \in Int
  BY Fields
<1>3. UpPackets \in Int /\ DnPackets \in Int
  BY <1>1 DEF UpPackets, DnPackets
<1>4. DnPolls \in Int
  BY <1>2 DEF DnPolls
<1> QED
  BY <1>2, <1>3, <1>4

LEMMA Traffic ==
  ASSUME VerdictInv, Typed', PollerStays, RestStays, mpc # "off", user' = user + 1,
         NEW du \in {0, 1}, NEW lu \in {0, 1}, NEW dd \in {0, 1}, NEW ld \in {0, 1},
         UpMoves(du, lu), DnMoves(dd, ld), FarMoves(du, dd), LocalMoves(du + lu, dd - ld)
  PROVE  VerdictInv'
<1>1. Typed /\ Order /\ FarOK /\ AnswerOK /\ AccountsOK
  BY DEF VerdictInv
<1>2. du \in Int /\ lu \in Int /\ dd \in Int /\ ld \in Int /\ du <= 1 /\ dd <= 1 /\ du >= 0 /\ dd >= 0
  OBVIOUS
<1>3. /\ past'.up.pend = past.up.pend + du /\ past'.up.since = past.up.since + du
      /\ past'.up.lost = past.up.lost + lu /\ past'.up.early = past.up.early
      /\ past'.dn.pend = past.dn.pend + dd /\ past'.dn.since = past.dn.since + dd
      /\ past'.dn.lost = past.dn.lost + ld /\ past'.dn.early = past.dn.early
  BY DEF UpMoves, DnMoves
<1>4. /\ past'.queries = past.queries /\ past'.replies = past.replies /\ past'.late = past.late
      /\ past'.asked = past.asked /\ past'.sampled = past.sampled /\ past'.mixed = past.mixed
  BY DEF RestStays
<1>5. /\ mpc' = mpc /\ target' = target /\ rounds' = rounds /\ answer' = answer /\ remote' = remote
      /\ samples' = samples /\ misses' = misses /\ local_base' = local_base /\ lives' = lives
  BY DEF PollerStays
<1>6. /\ past.up.lost \in Nat /\ past.up.pend \in Nat /\ past.up.since \in Nat /\ past.up.early \in Nat
      /\ past.dn.lost \in Nat /\ past.dn.pend \in Nat /\ past.dn.since \in Nat /\ past.dn.early \in Nat
      /\ past.queries \in Nat /\ past.replies \in Int /\ past.late \in Nat
      /\ user \in Nat /\ rounds \in Nat /\ OpenQuery \in {0, 1} /\ OpenReply \in {0, 1} /\ OpenFar \in {0, 1}
      /\ others_q \in Int /\ others_r \in Int
  BY <1>1, Fields
<1>7. Order'
  <2>1. past'.up.pend <= past'.up.since /\ past'.dn.pend <= past'.dn.since
    BY <1>1, <1>2, <1>3, <1>6 DEF Order
  <2>2. LET open == IF mpc = "check" /\ target = 1 THEN 1 ELSE 0
        IN past'.up.since <= (user + 1) + rounds - open /\ past'.dn.since <= (user + 1) + rounds - open
    BY <1>1, <1>2, <1>3, <1>6 DEF Order
  <2> QED
    BY <1>1, <1>4, <1>5, <2>1, <2>2 DEF Order
<1>8. FarOK' /\ AnswerOK'
  BY <1>1, <1>2, <1>3, <1>4, StepFar
<1>9. AccountsOK'
  <2>1. OpenQuery' = OpenQuery /\ OpenReply' = OpenReply /\ OpenFar' = OpenFar
    BY <1>5 DEF OpenQuery, OpenReply, OpenFar
  <2>2. UpAccount' = UpAccount + ((du + lu) - 0)
    BY <1>2, <1>3, <1>4, <1>6, <2>1 DEF UpAccount, UpPackets
  <2>3. DnAccount' = DnAccount - ((dd - ld) - 0)
    <3>1. DnPackets \in Int /\ DnPackets' = DnPackets - (dd - ld)
      <4>1. /\ past.dn.lost \in Int /\ past.dn.early \in Int /\ past.dn.since \in Int
            /\ dd \in Int /\ ld \in Int
        BY <1>2, <1>6
      <4>2. /\ past'.dn.lost = past.dn.lost + ld /\ past'.dn.early = past.dn.early
            /\ past'.dn.since = past.dn.since + dd
        BY <1>3
      <4>3. (past.dn.lost + ld) + past.dn.early - (past.dn.since + dd)
              = (past.dn.lost + past.dn.early - past.dn.since) - (dd - ld)
        <5> DEFINE n == past.dn.early - past.dn.since
        <5>1. n \in Int /\ past.dn.early - (past.dn.since + dd) = n - dd
          BY <4>1
        <5> HIDE DEF n
        <5>2. (past.dn.lost + ld) + (n - dd) = (past.dn.lost + n) - (dd - ld)
          BY <4>1, <5>1
        <5> QED
          BY <5>1, <5>2 DEF n
      <4>4. DnPackets' = (past.dn.lost + ld) + past.dn.early - (past.dn.since + dd)
        BY <4>2 DEF DnPackets
      <4>5. DnPackets = past.dn.lost + past.dn.early - past.dn.since
        BY DEF DnPackets
      <4>6. DnPackets' = DnPackets - (dd - ld)
        BY <4>3, <4>4, <4>5
      <4> QED
        BY <1>1, <4>6, AccountFacts
    <3>2. DnPolls \in Int /\ DnPolls' = DnPolls
      BY <1>4, <1>6, <2>1 DEF DnPolls
    <3> QED
      BY <1>2, <1>6, <2>1, <3>1, <3>2 DEF DnAccount
  <2>4. SumsMove(0, 0)
    BY <1>5, <1>6 DEF others_q, others_r, SumsMove
  <2>5. AccountsMove(du + lu, dd - ld)
    BY <1>2, <2>2, <2>3 DEF AccountsMove
  <2>6. /\ du + lu \in Int /\ dd - ld \in Int /\ 0 \in Int
        /\ du + lu = (du + lu) - 0 /\ dd - ld = (dd - ld) - 0
    BY <1>2
  <2> QED
    BY <1>1, <1>4, <1>5, <2>4, <2>5, <2>6, StepAccounts
<1> QED
  BY <1>7, <1>8, <1>9 DEF VerdictInv

\* A packet up that is counted in the history.
LEMMA CountedUp ==
  ASSUME Typed, NEW arrives \in BOOLEAN, past' = [past EXCEPT !.up = CountUp(@, arrives)]
  PROVE  UpMoves(IF arrives THEN 1 ELSE 0, IF arrives THEN 0 ELSE 1) /\ DnMoves(0, 0) /\ RestStays
<1>1. /\ past.up \in Direction /\ past'.up = CountUp(past.up, arrives) /\ past'.dn = past.dn
      /\ RestStays
  BY DEF Typed, PastTyped, Past, RestStays
<1>2. UpMoves(IF arrives THEN 1 ELSE 0, IF arrives THEN 0 ELSE 1)
  <2>1. past.up.lost \in Nat /\ past.up.pend \in Nat /\ past.up.since \in Nat
    BY Fields
  <2>2. CASE arrives = TRUE
    <3>1. past'.up = CountUp(past.up, TRUE) /\ past.up.lost = past.up.lost + 0
      BY <1>1, <2>1, <2>2
    <3>2. UpMoves(1, 0)
      BY <1>1, <3>1, CountFields DEF UpMoves
    <3> QED
      BY <2>2, <3>2
  <2>3. CASE arrives = FALSE
    <3>1. past'.up = CountUp(past.up, FALSE)
      BY <1>1, <2>3
    <3>2. past.up.pend = past.up.pend + 0 /\ past.up.since = past.up.since + 0
      BY <2>1
    <3>3. UpMoves(0, 1)
      BY <1>1, <3>1, <3>2, CountFields DEF UpMoves
    <3> QED
      BY <2>3, <3>3
  <2> QED
    BY <2>2, <2>3
<1>3. DnMoves(0, 0)
  BY <1>1, Fields DEF DnMoves
<1> QED
  BY <1>1, <1>2, <1>3

\* ... and one down.
LEMMA CountedDown ==
  ASSUME Typed, NEW arrives \in BOOLEAN, past' = [past EXCEPT !.dn = CountDown(@, arrives)]
  PROVE  UpMoves(0, 0) /\ DnMoves(1, IF arrives THEN 0 ELSE 1) /\ RestStays
<1>1. /\ past.dn \in Direction /\ past'.dn = CountDown(past.dn, arrives) /\ past'.up = past.up
      /\ RestStays
  BY DEF Typed, PastTyped, Past, RestStays
<1>2. DnMoves(1, IF arrives THEN 0 ELSE 1)
  <2>1. past.dn.lost \in Nat /\ past.dn.pend \in Nat /\ past.dn.since \in Nat
    BY Fields
  <2>2. CASE arrives = TRUE
    <3>1. past'.dn = CountDown(past.dn, TRUE) /\ past.dn.lost = past.dn.lost + 0
      BY <1>1, <2>1, <2>2
    <3>2. DnMoves(1, 0)
      BY <1>1, <3>1, CountFields DEF DnMoves
    <3> QED
      BY <2>2, <3>2
  <2>3. CASE arrives = FALSE
    <3>1. past'.dn = CountDown(past.dn, FALSE)
      BY <1>1, <2>3
    <3>2. DnMoves(1, 1)
      BY <1>1, <3>1, CountFields DEF DnMoves
    <3> QED
      BY <2>3, <3>2
  <2> QED
    BY <2>2, <2>3
<1>3. UpMoves(0, 0)
  BY <1>1, Fields DEF UpMoves
<1> QED
  BY <1>1, <1>2, <1>3

\* Counters that stay, and one that is incremented.
LEMMA CountersMove ==
  ASSUME NEW c \in Counters
  PROVE  /\ Cong(c.tx, c.tx + 0) /\ Cong(c.rx, c.rx + 0)
         /\ [c EXCEPT !.tx = Inc(@)].tx = Inc(c.tx) /\ [c EXCEPT !.tx = Inc(@)].rx = c.rx
         /\ [c EXCEPT !.rx = Inc(@)].rx = Inc(c.rx) /\ [c EXCEPT !.rx = Inc(@)].tx = c.tx
         /\ Cong(Inc(c.tx), c.tx + 1) /\ Cong(Inc(c.rx), c.rx + 1)
<1>1. c.tx \in Value /\ c.rx \in Value /\ c.tx \in Int /\ c.rx \in Int
  BY Width DEF Counters, Value, M
<1>2. c.tx + 0 = c.tx /\ c.rx + 0 = c.rx
  BY <1>1
<1>3. Cong(c.tx, c.tx) /\ Cong(c.rx, c.rx)
  BY <1>1, CongSame
<1>4. Cong(Inc(c.tx), c.tx + 1) /\ Cong(Inc(c.rx), c.rx + 1)
  BY <1>1, IncStep
<1> QED
  BY <1>2, <1>3, <1>4 DEF Counters

LEMMA UserUpKeeps == VerdictInv /\ UserUp => VerdictInv'
<1> SUFFICES ASSUME VerdictInv, UserUp PROVE VerdictInv'
  OBVIOUS
<1>1. Typed /\ Typed' /\ far \in Counters /\ local \in Counters
  BY TrafficTyped DEF VerdictInv, Typed, CountersTyped
<1>2. PollerStays /\ mpc # "off" /\ user' = user + 1
  BY DEF UserUp, PollerStays
<1>3. PICK arrives \in BOOLEAN :
        /\ far' = IF arrives THEN [far EXCEPT !.rx = Inc(@)] ELSE far
        /\ past' = [past EXCEPT !.up = CountUp(@, arrives)]
  BY DEF UserUp
<1>4. UpMoves(IF arrives THEN 1 ELSE 0, IF arrives THEN 0 ELSE 1) /\ DnMoves(0, 0) /\ RestStays
  BY <1>1, <1>3, CountedUp
<1>5. LocalMoves(1, 0)
  <2>1. local' = [local EXCEPT !.tx = Inc(@)]
    BY DEF UserUp
  <2> QED
    BY <1>1, <2>1, CountersMove DEF LocalMoves
<1>6. CASE arrives = TRUE
  <2>1. FarMoves(1, 0)
    BY <1>1, <1>3, <1>6, CountersMove DEF FarMoves
  <2>2. UpMoves(1, 0) /\ LocalMoves(1 + 0, 0 - 0)
    BY <1>4, <1>5, <1>6
  <2> QED
    BY <1>1, <1>2, <1>4, <2>1, <2>2, Traffic
<1>7. CASE arrives = FALSE
  <2>1. FarMoves(0, 0)
    BY <1>1, <1>3, <1>7, CountersMove DEF FarMoves
  <2>2. UpMoves(0, 1) /\ LocalMoves(0 + 1, 0 - 0)
    BY <1>4, <1>5, <1>7
  <2> QED
    BY <1>1, <1>2, <1>4, <2>1, <2>2, Traffic
<1> QED
  BY <1>6, <1>7

LEMMA UserDownKeeps == VerdictInv /\ UserDown => VerdictInv'
<1> SUFFICES ASSUME VerdictInv, UserDown PROVE VerdictInv'
  OBVIOUS
<1>1. Typed /\ Typed' /\ far \in Counters /\ local \in Counters
  BY TrafficTyped DEF VerdictInv, Typed, CountersTyped
<1>2. PollerStays /\ mpc # "off" /\ user' = user + 1
  BY DEF UserDown, PollerStays
<1>3. PICK arrives \in BOOLEAN :
        /\ local' = IF arrives THEN [local EXCEPT !.rx = Inc(@)] ELSE local
        /\ past' = [past EXCEPT !.dn = CountDown(@, arrives)]
  BY DEF UserDown
<1>4. UpMoves(0, 0) /\ DnMoves(1, IF arrives THEN 0 ELSE 1) /\ RestStays
  BY <1>1, <1>3, CountedDown
<1>5. FarMoves(0, 1)
  <2>1. far' = [far EXCEPT !.tx = Inc(@)]
    BY DEF UserDown
  <2> QED
    BY <1>1, <2>1, CountersMove DEF FarMoves
<1>6. CASE arrives = TRUE
  <2>1. LocalMoves(0 + 0, 1 - 0) /\ DnMoves(1, 0)
    BY <1>1, <1>3, <1>4, <1>6, CountersMove DEF LocalMoves
  <2> QED
    BY <1>1, <1>2, <1>4, <1>5, <2>1, Traffic
<1>7. CASE arrives = FALSE
  <2>1. LocalMoves(0 + 0, 1 - 1) /\ DnMoves(1, 1)
    BY <1>1, <1>3, <1>4, <1>7, CountersMove DEF LocalMoves
  <2> QED
    BY <1>1, <1>2, <1>4, <1>5, <2>1, Traffic
<1> QED
  BY <1>6, <1>7

\* A restart makes every statement about the far end's counters void.
LEMMA FarRestartsKeeps == VerdictInv /\ FarRestarts => VerdictInv'
<1> SUFFICES ASSUME VerdictInv, FarRestarts PROVE VerdictInv'
  OBVIOUS
<1>1. Typed /\ Typed' /\ Order /\ FarOK /\ AnswerOK /\ AccountsOK
  BY TrafficTyped DEF VerdictInv
<1>2. past.sampled \in Nat /\ past.asked \in Nat /\ lives \in Nat /\ past.sampled <= past.asked /\ past.asked <= lives
  BY <1>1, Fields DEF Order
<1>3. lives' # past.sampled /\ lives' # past.asked /\ past.asked <= lives'
  BY <1>2 DEF FarRestarts
<1>4. Order'
  BY <1>1, <1>3 DEF FarRestarts, Order
<1>5. FarOK' /\ AnswerOK'
  BY <1>1, <1>3 DEF FarRestarts, FarOK, AnswerOK
<1>6. AccountsOK'
  BY <1>1 DEF FarRestarts, AccountsOK, UpMissing, DnMissing, UpAccount, DnAccount, UpPackets, DnPackets,
              DnPolls, others_q, others_r, OpenQuery, OpenReply, OpenFar
<1> QED
  BY <1>1, <1>4, <1>5, <1>6 DEF VerdictInv

-----------------------------------------------------------------------------
(* The polls keep the invariant                                            *)

LEMMA SumsStay ==
  ASSUME Typed, samples' = samples, misses' = misses
  PROVE  SumsMove(0, 0)
<1>1. others_q' = others_q /\ others_r' = others_r
  BY DEF others_q, others_r
<1>2. others_q \in Int /\ others_r \in Int
  BY AccountFacts
<1> QED
  BY <1>1, <1>2 DEF SumsMove

\* The poll of another target: only what is under way changes.
LEMMA AskOther ==
  ASSUME VerdictInv, PollAsk, target # 1
  PROVE  VerdictInv'
<1>1. Typed /\ Typed' /\ Order /\ FarOK /\ AnswerOK /\ AccountsOK /\ local \in Counters
  BY AskTyped DEF VerdictInv, Typed, CountersTyped
<1>2. /\ mpc = "check" /\ mpc' = "wait" /\ target' = target
      /\ far' = far /\ past' = past /\ remote' = remote /\ local_base' = local_base
      /\ lives' = lives /\ user' = user /\ rounds' = rounds /\ samples' = samples /\ misses' = misses
      /\ local' = [local EXCEPT !.tx = Inc(@)]
  BY DEF PollAsk
<1>3. Order'
  BY <1>1, <1>2 DEF Order
<1>4. FarOK' /\ AnswerOK'
  BY <1>1, <1>2 DEF FarOK, AnswerOK
<1>5. AccountsOK'
  <2>1. OpenQuery = 0 /\ OpenQuery' = 1 /\ OpenFar' = OpenFar /\ OpenReply' = OpenReply
    BY <1>2 DEF OpenQuery, OpenFar, OpenReply
  <2>2. UpPackets' = UpPackets /\ DnPackets' = DnPackets
    BY <1>2 DEF UpPackets, DnPackets
  <2>3. DnPolls' = DnPolls
    BY <1>2, <2>1 DEF DnPolls
  <2>4. AccountsMove(1, 0)
    <3>1. UpAccount' = UpAccount + 1
      BY <1>1, <1>2, <2>1, <2>2, AccountFacts DEF UpAccount
    <3>2. DnAccount' = DnAccount - 0
      BY <1>1, <2>1, <2>2, <2>3, AccountFacts DEF DnAccount
    <3> QED
      BY <3>1, <3>2 DEF AccountsMove
  <2>5. SumsMove(0, 0)
    BY <1>1, <1>2, SumsStay
  <2>6. LocalMoves(1, 0)
    BY <1>1, <1>2, CountersMove DEF LocalMoves
  <2>7. 1 = 1 - 0 /\ 0 = 0 - 0 /\ 1 \in Int /\ 0 \in Int
    OBVIOUS
  <2> QED
    BY <1>1, <1>2, <2>4, <2>5, <2>6, <2>7, StepAccounts
<1> QED
  BY <1>1, <1>3, <1>4, <1>5 DEF VerdictInv

\* A poll of the far end that is lost on its way is a packet lost.
LEMMA AskLost ==
  ASSUME VerdictInv, PollAsk, target = 1,
         answer' = NoAnswer, past' = [past EXCEPT !.up = CountUp(@, FALSE)], far' = far
  PROVE  VerdictInv'
<1>1. Typed /\ Typed' /\ Order /\ FarOK /\ AnswerOK /\ AccountsOK /\ local \in Counters
  BY AskTyped DEF VerdictInv, Typed, CountersTyped
<1>2. /\ mpc = "check" /\ mpc' = "wait" /\ target' = target
      /\ remote' = remote /\ local_base' = local_base
      /\ lives' = lives /\ user' = user /\ rounds' = rounds /\ samples' = samples /\ misses' = misses
      /\ local' = [local EXCEPT !.tx = Inc(@)] /\ ~answer'.got
  BY DEF PollAsk, NoAnswer
<1>3. UpMoves(0, 1) /\ DnMoves(0, 0) /\ RestStays
  <2>1. FALSE \in BOOLEAN /\ (IF FALSE THEN 1 ELSE 0) = 0 /\ (IF FALSE THEN 0 ELSE 1) = 1
    OBVIOUS
  <2> QED
    BY <1>1, <2>1, CountedUp
<1>4. /\ past.up.lost \in Int /\ past.up.pend \in Int /\ past.up.since \in Int /\ past.up.early \in Int
      /\ past.dn.lost \in Int /\ past.dn.pend \in Int /\ past.dn.since \in Int /\ past.dn.early \in Int
      /\ user \in Int /\ rounds \in Int
  BY <1>1, Fields
<1>5. /\ past'.up.pend = past.up.pend /\ past'.up.since = past.up.since
      /\ past'.up.lost = past.up.lost + 1 /\ past'.up.early = past.up.early
      /\ past'.dn.pend = past.dn.pend /\ past'.dn.since = past.dn.since
      /\ past'.dn.lost = past.dn.lost /\ past'.dn.early = past.dn.early
  <2>1. /\ past.up.pend + 0 = past.up.pend /\ past.up.since + 0 = past.up.since
        /\ past.dn.pend + 0 = past.dn.pend /\ past.dn.since + 0 = past.dn.since
        /\ past.dn.lost + 0 = past.dn.lost
    BY <1>4
  <2> QED
    BY <1>3, <2>1 DEF UpMoves, DnMoves
<1>6. /\ past'.queries = past.queries /\ past'.replies = past.replies /\ past'.late = past.late
      /\ past'.asked = past.asked /\ past'.sampled = past.sampled /\ past'.mixed = past.mixed
  BY <1>3 DEF RestStays
<1>7. Order'
  <2>1. past.up.since <= user + rounds - 0 /\ past.dn.since <= user + rounds - 0
    <3>1. past.up.since <= user + rounds - 1 /\ past.dn.since <= user + rounds - 1
      BY <1>1, <1>2 DEF Order
    <3> QED
      BY <1>4, <3>1
  <2> QED
    BY <1>1, <1>2, <1>5, <1>6, <2>1 DEF Order
<1>8. FarOK' /\ AnswerOK'
  BY <1>1, <1>2, <1>5, <1>6 DEF FarOK, AnswerOK
<1>9. AccountsOK'
  <2>1. OpenQuery' = OpenQuery /\ OpenFar' = OpenFar /\ OpenReply' = OpenReply
    BY <1>2 DEF OpenQuery, OpenFar, OpenReply
  <2>2. UpPackets' = UpPackets + 1
    <3>1. past.up.lost + 1 + past.up.since - past.up.early = past.up.lost + past.up.since - past.up.early + 1
      BY <1>4
    <3> QED
      BY <1>5, <3>1 DEF UpPackets
  <2>3. DnPackets' = DnPackets
    BY <1>5 DEF DnPackets
  <2>4. DnPolls' = DnPolls
    BY <1>6, <2>1 DEF DnPolls
  <2>5. AccountsMove(1, 0)
    <3>1. UpAccount' = UpAccount + 1
      BY <1>1, <1>6, <2>1, <2>2, AccountFacts DEF UpAccount
    <3>2. DnAccount' = DnAccount - 0
      BY <1>1, <2>1, <2>3, <2>4, AccountFacts DEF DnAccount
    <3> QED
      BY <3>1, <3>2 DEF AccountsMove
  <2>6. SumsMove(0, 0)
    BY <1>1, <1>2, SumsStay
  <2>7. LocalMoves(1, 0)
    BY <1>1, <1>2, CountersMove DEF LocalMoves
  <2>8. 1 = 1 - 0 /\ 0 = 0 - 0 /\ 1 \in Int /\ 0 \in Int
    OBVIOUS
  <2> QED
    BY <1>1, <1>2, <1>6, <2>5, <2>6, <2>7, <2>8, StepAccounts
<1> QED
  BY <1>1, <1>7, <1>8, <1>9 DEF VerdictInv

\* A poll of the far end that is answered: a sample of its counters.
LEMMA AskAnswered ==
  ASSUME VerdictInv, PollAsk, target = 1,
         answer' = [got |-> TRUE, tx |-> far.tx, rx |-> Inc(far.rx)],
         far' = [tx |-> Inc(far.tx), rx |-> Inc(far.rx)],
         past' = [past EXCEPT !.up.pend = 0, !.up.since = @ + 1,
                              !.dn.pend = 1, !.dn.since = @ + 1, !.asked = lives]
  PROVE  VerdictInv'
<1>1. Typed /\ Typed' /\ Order /\ FarOK /\ AccountsOK /\ local \in Counters /\ far \in Counters
  BY AskTyped DEF VerdictInv, Typed, CountersTyped
<1>2. /\ mpc = "check" /\ mpc' = "wait" /\ target' = target
      /\ remote' = remote /\ local_base' = local_base
      /\ lives' = lives /\ user' = user /\ rounds' = rounds /\ samples' = samples /\ misses' = misses
      /\ local' = [local EXCEPT !.tx = Inc(@)]
  BY DEF PollAsk
<1>3. /\ past.up.lost \in Int /\ past.up.pend \in Int /\ past.up.since \in Nat /\ past.up.early \in Int
      /\ past.dn.lost \in Int /\ past.dn.pend \in Int /\ past.dn.since \in Nat /\ past.dn.early \in Int
      /\ user \in Int /\ rounds \in Int /\ past.sampled \in Nat /\ past.asked \in Nat /\ lives \in Nat
  BY <1>1, Fields
<1>4. /\ past'.up.pend = 0 /\ past'.up.since = past.up.since + 1
      /\ past'.up.lost = past.up.lost /\ past'.up.early = past.up.early
      /\ past'.dn.pend = 1 /\ past'.dn.since = past.dn.since + 1
      /\ past'.dn.lost = past.dn.lost /\ past'.dn.early = past.dn.early
  BY <1>1 DEF Typed, PastTyped, Past, Direction
<1>5. /\ past'.queries = past.queries /\ past'.replies = past.replies /\ past'.late = past.late
      /\ past'.asked = lives /\ past'.sampled = past.sampled /\ past'.mixed = past.mixed
  BY <1>1 DEF Typed, PastTyped, Past
<1>6. Order'
  <2>1. past.up.since + 1 <= user + rounds - 0 /\ past.dn.since + 1 <= user + rounds - 0
    <3>1. past.up.since <= user + rounds - 1 /\ past.dn.since <= user + rounds - 1
      BY <1>1, <1>2 DEF Order
    <3> QED
      BY <1>3, <3>1
  <2>2. 0 <= past.up.since + 1 /\ 1 <= past.dn.since + 1 /\ past.sampled <= lives
    BY <1>1, <1>3 DEF Order
  <2>3. lives <= lives /\ remote.reboots <= past.sampled
    BY <1>1, <1>3 DEF Order
  <2> QED
    BY <1>1, <1>2, <1>4, <1>5, <2>1, <2>2, <2>3 DEF Order
<1>7. /\ far'.rx = Inc(far.rx) /\ far'.tx = Inc(far.tx) /\ answer'.rx = Inc(far.rx) /\ answer'.tx = far.tx
      /\ Cong(Inc(far.rx), far.rx + 1) /\ Cong(Inc(far.tx), far.tx + 1)
      /\ far.rx \in Int /\ far.tx \in Int /\ Inc(far.rx) \in Int /\ Inc(far.tx) \in Int
  <2>1. far.tx \in Value /\ far.rx \in Value /\ Value \subseteq Int
    BY <1>1, Fields
  <2> QED
    BY <1>1, <2>1, IncStep
<1>8. remote.last.rx \in Int /\ remote.last.tx \in Int
  BY <1>1, Fields
<1>9. ASSUME remote.have_base, lives = past.sampled
      PROVE  /\ Cong(far.tx, remote.last.tx + past.dn.since)
             /\ Cong(Inc(far.rx), remote.last.rx + (past.up.since + 1))
             /\ Cong(Inc(far.tx), remote.last.tx + (past.dn.since + 1))
  <2>1. Cong(far.rx, remote.last.rx + past.up.since) /\ Cong(far.tx, remote.last.tx + past.dn.since)
    BY <1>1, <1>9 DEF FarOK
  <2>2. past.up.since \in Int /\ past.dn.since \in Int /\ 1 \in Int
    BY <1>3
  <2>3. Cong(Inc(far.rx), remote.last.rx + (past.up.since + 1))
    BY <1>7, <1>8, <2>1, <2>2, CongOn
  <2>4. Cong(Inc(far.tx), remote.last.tx + (past.dn.since + 1))
    BY <1>7, <1>8, <2>1, <2>2, CongOn
  <2> QED
    BY <2>1, <2>3, <2>4
<1>10. FarOK'
  BY <1>2, <1>4, <1>5, <1>7, <1>9 DEF FarOK
<1>11. AnswerOK'
  <2>1. /\ Inc(far.rx) + 0 = Inc(far.rx)
        /\ remote.last.rx + (past.up.since + 1) - 0 = remote.last.rx + (past.up.since + 1)
        /\ remote.last.tx + (past.dn.since + 1) - 1 = remote.last.tx + past.dn.since
    BY <1>3, <1>7, <1>8
  <2>2. Cong(Inc(far.rx), Inc(far.rx) + 0)
    BY <1>7, <2>1, CongSame
  <2>3. Cong(far'.rx, answer'.rx + past'.up.pend) /\ Cong(far'.tx, answer'.tx + past'.dn.pend)
    BY <1>4, <1>7, <2>2
  <2>4. ASSUME remote.have_base, lives = past.sampled
        PROVE  /\ Cong(answer'.rx, remote.last.rx + past'.up.since - past'.up.pend)
               /\ Cong(answer'.tx, remote.last.tx + past'.dn.since - past'.dn.pend)
    BY <1>4, <1>7, <1>9, <2>1, <2>4
  <2> QED
    BY <1>2, <1>5, <2>3, <2>4 DEF AnswerOK
<1>12. AccountsOK'
  <2>1. /\ OpenQuery' = OpenQuery /\ OpenReply' = OpenReply /\ OpenFar = 0 /\ OpenFar' = 1
    BY <1>2 DEF OpenQuery, OpenFar, OpenReply
  <2>2. UpPackets' = UpPackets + 1
    <3>1. past.up.lost + (past.up.since + 1) - past.up.early = past.up.lost + past.up.since - past.up.early + 1
      BY <1>3
    <3> QED
      BY <1>4, <3>1 DEF UpPackets
  <2>3. DnPackets' = DnPackets - 1
    <3>1. past.dn.lost + past.dn.early - (past.dn.since + 1) = past.dn.lost + past.dn.early - past.dn.since - 1
      BY <1>3
    <3>2. /\ past'.dn.lost = past.dn.lost /\ past'.dn.early = past.dn.early
          /\ past'.dn.since = past.dn.since + 1
      BY <1>4
    <3>3. past.dn.lost \in Int /\ past.dn.early \in Int /\ past.dn.since \in Int
      BY <1>3
    <3> QED
      BY <3>1, <3>2, <3>3 DEF DnPackets
  <2>4. DnPolls' = DnPolls
    BY <1>5, <2>1 DEF DnPolls
  <2>5. AccountsMove(1, 0)
    <3>1. UpAccount' = UpAccount + 1
      BY <1>1, <1>5, <2>1, <2>2, AccountFacts DEF UpAccount
    <3>2. DnAccount' = DnAccount - 0
      BY <1>1, <2>1, <2>3, <2>4, AccountFacts DEF DnAccount
    <3> QED
      BY <3>1, <3>2 DEF AccountsMove
  <2>6. SumsMove(0, 0)
    BY <1>1, <1>2, SumsStay
  <2>7. LocalMoves(1, 0)
    BY <1>1, <1>2, CountersMove DEF LocalMoves
  <2>8. 1 = 1 - 0 /\ 0 = 0 - 0 /\ 1 \in Int /\ 0 \in Int
    OBVIOUS
  <2> QED
    BY <1>1, <1>2, <1>5, <2>5, <2>6, <2>7, <2>8, StepAccounts
<1> QED
  BY <1>1, <1>6, <1>10, <1>11, <1>12 DEF VerdictInv

LEMMA PollAskKeeps == VerdictInv /\ PollAsk => VerdictInv'
<1> SUFFICES ASSUME VerdictInv, PollAsk PROVE VerdictInv'
  OBVIOUS
<1>1. CASE target # 1
  BY <1>1, AskOther
<1>2. CASE target = 1 /\ answer' = NoAnswer /\ past' = [past EXCEPT !.up = CountUp(@, FALSE)] /\ far' = far
  BY <1>2, AskLost
<1>3. CASE /\ target = 1 /\ answer' = [got |-> TRUE, tx |-> far.tx, rx |-> Inc(far.rx)]
           /\ far' = [tx |-> Inc(far.tx), rx |-> Inc(far.rx)]
           /\ past' = [past EXCEPT !.up.pend = 0, !.up.since = @ + 1,
                                   !.dn.pend = 1, !.dn.since = @ + 1, !.asked = lives]
  BY <1>3, AskAnswered
<1> QED
  BY <1>1, <1>2, <1>3 DEF PollAsk

\* A reply is counted here; its poll stays under way until it is recorded.
LEMMA PollReplyKeeps == VerdictInv /\ PollReply => VerdictInv'
<1> SUFFICES ASSUME VerdictInv, PollReply PROVE VerdictInv'
  OBVIOUS
<1>1. Typed /\ Typed' /\ Order /\ FarOK /\ AnswerOK /\ AccountsOK /\ local \in Counters
  BY AskTyped DEF VerdictInv, Typed, CountersTyped
<1>2. /\ mpc = "wait" /\ mpc' = "record" /\ answer.got /\ answer' = answer /\ target' = target
      /\ far' = far /\ past' = past /\ remote' = remote /\ local_base' = local_base
      /\ lives' = lives /\ user' = user /\ rounds' = rounds /\ samples' = samples /\ misses' = misses
      /\ local' = [local EXCEPT !.rx = Inc(@)]
  BY DEF PollReply
<1>3. Order'
  BY <1>1, <1>2 DEF Order
<1>4. FarOK' /\ AnswerOK'
  BY <1>1, <1>2 DEF FarOK, AnswerOK
<1>5. AccountsOK'
  <2>1. OpenQuery' = OpenQuery
    BY <1>2 DEF OpenQuery
  <2>2. UpPackets' = UpPackets /\ DnPackets' = DnPackets
    BY <1>2 DEF UpPackets, DnPackets
  <2>3. AccountsMove(0, 1)
    <3>1. UpAccount' = UpAccount + 0
      BY <1>1, <1>2, <2>1, <2>2, AccountFacts DEF UpAccount
    <3>2. DnAccount' = DnAccount - 1
      <4>1. CASE target = 1
        <5>1. OpenFar = 1 /\ OpenFar' = 0 /\ OpenReply' = OpenReply
          BY <1>2, <4>1 DEF OpenFar, OpenReply
        <5>2. DnPolls' = DnPolls
          BY <1>2, <5>1 DEF DnPolls
        <5> QED
          BY <1>1, <2>2, <5>1, <5>2, AccountFacts DEF DnAccount
      <4>2. CASE target # 1
        <5>1. OpenFar' = OpenFar /\ OpenReply = 0 /\ OpenReply' = 1
          BY <1>2, <4>2 DEF OpenFar, OpenReply
        <5>2. DnPolls' = DnPolls - 1
          BY <1>1, <1>2, <5>1, AccountFacts DEF DnPolls
        <5> QED
          BY <1>1, <2>2, <5>1, <5>2, AccountFacts DEF DnAccount
      <4> QED
        BY <4>1, <4>2
    <3> QED
      BY <3>1, <3>2 DEF AccountsMove
  <2>4. SumsMove(0, 0)
    BY <1>1, <1>2, SumsStay
  <2>5. LocalMoves(0, 1)
    BY <1>1, <1>2, CountersMove DEF LocalMoves
  <2>6. 1 = 1 - 0 /\ 0 = 0 - 0 /\ 1 \in Int /\ 0 \in Int
    OBVIOUS
  <2> QED
    BY <1>1, <1>2, <2>3, <2>4, <2>5, <2>6, StepAccounts
<1> QED
  BY <1>1, <1>3, <1>4, <1>5 DEF VerdictInv

\* A poll more in the counts of samples, or in that of misses too.
LEMMA SumsCount ==
  ASSUME Typed, samples' = [samples EXCEPT ![target] = @ + 1]
  PROVE  /\ target = 1 /\ misses' \in {misses, [misses EXCEPT ![target] = @ + 1]} => SumsMove(0, 0)
         /\ target # 1 /\ misses' = misses => SumsMove(1, 1)
         /\ target # 1 /\ misses' = [misses EXCEPT ![target] = @ + 1] => SumsMove(1, 0)
<1>1. samples \in [Targets -> Nat] /\ misses \in [Targets -> Nat] /\ target \in Targets
  BY DEF Typed, SamplesTyped, PollerTyped
<1>2. Sum(samples) \in Nat /\ Sum(misses) \in Nat
  BY <1>1, SumType
<1>3. /\ others_q = Sum(samples) /\ others_r = Sum(samples) - Sum(misses)
      /\ others_q' = Sum(samples') /\ others_r' = Sum(samples') - Sum(misses')
  BY DEF others_q, others_r
<1>4. CASE target = 1
  <2>1. Sum(samples') = Sum(samples)
    BY <1>1, <1>4, SumFar
  <2>2. misses' \in {misses, [misses EXCEPT ![target] = @ + 1]} => Sum(misses') = Sum(misses)
    BY <1>1, <1>4, SumFar
  <2> QED
    BY <1>2, <1>3, <1>4, <2>1, <2>2 DEF SumsMove
<1>5. CASE target # 1
  <2>1. Sum(samples') = Sum(samples) + 1
    BY <1>1, <1>5, SumOther
  <2>2. misses' = [misses EXCEPT ![target] = @ + 1] => Sum(misses') = Sum(misses) + 1
    <3>1. Sum([misses EXCEPT ![target] = @ + 1]) = Sum(misses) + 1
      BY <1>1, <1>5, SumOther
    <3> QED
      BY <3>1
  <2>3. misses' = misses => SumsMove(1, 1)
    BY <1>2, <1>3, <2>1 DEF SumsMove
  <2>4. misses' = [misses EXCEPT ![target] = @ + 1] => SumsMove(1, 0)
    BY <1>2, <1>3, <2>1, <2>2 DEF SumsMove
  <2> QED
    BY <1>5, <2>3, <2>4
<1> QED
  BY <1>4, <1>5

\* The poll of another target is recorded.
LEMMA RecordOtherKeeps == VerdictInv /\ RecordOther => VerdictInv'
<1> SUFFICES ASSUME VerdictInv, RecordOther PROVE VerdictInv'
  OBVIOUS
<1>1. /\ Typed /\ Typed' /\ Order /\ FarOK /\ AccountsOK /\ local \in Counters
      /\ local.tx \in Int /\ local.rx \in Int
  BY RecordTyped, Fields DEF VerdictInv, Typed, CountersTyped
<1>2. /\ mpc = "record" /\ target # 1 /\ answer' = answer
      /\ far' = far /\ past' = past /\ remote' = remote /\ local_base' = local_base /\ local' = local
      /\ lives' = lives /\ user' = user /\ rounds' = rounds /\ misses' = misses
      /\ samples' = [samples EXCEPT ![target] = @ + 1]
  BY DEF RecordOther
<1>3. mpc' \in {"check", "sleep"} /\ (mpc' = "check" => target' # 1)
  BY <1>1, NextTyped DEF RecordOther, Typed, PollerTyped
<1>4. Order'
  BY <1>1, <1>2, <1>3 DEF Order
<1>5. FarOK' /\ AnswerOK'
  BY <1>1, <1>2, <1>3 DEF FarOK, AnswerOK
<1>6. AccountsOK'
  <2>1. /\ OpenQuery = 1 /\ OpenQuery' = 0 /\ OpenReply = 1 /\ OpenReply' = 0
        /\ OpenFar = 0 /\ OpenFar' = 0
    BY <1>2, <1>3 DEF OpenQuery, OpenReply, OpenFar
  <2>2. UpPackets' = UpPackets /\ DnPackets' = DnPackets
    BY <1>2 DEF UpPackets, DnPackets
  <2>3. DnPolls' = DnPolls + 1
    BY <1>1, <1>2, <2>1, AccountFacts DEF DnPolls
  <2>4. AccountsMove(-1, -1)
    <3>1. UpAccount' = UpAccount + (-1)
      BY <1>1, <1>2, <2>1, <2>2, AccountFacts DEF UpAccount
    <3>2. DnAccount' = DnAccount - (-1)
      BY <1>1, <2>1, <2>2, <2>3, AccountFacts DEF DnAccount
    <3> QED
      BY <3>1, <3>2 DEF AccountsMove
  <2>5. SumsMove(1, 1)
    BY <1>1, <1>2, SumsCount
  <2>6. LocalMoves(0, 0)
    BY <1>1, <1>2, CountersMove DEF LocalMoves
  <2>7. -1 = 0 - 1 /\ 1 \in Int /\ 0 \in Int /\ -1 \in Int
    OBVIOUS
  <2> QED
    BY <1>1, <1>2, <2>4, <2>5, <2>6, <2>7, StepAccounts
<1> QED
  BY <1>1, <1>4, <1>5, <1>6 DEF VerdictInv

LEMMA PollerStartKeeps == VerdictInv /\ PollerStart => VerdictInv'
<1> SUFFICES ASSUME VerdictInv, PollerStart PROVE VerdictInv'
  OBVIOUS
<1>1. Typed /\ Typed' /\ Order
  BY TrafficTyped DEF VerdictInv
<1>2. /\ mpc = "off" /\ mpc' = "check" /\ rounds = 0 /\ rounds' = 1 /\ ~remote.have_base
      /\ past' = past /\ remote' = remote /\ lives' = lives /\ user' = user
  BY <1>1 DEF PollerStart, Order
<1>3. Order'
  <2>1. past.up.since <= user + 0 - 0 /\ past.dn.since <= user + 0 - 0
    BY <1>1, <1>2 DEF Order
  <2>2. user \in Nat /\ past.up.since \in Nat /\ past.dn.since \in Nat
    BY <1>1, Fields
  <2>3. /\ past.up.since <= user + 1 - 0 /\ past.dn.since <= user + 1 - 0
        /\ past.up.since <= user + 1 - 1 /\ past.dn.since <= user + 1 - 1
    BY <2>1, <2>2
  <2> QED
    BY <1>1, <1>2, <2>3 DEF Order
<1>4. FarOK' /\ AnswerOK' /\ AccountsOK'
  BY <1>2 DEF FarOK, AnswerOK, AccountsOK
<1> QED
  BY <1>1, <1>3, <1>4 DEF VerdictInv

\* The pauses of the poller, its end, and csp_monitor stop.
LEMMA IdleKeeps == VerdictInv /\ (PollRound \/ PollerEnds \/ PollerStop \/ UNCHANGED verdictVars) => VerdictInv'
<1> SUFFICES ASSUME VerdictInv, PollRound \/ PollerEnds \/ PollerStop \/ UNCHANGED verdictVars PROVE VerdictInv'
  OBVIOUS
<1>1. Typed /\ Typed' /\ Order /\ FarOK /\ AnswerOK /\ AccountsOK
  BY IdleTyped DEF VerdictInv
<1>2. /\ target' = target /\ answer' = answer /\ remote' = remote /\ samples' = samples /\ misses' = misses
      /\ local' = local /\ local_base' = local_base /\ far' = far /\ user' = user /\ lives' = lives
      /\ past' = past
  BY DEF PollRound, PollerEnds, PollerStop, verdictVars
<1>3. mpc' = mpc \/ (mpc \in {"check", "sleep"} /\ mpc' \in {"check", "done"})
  BY DEF PollRound, PollerEnds, PollerStop, verdictVars, PollerMayEnd
<1>4. Order'
  <2>1. /\ user \in Int /\ rounds \in Int /\ past.up.since \in Int /\ past.dn.since \in Int
    BY <1>1, Fields
  <2>2. CASE PollRound
    <3>1. past.up.since <= user + rounds - 0 /\ past.dn.since <= user + rounds - 0
      BY <1>1, <2>2 DEF PollRound, Order
    <3>2. /\ past.up.since <= user + (rounds + 1) - 0 /\ past.dn.since <= user + (rounds + 1) - 0
          /\ past.up.since <= user + (rounds + 1) - 1 /\ past.dn.since <= user + (rounds + 1) - 1
      BY <2>1, <3>1
    <3> QED
      BY <1>1, <1>2, <2>2, <3>2 DEF PollRound, Order
  <2>3. CASE PollerEnds
    <3>1. past.up.since <= user + rounds - 0 /\ past.dn.since <= user + rounds - 0
      <4>1. \/ past.up.since <= user + rounds - 0 /\ past.dn.since <= user + rounds - 0
            \/ past.up.since <= user + rounds - 1 /\ past.dn.since <= user + rounds - 1
        BY <1>1 DEF Order
      <4> QED
        BY <2>1, <4>1
    <3> QED
      BY <1>1, <1>2, <2>3, <3>1 DEF PollerEnds, Order
  <2>4. CASE PollerStop \/ UNCHANGED verdictVars
    BY <1>1, <1>2, <2>4 DEF PollerStop, verdictVars, Order
  <2> QED
    BY <2>2, <2>3, <2>4
<1>5. FarOK' /\ AnswerOK'
  BY <1>1, <1>2, <1>3 DEF FarOK, AnswerOK
<1>6. AccountsOK'
  <2>1. OpenQuery' = OpenQuery /\ OpenReply' = OpenReply /\ OpenFar' = OpenFar
    BY <1>2, <1>3 DEF OpenQuery, OpenReply, OpenFar
  <2>2. UpPackets' = UpPackets /\ DnPackets' = DnPackets /\ DnPolls' = DnPolls
    BY <1>2, <2>1 DEF UpPackets, DnPackets, DnPolls
  <2>3. UpAccount' = UpAccount /\ DnAccount' = DnAccount
    BY <1>2, <2>1, <2>2 DEF UpAccount, DnAccount
  <2>4. UpMissing' = UpMissing /\ DnMissing' = DnMissing
    BY <1>2 DEF UpMissing, DnMissing, others_q, others_r
  <2> QED
    BY <1>1, <1>2, <2>3, <2>4 DEF AccountsOK
<1> QED
  BY <1>1, <1>4, <1>5, <1>6 DEF VerdictInv

\* What a time-out leaves to show about the history, the sums and the accounts.
LEMMA TimeoutRest ==
  ASSUME VerdictInv, PollTimeout,
         past'.up = past.up, past'.dn.pend = past.dn.pend, past'.dn.since = past.dn.since,
         past'.asked = past.asked, past'.sampled = past.sampled, past'.mixed = past.mixed,
         NEW rx \in Int, NEW q \in Int, NEW a \in Int, NEW b \in Int,
         LocalMoves(0, rx), SumsMove(q, 0), AccountsMove(a, b), a = 0 - q, b = rx
  PROVE  VerdictInv'
<1>1. Typed /\ Typed' /\ Order /\ FarOK /\ AccountsOK
  BY TimeoutTyped DEF VerdictInv
<1>2. /\ mpc = "wait" /\ answer' = NoAnswer /\ remote' = remote /\ local_base' = local_base
      /\ far' = far /\ user' = user /\ lives' = lives /\ rounds' = rounds
  BY DEF PollTimeout
<1>3. mpc' \in {"check", "sleep"} /\ (mpc' = "check" => target' # 1)
  BY <1>1, NextTyped DEF PollTimeout, Typed, PollerTyped
<1>4. Order'
  BY <1>1, <1>2, <1>3 DEF Order
<1>5. FarOK' /\ AnswerOK'
  BY <1>1, <1>2, <1>3 DEF FarOK, AnswerOK
<1>6. AccountsOK'
  <2>1. 0 \in Int /\ b = rx - 0
    OBVIOUS
  <2> QED
    BY <1>1, <1>2, <2>1, StepAccounts
<1> QED
  BY <1>1, <1>4, <1>5, <1>6 DEF VerdictInv

LEMMA TimeoutOther ==
  ASSUME VerdictInv, PollTimeout, target # 1
  PROVE  VerdictInv'
<1>1. /\ Typed /\ Typed' /\ local \in Counters
  BY TimeoutTyped DEF VerdictInv, Typed, CountersTyped
<1>2. /\ mpc = "wait" /\ samples' = [samples EXCEPT ![target] = @ + 1]
      /\ misses' = [misses EXCEPT ![target] = @ + 1]
  BY DEF PollTimeout
<1>3. mpc' \in {"check", "sleep"}
  BY <1>1, NextTyped DEF PollTimeout, Typed, PollerTyped
<1>4. PICK late \in BOOLEAN :
        /\ local' = IF late THEN [local EXCEPT !.rx = Inc(@)] ELSE local
        /\ past' = [past EXCEPT !.late = IF late THEN @ + 1 ELSE @]
  BY DEF PollTimeout
<1>5. /\ past'.up = past.up /\ past'.dn = past.dn /\ past'.asked = past.asked /\ past'.sampled = past.sampled
      /\ past'.mixed = past.mixed /\ past'.queries = past.queries /\ past'.replies = past.replies
      /\ past'.late = IF late THEN past.late + 1 ELSE past.late
  BY <1>1, <1>4 DEF Typed, PastTyped, Past
<1>6. SumsMove(1, 0)
  BY <1>1, <1>2, SumsCount
<1>7. /\ OpenQuery = 1 /\ OpenQuery' = 0 /\ OpenReply = 0 /\ OpenReply' = 0
      /\ OpenFar = 0 /\ OpenFar' = 0
  BY <1>2, <1>3 DEF OpenQuery, OpenReply, OpenFar
<1>8. UpPackets' = UpPackets /\ DnPackets' = DnPackets
  BY <1>5 DEF UpPackets, DnPackets
<1>9. UpAccount' = UpAccount + (-1)
  BY <1>1, <1>5, <1>7, <1>8, AccountFacts DEF UpAccount
<1>10. -1 = 0 - 1 /\ -1 \in Int /\ 0 \in Int /\ 1 \in Int
  OBVIOUS
<1>11. CASE late = TRUE
  <2>1. LocalMoves(0, 1)
    BY <1>1, <1>4, <1>11, CountersMove DEF LocalMoves
  <2>2. DnPolls' = DnPolls - 1
    BY <1>1, <1>5, <1>7, <1>11, AccountFacts DEF DnPolls
  <2>3. DnAccount' = DnAccount - 1
    BY <1>1, <1>7, <1>8, <2>2, AccountFacts DEF DnAccount
  <2>4. AccountsMove(-1, 1)
    BY <1>9, <2>3 DEF AccountsMove
  <2> QED
    BY <1>5, <1>6, <1>10, <2>1, <2>4, TimeoutRest
<1>12. CASE late = FALSE
  <2>1. LocalMoves(0, 0)
    BY <1>1, <1>4, <1>12, CountersMove DEF LocalMoves
  <2>2. DnPolls' = DnPolls
    BY <1>5, <1>7, <1>12 DEF DnPolls
  <2>3. DnAccount' = DnAccount - 0
    BY <1>1, <1>7, <1>8, <2>2, AccountFacts DEF DnAccount
  <2>4. AccountsMove(-1, 0)
    BY <1>9, <2>3 DEF AccountsMove
  <2> QED
    BY <1>5, <1>6, <1>10, <2>1, <2>4, TimeoutRest
<1> QED
  BY <1>11, <1>12

LEMMA TimeoutFar ==
  ASSUME VerdictInv, PollTimeout, target = 1
  PROVE  VerdictInv'
<1>1. /\ Typed /\ Typed' /\ local \in Counters
  BY TimeoutTyped DEF VerdictInv, Typed, CountersTyped
<1>2. /\ mpc = "wait" /\ samples' = [samples EXCEPT ![target] = @ + 1]
      /\ misses' = [misses EXCEPT ![target] = @ + 1]
  BY DEF PollTimeout
<1>3. mpc' \in {"check", "sleep"}
  BY <1>1, NextTyped DEF PollTimeout, Typed, PollerTyped
<1>4. PICK late \in BOOLEAN :
        /\ late => answer.got
        /\ local' = IF late THEN [local EXCEPT !.rx = Inc(@)] ELSE local
        /\ past' = IF answer.got /\ ~late THEN [past EXCEPT !.dn.lost = @ + 1] ELSE past
  BY DEF PollTimeout
<1>5. /\ past'.up = past.up /\ past'.dn.pend = past.dn.pend /\ past'.dn.since = past.dn.since
      /\ past'.dn.early = past.dn.early /\ past'.asked = past.asked /\ past'.sampled = past.sampled
      /\ past'.mixed = past.mixed /\ past'.queries = past.queries /\ past'.replies = past.replies
      /\ past'.late = past.late
      /\ past'.dn.lost = IF answer.got /\ ~late THEN past.dn.lost + 1 ELSE past.dn.lost
  BY <1>1, <1>4 DEF Typed, PastTyped, Past, Direction
<1>6. SumsMove(0, 0)
  BY <1>1, <1>2, SumsCount
<1>7. /\ OpenQuery = 0 /\ OpenQuery' = 0 /\ OpenReply = 0 /\ OpenReply' = 0
      /\ OpenFar = (IF answer.got THEN 1 ELSE 0) /\ OpenFar' = 0
  BY <1>2, <1>3 DEF OpenQuery, OpenReply, OpenFar
<1>8. UpPackets' = UpPackets /\ DnPolls' = DnPolls
  BY <1>5, <1>7 DEF UpPackets, DnPolls
<1>9. UpAccount' = UpAccount + 0
  BY <1>1, <1>5, <1>7, <1>8, AccountFacts DEF UpAccount
<1>10. 0 = 0 - 0 /\ 0 \in Int /\ 1 \in Int
  OBVIOUS
<1>11. CASE late = TRUE
  <2>1. LocalMoves(0, 1)
    BY <1>1, <1>4, <1>11, CountersMove DEF LocalMoves
  <2>2. DnPackets' = DnPackets /\ OpenFar = 1
    BY <1>4, <1>5, <1>7, <1>11 DEF DnPackets
  <2>3. DnAccount' = DnAccount - 1
    BY <1>1, <1>7, <1>8, <2>2, AccountFacts DEF DnAccount
  <2>4. AccountsMove(0, 1)
    BY <1>9, <2>3 DEF AccountsMove
  <2> QED
    BY <1>5, <1>6, <1>10, <2>1, <2>4, TimeoutRest
<1>12. CASE late = FALSE
  <2>1. LocalMoves(0, 0)
    BY <1>1, <1>4, <1>12, CountersMove DEF LocalMoves
  <2>2. DnPackets' = DnPackets + OpenFar
    <3>1. CASE answer.got
      <4>1. past.dn.lost + 1 + past.dn.early - past.dn.since = past.dn.lost + past.dn.early - past.dn.since + 1
        BY <1>1, Fields
      <4> QED
        BY <1>5, <1>7, <1>12, <3>1, <4>1 DEF DnPackets
    <3>2. CASE ~answer.got
      BY <1>1, <1>5, <1>7, <3>2, AccountFacts DEF DnPackets
    <3> QED
      BY <3>1, <3>2
  <2>3. DnAccount' = DnAccount - 0
    BY <1>1, <1>7, <1>8, <2>2, AccountFacts DEF DnAccount
  <2>4. AccountsMove(0, 0)
    BY <1>9, <2>3 DEF AccountsMove
  <2> QED
    BY <1>5, <1>6, <1>10, <2>1, <2>4, TimeoutRest
<1> QED
  BY <1>11, <1>12

LEMMA PollTimeoutKeeps == VerdictInv /\ PollTimeout => VerdictInv'
  BY TimeoutOther, TimeoutFar

-----------------------------------------------------------------------------
(* Samples of the far end keep the invariant                               *)

\* Between the last sample and the one in the answer the far end's counters have
\* gone on by less than half a turn, unless it has restarted.
LEMMA AnswerAhead ==
  ASSUME VerdictInv, mpc = "record", target = 1, remote.have_base, past.asked = past.sampled
  PROVE  ~RebootSeen
<1>1. Typed /\ Order /\ AnswerOK /\ answer.got
  BY DEF VerdictInv, Order
<1>2. /\ Cong(answer.rx, remote.last.rx + past.up.since - past.up.pend)
      /\ Cong(answer.tx, remote.last.tx + past.dn.since - past.dn.pend)
  BY <1>1 DEF AnswerOK
<1> DEFINE u == past.up.since - past.up.pend
           d == past.dn.since - past.dn.pend
<1>3. u \in Nat /\ d \in Nat /\ u < M \div 2 /\ d < M \div 2
  <2>1. /\ past.up.since \in Nat /\ past.up.pend \in Nat /\ past.dn.since \in Nat /\ past.dn.pend \in Nat
    BY <1>1, Fields
  <2>2. user <= MaxUser /\ rounds <= MaxRounds /\ user \in Nat /\ rounds \in Nat
    BY <1>1, Consts DEF Typed, PollerTyped
  <2>3. past.up.since <= user + rounds /\ past.dn.since <= user + rounds
    <3>1. past.up.since <= user + rounds - 0 /\ past.dn.since <= user + rounds - 0
      BY <1>1 DEF Order
    <3> QED
      BY <2>2, <3>1
  <2>4. past.up.pend <= past.up.since /\ past.dn.pend <= past.dn.since
    BY <1>1 DEF Order
  <2>5. MaxUser \in Nat /\ MaxRounds \in Nat /\ MaxUser + MaxRounds < M \div 2 /\ M \div 2 \in Nat
    BY Consts, Width
  <2>6. u <= past.up.since /\ d <= past.dn.since /\ u \in Nat /\ d \in Nat
    BY <2>1, <2>4
  <2>7. past.up.since < M \div 2 /\ past.dn.since < M \div 2
    BY <2>1, <2>2, <2>3, <2>5
  <2> QED
    BY <2>1, <2>5, <2>6, <2>7
<1>4. /\ remote.last.rx + past.up.since - past.up.pend = remote.last.rx + u
      /\ remote.last.tx + past.dn.since - past.dn.pend = remote.last.tx + d
  <2>1. /\ remote.last.rx \in Int /\ remote.last.tx \in Int
        /\ past.up.since \in Int /\ past.up.pend \in Int /\ past.dn.since \in Int /\ past.dn.pend \in Int
    BY <1>1, Fields
  <2> QED
    BY <2>1
<1> HIDE DEF u, d
<1>5. /\ answer.rx \in 0 .. M - 1 /\ remote.last.rx \in 0 .. M - 1
      /\ answer.tx \in 0 .. M - 1 /\ remote.last.tx \in 0 .. M - 1
  BY <1>1, Fields DEF Value, M
<1>6. answer.rx < remote.last.rx => Minus(remote.last.rx, answer.rx) >= M \div 2
  BY <1>2, <1>3, <1>4, <1>5, BehindByWrap
<1>7. answer.tx < remote.last.tx => Minus(remote.last.tx, answer.tx) >= M \div 2
  BY <1>2, <1>3, <1>4, <1>5, BehindByWrap
<1>8. /\ Minus(remote.last.rx, answer.rx) \in Int /\ Minus(remote.last.tx, answer.tx) \in Int
      /\ ModCount \div 2 \in Int
  <2>1. /\ answer.rx \in Int /\ remote.last.rx \in Int /\ answer.tx \in Int /\ remote.last.tx \in Int
    BY <1>5, Width
  <2>2. Minus(remote.last.rx, answer.rx) \in Int /\ Minus(remote.last.tx, answer.tx) \in Int
    BY <2>1, MinusFacts
  <2>3. ModCount \div 2 \in Int
    BY Width DEF M
  <2> QED
    BY <2>2, <2>3
<1> QED
  BY <1>6, <1>7, <1>8 DEF RebootSeen, M

\* The part of the invariant that does not depend on what is recorded.
LEMMA SampleRest ==
  ASSUME VerdictInv, RecordBase \/ RecordSample,
         past'.up.pend = past.up.pend, past'.up.since = past.up.pend,
         past'.dn.pend = past.dn.pend, past'.dn.since = past.dn.pend,
         past'.asked = past.asked, past'.sampled = past.asked,
         remote'.last = [tx |-> answer.tx, rx |-> answer.rx], remote'.have_base,
         remote'.reboots <= past.asked
  PROVE  Order' /\ FarOK' /\ AnswerOK'
<1>1. Typed /\ Order /\ AnswerOK
  BY DEF VerdictInv
<1>2. /\ mpc = "record" /\ target = 1 /\ answer' = answer /\ far' = far /\ user' = user /\ lives' = lives
      /\ rounds' = rounds /\ NextTarget
  BY DEF RecordBase, RecordSample
<1>3. mpc' \in {"check", "sleep"} /\ (mpc' = "check" => target' # 1)
  BY <1>1, <1>2, NextTyped DEF Typed, PollerTyped
<1>4. answer.got
  BY <1>1, <1>2 DEF Order
<1>5. Order'
  <2>1. /\ past.up.pend <= user + rounds - 0 /\ past.dn.pend <= user + rounds - 0
        /\ past.up.pend <= past.up.pend /\ past.dn.pend <= past.dn.pend
        /\ past.asked <= past.asked /\ past.asked <= lives
    <3>1. /\ past.up.pend <= past.up.since /\ past.dn.pend <= past.dn.since
          /\ past.up.since <= user + rounds - 0 /\ past.dn.since <= user + rounds - 0
          /\ past.asked <= lives
      BY <1>1, <1>2 DEF Order
    <3>2. /\ past.up.since \in Int /\ past.up.pend \in Int /\ past.dn.since \in Int /\ past.dn.pend \in Int
          /\ user \in Int /\ rounds \in Int /\ past.asked \in Int
      BY <1>1, Fields
    <3> QED
      BY <3>1, <3>2
  <2> QED
    BY <1>2, <1>3, <2>1 DEF Order
<1>6. FarOK'
  BY <1>1, <1>2, <1>4 DEF FarOK, AnswerOK
<1>7. AnswerOK'
  BY <1>3 DEF AnswerOK
<1> QED
  BY <1>5, <1>6, <1>7

\* The first sample, or the first after a restart: the accounts begin again.
LEMMA RecordBaseKeeps == VerdictInv /\ RecordBase => VerdictInv'
<1> SUFFICES ASSUME VerdictInv, RecordBase PROVE VerdictInv'
  OBVIOUS
<1>1. Typed /\ Typed' /\ Order
  BY RecordTyped DEF VerdictInv
<1>2. /\ mpc = "record" /\ target = 1 /\ misses' = misses /\ local' = local /\ local_base' = local
      /\ samples' = [samples EXCEPT ![1] = @ + 1]
      /\ remote' = [have_base |-> TRUE, base |-> [tx |-> answer.tx, rx |-> answer.rx],
                    last |-> [tx |-> answer.tx, rx |-> answer.rx],
                    reboots |-> remote.reboots + IF RebootSeen THEN 1 ELSE 0]
      /\ past' = [up |-> Anew(past.up), dn |-> Anew(past.dn), queries |-> others_q,
                  replies |-> others_r + past.late, late |-> past.late,
                  asked |-> past.asked, sampled |-> past.asked, mixed |-> FALSE]
  BY DEF RecordBase, Baseline
<1>3. /\ past'.up.lost = 0 /\ past'.up.pend = past.up.pend /\ past'.up.since = past.up.pend
      /\ past'.up.early = past.up.pend
      /\ past'.dn.lost = 0 /\ past'.dn.pend = past.dn.pend /\ past'.dn.since = past.dn.pend
      /\ past'.dn.early = past.dn.pend
      /\ past'.queries = others_q /\ past'.replies = others_r + past.late /\ past'.late = past.late
      /\ past'.asked = past.asked /\ past'.sampled = past.asked
  BY <1>2 DEF Anew
<1>4. remote'.reboots <= past.asked
  <2>1. /\ remote.reboots \in Int /\ past.sampled \in Int /\ past.asked \in Int
        /\ remote.reboots <= past.sampled /\ past.sampled <= past.asked
    BY <1>1, Fields DEF Order
  <2>2. remote'.reboots = remote.reboots + IF RebootSeen THEN 1 ELSE 0
    BY <1>2
  <2>3. CASE RebootSeen
    <3>1. past.asked # past.sampled
      BY <1>2, <2>3, AnswerAhead DEF RebootSeen
    <3> QED
      BY <2>1, <2>2, <2>3, <3>1
  <2>4. CASE ~RebootSeen
    BY <2>1, <2>2, <2>4
  <2> QED
    BY <2>3, <2>4
<1>5. Order' /\ FarOK' /\ AnswerOK'
  <2>1. remote'.last = [tx |-> answer.tx, rx |-> answer.rx] /\ remote'.have_base
    BY <1>2
  <2> QED
    BY <1>3, <1>4, <2>1, SampleRest
<1>6. AccountsOK'
  <2>1. /\ local.tx \in Int /\ local.rx \in Int /\ answer.tx \in Int /\ answer.rx \in Int
        /\ past.up.pend \in Int /\ past.dn.pend \in Int
        /\ others_q \in Int /\ others_r \in Int /\ past.late \in Int
    BY <1>1, Fields
  <2>2. others_q' = others_q /\ others_r' = others_r
    <3>1. SumsMove(0, 0)
      BY <1>1, <1>2, SumsCount
    <3> QED
      BY <2>1, <3>1 DEF SumsMove
  <2>3. OpenQuery' = 0 /\ OpenReply' = 0 /\ OpenFar' = 0
    <3>1. mpc' \in {"check", "sleep"}
      BY <1>1, NextTyped DEF RecordBase, Typed, PollerTyped
    <3> QED
      BY <3>1 DEF OpenQuery, OpenReply, OpenFar
  <2>4. UpMissing' = 0 - others_q
    <3>1. UpMissing' = local.tx - others_q - local.tx - answer.rx + answer.rx
      BY <1>2, <2>2 DEF UpMissing
    <3> QED
      BY <2>1, <3>1
  <2>5. DnMissing' = others_r
    <3>1. DnMissing' = answer.tx - answer.tx - local.rx + others_r + local.rx
      BY <1>2, <2>2 DEF DnMissing
    <3> QED
      BY <2>1, <3>1
  <2>6. UpAccount' = 0 - others_q
    <3>1. UpPackets' = 0
      BY <1>3, <2>1 DEF UpPackets
    <3> QED
      BY <1>3, <2>1, <2>3, <3>1 DEF UpAccount
  <2>7. DnAccount' = others_r
    <3>1. DnPackets' = 0
      BY <1>3, <2>1 DEF DnPackets
    <3>2. DnPolls' = others_r
      BY <1>3, <2>1, <2>3 DEF DnPolls
    <3> QED
      BY <2>1, <2>3, <3>1, <3>2 DEF DnAccount
  <2>8. 0 - others_q \in Int
    BY <2>1
  <2>9. Cong(UpMissing', UpAccount') /\ Cong(DnMissing', DnAccount')
    BY <2>1, <2>4, <2>5, <2>6, <2>7, <2>8, CongSame
  <2> QED
    BY <2>9 DEF AccountsOK
<1> QED
  BY <1>1, <1>5, <1>6 DEF VerdictInv

\* A later sample: what it counts leaves the packets since the last one.
LEMMA RecordSampleKeeps == VerdictInv /\ RecordSample => VerdictInv'
<1> SUFFICES ASSUME VerdictInv, RecordSample PROVE VerdictInv'
  OBVIOUS
<1>1. Typed /\ Typed' /\ Order /\ AnswerOK /\ AccountsOK
  BY RecordTyped DEF VerdictInv
<1>2. /\ mpc = "record" /\ target = 1 /\ misses' = misses /\ local' = local /\ local_base' = local_base
      /\ samples' = [samples EXCEPT ![1] = @ + 1] /\ remote.have_base
      /\ remote' = [remote EXCEPT !.last = [tx |-> answer.tx, rx |-> answer.rx]]
      /\ past' = [past EXCEPT !.up.since = past.up.pend, !.dn.since = past.dn.pend,
                              !.sampled = past.asked, !.mixed = @ \/ past.asked # past.sampled]
  BY DEF RecordSample
<1>3. /\ past'.up.lost = past.up.lost /\ past'.up.pend = past.up.pend /\ past'.up.since = past.up.pend
      /\ past'.up.early = past.up.early
      /\ past'.dn.lost = past.dn.lost /\ past'.dn.pend = past.dn.pend /\ past'.dn.since = past.dn.pend
      /\ past'.dn.early = past.dn.early
  BY <1>1, <1>2 DEF Typed, PastTyped, Past, Direction
<1>4. /\ past'.queries = past.queries /\ past'.replies = past.replies /\ past'.late = past.late
      /\ past'.asked = past.asked /\ past'.sampled = past.asked
      /\ past'.mixed = (past.mixed \/ past.asked # past.sampled)
  BY <1>1, <1>2 DEF Typed, PastTyped, Past
<1>5. /\ remote'.last = [tx |-> answer.tx, rx |-> answer.rx] /\ remote'.base = remote.base
      /\ remote'.have_base /\ remote'.reboots = remote.reboots
  BY <1>1, <1>2 DEF Typed, CountersTyped
<1>6. Order' /\ FarOK' /\ AnswerOK'
  <2>1. remote'.reboots <= past.asked
    <3>1. /\ remote.reboots \in Int /\ past.sampled \in Int /\ past.asked \in Int
          /\ remote.reboots <= past.sampled /\ past.sampled <= past.asked
      BY <1>1, Fields DEF Order
    <3> QED
      BY <1>5, <3>1
  <2> QED
    BY <1>3, <1>4, <1>5, <2>1, SampleRest
<1>7. ASSUME ~past'.mixed PROVE Cong(UpMissing', UpAccount') /\ Cong(DnMissing', DnAccount')
  <2>1. ~past.mixed /\ past.asked = past.sampled
    BY <1>4, <1>7
  <2>2. Cong(UpMissing, UpAccount) /\ Cong(DnMissing, DnAccount)
    BY <1>1, <1>2, <2>1 DEF AccountsOK
  <2>3. answer.got
    BY <1>1, <1>2 DEF Order
  <2> DEFINE u == remote.last.rx + past.up.since - past.up.pend
             d == remote.last.tx + past.dn.since - past.dn.pend
  <2>4. Cong(answer.rx, u) /\ Cong(answer.tx, d)
    BY <1>1, <1>2, <2>1, <2>3 DEF AnswerOK
  <2>5. /\ local.tx \in Int /\ local.rx \in Int /\ local_base.tx \in Int /\ local_base.rx \in Int
        /\ remote.last.tx \in Int /\ remote.last.rx \in Int /\ remote.base.tx \in Int /\ remote.base.rx \in Int
        /\ answer.tx \in Int /\ answer.rx \in Int
    BY <1>1, Fields
  <2>6. /\ past.up.lost \in Int /\ past.up.pend \in Int /\ past.up.since \in Int /\ past.up.early \in Int
        /\ past.dn.lost \in Int /\ past.dn.pend \in Int /\ past.dn.since \in Int /\ past.dn.early \in Int
    BY <1>1, Fields
  <2>7. others_q' = others_q /\ others_r' = others_r /\ others_q \in Int /\ others_r \in Int
    <3>1. SumsMove(0, 0) /\ others_q \in Int /\ others_r \in Int
      BY <1>1, <1>2, SumsCount, AccountFacts
    <3> QED
      BY <3>1 DEF SumsMove
  <2>8. OpenQuery' = OpenQuery /\ OpenReply' = OpenReply /\ OpenFar' = OpenFar
    <3>1. mpc' \in {"check", "sleep"}
      BY <1>1, NextTyped DEF RecordSample, Typed, PollerTyped
    <3> QED
      BY <1>2, <3>1 DEF OpenQuery, OpenReply, OpenFar
  <2>9. UpMissing' = UpMissing - (answer.rx - remote.last.rx)
    <3>1. UpMissing' = local.tx - others_q - local_base.tx - answer.rx + remote.base.rx
      BY <1>2, <1>5, <2>7 DEF UpMissing
    <3> QED
      BY <2>5, <2>7, <3>1 DEF UpMissing
  <2>10. DnMissing' = DnMissing + (answer.tx - remote.last.tx)
    <3>1. DnMissing' = answer.tx - remote.base.tx - local.rx + others_r + local_base.rx
      BY <1>2, <1>5, <2>7 DEF DnMissing
    <3> QED
      BY <2>5, <2>7, <3>1 DEF DnMissing
  <2>11. UpAccount' = UpAccount - (past.up.since - past.up.pend)
    <3>1. UpPackets' = past.up.lost + past.up.pend - past.up.early
      BY <1>3 DEF UpPackets
    <3>2. UpPackets' = UpPackets - (past.up.since - past.up.pend)
      BY <2>6, <3>1 DEF UpPackets
    <3> QED
      BY <1>1, <1>4, <2>6, <2>8, <3>2, AccountFacts DEF UpAccount
  <2>12. DnAccount' = DnAccount + (past.dn.since - past.dn.pend)
    <3>1. DnPackets' = past.dn.lost + past.dn.early - past.dn.pend
      BY <1>3 DEF DnPackets
    <3>2. DnPackets' = DnPackets + (past.dn.since - past.dn.pend)
      BY <2>6, <3>1 DEF DnPackets
    <3>3. DnPolls' = DnPolls
      BY <1>4, <2>8 DEF DnPolls
    <3> QED
      BY <1>1, <2>6, <2>8, <3>2, <3>3, AccountFacts DEF DnAccount
  <2>13. UpMissing \in Int /\ DnMissing \in Int /\ UpAccount \in Int /\ DnAccount \in Int
    BY <1>1, SumsInt
  <2>14. /\ u \in Int /\ d \in Int
         /\ UpMissing' \in Int /\ DnMissing' \in Int /\ UpAccount' \in Int /\ DnAccount' \in Int
    BY <2>5, <2>6, <2>9, <2>10, <2>11, <2>12, <2>13
  <2>15. /\ UpMissing' - UpAccount' = (UpMissing - UpAccount) + (u - answer.rx)
         /\ DnMissing' - DnAccount' = (DnMissing - DnAccount) + (answer.tx - d)
    BY <2>5, <2>6, <2>9, <2>10, <2>11, <2>12, <2>13
  <2> HIDE DEF u, d
  <2>16. Cong(u, answer.rx)
    BY <2>4, <2>5, <2>14, CongSym
  <2>17. Cong(UpMissing', UpAccount')
    <3>1. /\ UpMissing \in Int /\ UpAccount \in Int /\ UpMissing' \in Int /\ UpAccount' \in Int
          /\ u \in Int /\ answer.rx \in Int
      BY <2>5, <2>13, <2>14
    <3>2. /\ UpMissing' - UpAccount' = (UpMissing - UpAccount) + (u - answer.rx)
          /\ Cong(UpMissing, UpAccount)
      BY <2>2, <2>15
    <3> QED
      BY <2>16, <3>1, <3>2, CongSum
  <2>18. Cong(DnMissing', DnAccount')
    <3>1. /\ DnMissing \in Int /\ DnAccount \in Int /\ DnMissing' \in Int /\ DnAccount' \in Int
          /\ d \in Int /\ answer.tx \in Int
      BY <2>5, <2>13, <2>14
    <3>2. /\ DnMissing' - DnAccount' = (DnMissing - DnAccount) + (answer.tx - d)
          /\ Cong(DnMissing, DnAccount) /\ Cong(answer.tx, d)
      BY <2>2, <2>4, <2>15
    <3> QED
      BY <3>1, <3>2, CongSum
  <2> QED
    BY <2>17, <2>18
<1> QED
  BY <1>1, <1>6, <1>7 DEF VerdictInv, AccountsOK

-----------------------------------------------------------------------------
(* The theorems                                                            *)

LEMMA InvInit == VerdictInit => VerdictInv
<1> SUFFICES ASSUME VerdictInit PROVE VerdictInv
  OBVIOUS
<1>1. Typed
  BY TypedInit
<1>2. past = NoPast /\ user = 0 /\ rounds = 0 /\ mpc = "off" /\ ~remote.have_base /\ remote.reboots = 0 /\ lives = 0
  BY DEF VerdictInit
<1>3. Order
  BY <1>2 DEF Order, NoPast, NoDirection
<1>4. FarOK /\ AnswerOK /\ AccountsOK
  BY <1>2 DEF FarOK, AnswerOK, AccountsOK
<1> QED
  BY <1>1, <1>3, <1>4 DEF VerdictInv

LEMMA InvNext == VerdictInv /\ [VerdictNext]_verdictVars => VerdictInv'
  BY UserUpKeeps, UserDownKeeps, FarRestartsKeeps, PollerStartKeeps, PollAskKeeps, PollReplyKeeps,
     PollTimeoutKeeps, RecordOtherKeeps, RecordBaseKeeps, RecordSampleKeeps, IdleKeeps
  DEF VerdictNext, mon_poller

\* The inductive invariant: the two accounts up to whole turns of the counters, and
\* where the far end's counters are between two samples (mon_poller, mon_print_verdict).
THEOREM VerdictInvariance == VerdictSpec => []VerdictInv
  BY InvInit, InvNext, PTL DEF VerdictSpec

\* The poller's state keeps its types: the target it asks, the counters it records
\* and the counts of samples and misses (mon_remote_t).
THEOREM VerdictTypeCorrect == VerdictSpec => []VerdictTypeOK
<1>1. VerdictInv => VerdictTypeOK
  BY DEF VerdictInv, Typed, PollerTyped, SamplesTyped, CountersTyped, VerdictTypeOK, Counters, Value
<1> QED
  BY <1>1, VerdictInvariance, PTL

\* The poller never says that the far end restarted when it did not: a counter that
\* wraps is behind by more than half a turn (mon_counters_rebooted).
THEOREM RestartsAreReal == VerdictSpec => []NoFalseReboot
<1>1. VerdictInv => NoFalseReboot
  <2> SUFFICES ASSUME VerdictInv PROVE remote.reboots <= lives
    BY DEF NoFalseReboot
  <2>1. Typed /\ Order
    BY DEF VerdictInv
  <2>2. remote.reboots <= past.sampled /\ past.sampled <= past.asked /\ past.asked <= lives
    BY <2>1 DEF Order
  <2>3. remote.reboots \in Int /\ past.sampled \in Int /\ past.asked \in Int /\ lives \in Int
    BY <2>1, Fields
  <2> QED
    BY <2>2, <2>3
<1> QED
  BY <1>1, VerdictInvariance, PTL

\* The off and del of the verdict differ by what the counters do, up to whole turns.
LEMMA UpDiffers ==
  ASSUME Typed
  PROVE  Minus(up_off, up_del) = UpMissing % M
<1>1. /\ local.tx \in Int /\ others_q \in Int /\ local_base.tx \in Int
      /\ remote.last.rx \in Int /\ remote.base.rx \in Int
  BY Fields
<1> DEFINE p == Minus(local.tx, others_q)
           q == Minus(p, local_base.tx)
           v == Minus(remote.last.rx, remote.base.rx)
<1>2. p \in Int /\ Cong(p, local.tx - others_q)
  BY <1>1, MinusFacts
<1>3. q \in Int /\ Cong(q, p - local_base.tx)
  BY <1>1, <1>2, MinusFacts
<1>4. v \in Int /\ Cong(v, remote.last.rx - remote.base.rx)
  BY <1>1, MinusFacts
<1> HIDE DEF p, q, v
<1>5. Cong(q, local.tx - others_q - local_base.tx)
  <2>1. /\ local.tx - others_q \in Int /\ p - local_base.tx \in Int
        /\ local.tx - others_q - local_base.tx \in Int
    BY <1>1, <1>2
  <2>2. Cong(local_base.tx, local_base.tx)
    BY <1>1, CongSame
  <2>3. Cong(p - local_base.tx, local.tx - others_q - local_base.tx)
    BY <1>1, <1>2, <2>1, <2>2, CongSub
  <2> QED
    BY <1>3, <2>1, <2>3, CongTrans
<1>6. Cong(q - v, UpMissing)
  <2>1. /\ local.tx - others_q - local_base.tx \in Int /\ remote.last.rx - remote.base.rx \in Int
        /\ (local.tx - others_q - local_base.tx) - (remote.last.rx - remote.base.rx) = UpMissing
    BY <1>1 DEF UpMissing
  <2>2. Cong(q - v, (local.tx - others_q - local_base.tx) - (remote.last.rx - remote.base.rx))
    BY <1>3, <1>4, <1>5, <2>1, CongSub
  <2> QED
    BY <2>1, <2>2
<1>7. (q - v) % M = UpMissing % M
  BY <1>3, <1>4, <1>6, SumsInt, CongMod
<1> QED
  BY <1>7 DEF p, q, v, up_off, up_del, Minus, M

LEMMA DnDiffers ==
  ASSUME Typed
  PROVE  Minus(dn_off, dn_del) = DnMissing % M
<1>1. /\ local.rx \in Int /\ others_r \in Int /\ local_base.rx \in Int
      /\ remote.last.tx \in Int /\ remote.base.tx \in Int
  BY Fields
<1> DEFINE p == Minus(local.rx, others_r)
           q == Minus(p, local_base.rx)
           v == Minus(remote.last.tx, remote.base.tx)
<1>2. p \in Int /\ Cong(p, local.rx - others_r)
  BY <1>1, MinusFacts
<1>3. q \in Int /\ Cong(q, p - local_base.rx)
  BY <1>1, <1>2, MinusFacts
<1>4. v \in Int /\ Cong(v, remote.last.tx - remote.base.tx)
  BY <1>1, MinusFacts
<1> HIDE DEF p, q, v
<1>5. Cong(q, local.rx - others_r - local_base.rx)
  <2>1. /\ local.rx - others_r \in Int /\ p - local_base.rx \in Int
        /\ local.rx - others_r - local_base.rx \in Int
    BY <1>1, <1>2
  <2>2. Cong(local_base.rx, local_base.rx)
    BY <1>1, CongSame
  <2>3. Cong(p - local_base.rx, local.rx - others_r - local_base.rx)
    BY <1>1, <1>2, <2>1, <2>2, CongSub
  <2> QED
    BY <1>3, <2>1, <2>3, CongTrans
<1>6. Cong(v - q, DnMissing)
  <2>1. /\ local.rx - others_r - local_base.rx \in Int /\ remote.last.tx - remote.base.tx \in Int
        /\ (remote.last.tx - remote.base.tx) - (local.rx - others_r - local_base.rx) = DnMissing
    BY <1>1 DEF DnMissing
  <2>2. Cong(v - q, (remote.last.tx - remote.base.tx) - (local.rx - others_r - local_base.rx))
    BY <1>3, <1>4, <1>5, <2>1, CongSub
  <2> QED
    BY <2>1, <2>2
<1>7. (v - q) % M = DnMissing % M
  BY <1>3, <1>4, <1>6, SumsInt, CongMod
<1> QED
  BY <1>7 DEF p, q, v, dn_off, dn_del, Minus, M

\* What mon_print_verdict finds missing in a direction is what the accounts of that
\* direction explain, for any width of the counters and any number of targets.
THEOREM VerdictIsAccounted == VerdictSpec => []VerdictAccounts
<1>1. VerdictInv => VerdictAccounts
  <2> SUFFICES ASSUME VerdictInv, remote.have_base, ~past.mixed
               PROVE  /\ Minus(up_off, up_del) =
                           (past.up.lost + past.up.since - past.up.early + OpenQuery - past.queries) % ModCount
                      /\ Minus(dn_off, dn_del) =
                           (past.dn.lost + OpenFar + past.dn.early - past.dn.since
                              - OpenReply - past.late + past.replies) % ModCount
    BY DEF VerdictAccounts
  <2>1. Typed /\ Cong(UpMissing, UpAccount) /\ Cong(DnMissing, DnAccount)
    BY DEF VerdictInv, AccountsOK
  <2>2. UpMissing % M = UpAccount % M /\ DnMissing % M = DnAccount % M
    BY <2>1, SumsInt, CongMod
  <2>3. /\ past.up.lost \in Int /\ past.up.since \in Int /\ past.up.early \in Int
        /\ past.dn.lost \in Int /\ past.dn.since \in Int /\ past.dn.early \in Int
    BY <2>1, Fields
  <2>4. past.up.lost + past.up.since - past.up.early + OpenQuery - past.queries = UpAccount
    BY <2>1, <2>3, AccountFacts DEF UpAccount, UpPackets
  <2>5. past.dn.lost + OpenFar + past.dn.early - past.dn.since - OpenReply - past.late + past.replies = DnAccount
    <3>1. /\ OpenFar \in Int /\ OpenReply \in Int /\ past.late \in Int /\ past.replies \in Int
      BY <2>1, AccountFacts
    <3>2. past.dn.lost + OpenFar + past.dn.early - past.dn.since - OpenReply - past.late + past.replies
            = (past.dn.lost + past.dn.early - past.dn.since) + (OpenFar + (past.replies - past.late - OpenReply))
      BY <2>3, <3>1
    <3> QED
      BY <3>2 DEF DnAccount, DnPackets, DnPolls
  <2> QED
    BY <2>1, <2>2, <2>4, <2>5, UpDiffers, DnDiffers DEF M
<1> QED
  BY <1>1, VerdictInvariance, PTL
=============================================================================

---------------------------- MODULE MonitorProofs ---------------------------
(***************************************************************************)
(* Proofs about Monitor and the tracker it feeds, for any sequence space,  *)
(* any width of the bitmap and of the counters, any capacities and any     *)
(* bounds that MonitorAssumption allows.                                   *)
(***************************************************************************)
EXTENDS Monitor, FiniteSetTheorems, SequenceTheorems, TLAPS

-----------------------------------------------------------------------------
(* The inductive invariant                                                 *)

\* x and y leave the same remainder.
Cong(x, y, m) == (x - y) % m = 0

Trackers == [have : BOOLEAN, first : Int, max : Int, n_seen : Nat, n_distinct : Nat,
             n_dup : Nat, n_reorder : Nat, seen : SUBSET (0 .. Win - 1)]

Clones == [pkt : Nat \cup {Noise}, after : Nat]

Types ==
  /\ TypeOK
  /\ queue \in Seq(Clones)
  /\ mon_seq \in Trackers
  /\ heard \in SUBSET Nat
  /\ origin \in Nat

\* Where the shell thread may be while the drainer runs.
Control ==
  /\ mon_running => cmd = "idle"
  /\ cmd \in {"start", "drain"} => pc = "off"
  /\ cmd = "idle" /\ ~mon_running => pc = "off"

\* Until a start command fails, what is queued was cloned after the last start,
\* and promiscuous mode is off when no drainer is there or coming.
Fresh ==
  ~failed =>
    /\ ~stale
    /\ cmd = "idle" /\ ~mon_running => queue = <<>>
    /\ cmd = "drain" \/ (cmd = "idle" /\ ~mon_running) => ~promisc
    /\ \A i \in 1 .. Len(queue) : queue[i].after = starts

\* What the rows still owe is what the two counters have advanced by, and whole turns
\* of a counter.
Counted ==
  Compared =>
    \E k \in Nat : owed = ci_u8_delta(prev_ovf, conn_ovf) + ci_u8_delta(prev_bout, buffer_out)
                          + k * CounterMod

\* The tracker t stands for the set h of packets, packet q at position q + o: its
\* counts are those of h, max is the position of the newest, and the bitmap says
\* of each of the last Win positions whether it is one of h.
Represents(t, h, o) ==
  /\ t.have
  /\ IsFiniteSet(h)
  /\ t.n_distinct = Cardinality(h)
  /\ t.n_seen = t.n_distinct + t.n_dup
  /\ t.max - o \in h
  /\ \A q \in h : q + o <= t.max
  /\ \A x \in t.max - Win + 1 .. t.max : Bit(x) \in t.seen <=> x - o \in h

Tracked ==
  /\ heard = {} => mon_seq = ci_seq_tracker_init
  /\ heard # {} /\ ~astray =>
       /\ origin \in heard
       /\ Cong(mon_seq.first - origin, isn, SeqSpace)
       /\ Represents(mon_seq, heard, mon_seq.first - origin)

Inv ==
  /\ Types
  /\ Control
  /\ Fresh
  /\ Counted
  /\ InstrumentLossIsFlagged
  /\ Tracked
-----------------------------------------------------------------------------
(* Remainders                                                              *)

LEMMA Sizes ==
  /\ Half \in Nat \ {0} /\ Win \in Nat \ {0} /\ CounterMod \in Nat \ {0}
  /\ SeqSpace \in Nat \ {0} /\ SeqSpace = Half + Half
  /\ Reach \in Nat /\ MaxSkip \in Nat /\ MaxPackets \in Nat
  BY SeqAssumption, MonitorAssumption DEF SeqSpace

\* Quotient and remainder of an integer.
LEMMA DivMod ==
  ASSUME NEW a \in Int, NEW d \in Nat \ {0}
  PROVE  a \div d \in Int /\ a % d \in 0 .. d - 1 /\ a = d * (a \div d) + (a % d)
<1>1. a \div d \in Int
  OBVIOUS
<1>2. a % d \in 0 .. d - 1
  OBVIOUS
<1>3. a = d * (a \div d) + (a % d)
  OBVIOUS
<1> QED
  BY <1>1, <1>2, <1>3

\* Numbers of one turn that differ by whole turns are equal.
LEMMA SameTurn ==
  ASSUME NEW m \in Nat \ {0}, NEW x \in 0 .. m - 1, NEW y \in 0 .. m - 1, NEW k \in Int,
         x = y + k * m
  PROVE  x = y
<1>1. CASE k >= 1
  <2>1. k * m >= m
    BY <1>1
  <2> QED
    BY <2>1
<1>2. CASE k <= -1
  <2>1. k * m <= -m
    BY <1>2
  <2> QED
    BY <2>1
<1>3. CASE k = 0
  BY <1>3
<1> QED
  BY <1>1, <1>2, <1>3

\* A number that is whole turns away from a remainder has that remainder.
LEMMA ModUnique ==
  ASSUME NEW m \in Nat \ {0}, NEW x \in Int, NEW r \in 0 .. m - 1, NEW k \in Int,
         x = r + k * m
  PROVE  x % m = r
<1> DEFINE s == x % m
           j == x \div m
<1>1. s \in 0 .. m - 1 /\ j \in Int /\ x = m * j + s
  BY DivMod
<1> HIDE DEF s, j
<1>2. j - k \in Int /\ r = s + (j - k) * m
  BY <1>1
<1>3. r = s
  BY <1>1, <1>2, SameTurn
<1> QED
  BY <1>3 DEF s

\* Cong is a difference of whole turns.
LEMMA CongWitness ==
  ASSUME NEW m \in Nat \ {0}, NEW x \in Int, NEW y \in Int, NEW k \in Int, x = y + k * m
  PROVE  Cong(x, y, m)
<1>1. x - y \in Int /\ 0 \in 0 .. m - 1 /\ x - y = 0 + k * m
  OBVIOUS
<1> QED
  BY <1>1, ModUnique DEF Cong

LEMMA CongTurns ==
  ASSUME NEW m \in Nat \ {0}, NEW x \in Int, NEW y \in Int
  PROVE  Cong(x, y, m) <=> \E k \in Int : x = y + k * m
<1>1. ASSUME Cong(x, y, m) PROVE \E k \in Int : x = y + k * m
  <2> DEFINE j == (x - y) \div m
  <2>1. x - y \in Int
    OBVIOUS
  <2>2. j \in Int /\ x - y = m * j + 0
    BY <1>1, <2>1, DivMod DEF Cong
  <2> HIDE DEF j
  <2>3. x = y + j * m
    BY <2>2
  <2> QED
    BY <2>2, <2>3
<1> QED
  BY <1>1, CongWitness

LEMMA CongSame ==
  ASSUME NEW m \in Nat \ {0}, NEW x \in Int
  PROVE  Cong(x, x, m)
<1>1. 0 \in Int /\ x = x + 0 * m
  OBVIOUS
<1> QED
  BY <1>1, CongTurns

LEMMA CongAdd ==
  ASSUME NEW m \in Nat \ {0}, NEW x \in Int, NEW y \in Int, NEW v \in Int, NEW w \in Int,
         Cong(x, y, m), Cong(v, w, m)
  PROVE  Cong(x + v, y + w, m)
<1>1. PICK k \in Int : x = y + k * m
  BY CongTurns
<1>2. PICK j \in Int : v = w + j * m
  BY CongTurns
<1>3. k + j \in Int /\ x + v = (y + w) + (k + j) * m
  BY <1>1, <1>2
<1>4. x + v \in Int /\ y + w \in Int
  OBVIOUS
<1> QED
  BY <1>3, <1>4, CongWitness

LEMMA CongSub ==
  ASSUME NEW m \in Nat \ {0}, NEW x \in Int, NEW y \in Int, NEW v \in Int, NEW w \in Int,
         Cong(x, y, m), Cong(v, w, m)
  PROVE  Cong(x - v, y - w, m)
<1>1. PICK k \in Int : x = y + k * m
  BY CongTurns
<1>2. PICK j \in Int : v = w + j * m
  BY CongTurns
<1>3. k - j \in Int /\ x - v = (y - w) + (k - j) * m
  BY <1>1, <1>2
<1>4. x - v \in Int /\ y - w \in Int
  OBVIOUS
<1> QED
  BY <1>3, <1>4, CongWitness

LEMMA CongSym ==
  ASSUME NEW m \in Nat \ {0}, NEW x \in Int, NEW y \in Int, Cong(x, y, m)
  PROVE  Cong(y, x, m)
<1>1. PICK k \in Int : x = y + k * m
  BY CongTurns
<1>2. -k \in Int /\ y = x + (-k) * m
  BY <1>1
<1> QED
  BY <1>2, CongTurns

\* A remainder is congruent to its number, and equal for congruent numbers.
LEMMA ModCong ==
  ASSUME NEW m \in Nat \ {0}, NEW x \in Int
  PROVE  x % m \in 0 .. m - 1 /\ x % m \in Int /\ Cong(x % m, x, m) /\ Cong(x, x % m, m)
<1> DEFINE r == x % m
           j == x \div m
<1>1. r \in 0 .. m - 1 /\ j \in Int /\ x = m * j + r
  BY DivMod
<1> HIDE DEF r, j
<1>2. r \in Int /\ x = r + j * m
  BY <1>1
<1>3. Cong(x, r, m)
  BY <1>1, <1>2, CongTurns
<1>4. Cong(r, x, m)
  BY <1>2, <1>3, CongSym
<1> QED
  BY <1>1, <1>2, <1>3, <1>4 DEF r

LEMMA CongMod ==
  ASSUME NEW m \in Nat \ {0}, NEW x \in Int, NEW y \in Int, Cong(x, y, m)
  PROVE  x % m = y % m
<1>1. PICK k \in Int : x = y + k * m
  BY CongTurns
<1> DEFINE r == y % m
           j == y \div m
<1>2. r \in 0 .. m - 1 /\ j \in Int /\ y = m * j + r
  BY DivMod
<1> HIDE DEF r, j
<1>3. j + k \in Int /\ x = r + (j + k) * m
  BY <1>1, <1>2
<1>4. x % m = r
  BY <1>2, <1>3, ModUnique
<1> QED
  BY <1>4 DEF r

\* Congruent numbers less than one turn apart are equal.
LEMMA CongNear ==
  ASSUME NEW m \in Nat \ {0}, NEW x \in Int, NEW y \in Int, Cong(x, y, m),
         x - y < m, y - x < m
  PROVE  x = y
<1>1. PICK k \in Int : x = y + k * m
  BY CongTurns
<1>2. CASE k >= 1
  <2>1. k * m >= m
    BY <1>2
  <2> QED
    BY <1>1, <2>1
<1>3. CASE k <= -1
  <2>1. k * m <= -m
    BY <1>3
  <2> QED
    BY <1>1, <2>1
<1>4. CASE k = 0
  BY <1>1, <1>4
<1> QED
  BY <1>2, <1>3, <1>4

LEMMA CongTrans ==
  ASSUME NEW m \in Nat \ {0}, NEW x \in Int, NEW y \in Int, NEW z \in Int,
         Cong(x, y, m), Cong(y, z, m)
  PROVE  Cong(x, z, m)
<1>1. PICK k \in Int : x = y + k * m
  BY CongTurns
<1>2. PICK j \in Int : y = z + j * m
  BY CongTurns
<1>3. k + j \in Int /\ x = z + (k + j) * m
  BY <1>1, <1>2
<1> QED
  BY <1>3, CongWitness

-----------------------------------------------------------------------------
(* The tracker                                                             *)

LEMMA BitType ==
  ASSUME NEW x \in Int
  PROVE  Bit(x) \in 0 .. Win - 1
  BY Sizes, ModCong DEF Bit

\* Positions of one window have bits of their own.
LEMMA BitsApart ==
  ASSUME NEW x \in Int, NEW y \in Int, x # y, x - y < Win, y - x < Win
  PROVE  Bit(x) # Bit(y)
<1> SUFFICES ASSUME Bit(x) = Bit(y) PROVE FALSE
  OBVIOUS
<1> DEFINE r == x % Win
<1>1. Cong(x, r, Win) /\ Cong(r, y, Win) /\ r \in Int
  BY Sizes, ModCong DEF Bit
<1> HIDE DEF r
<1>2. Cong(x, y, Win)
  BY <1>1, Sizes, CongTrans
<1> QED
  BY <1>2, Sizes, CongNear

\* The unwrapping: a sequence number not half the space ahead of the highest position
\* and no more than half behind it is put at its distance.
LEMMA DistanceFacts ==
  ASSUME NEW t, t.max \in Int, NEW seq \in Int, NEW d \in Int,
         Cong(seq - t.max, d, SeqSpace), d \in -Half .. Half - 1
  PROVE  Distance(t, seq) = d
<1> DEFINE e == (seq - t.max) % SeqSpace
<1>1. seq - t.max \in Int
  OBVIOUS
<1>2. e = d % SeqSpace
  BY <1>1, Sizes, CongMod
<1>3. CASE d >= 0
  <2>1. d \in 0 .. SeqSpace - 1 /\ 0 \in Int /\ d = d + 0 * SeqSpace
    BY <1>3, Sizes
  <2>2. d % SeqSpace = d
    BY <2>1, Sizes, ModUnique
  <2>3. d < Half
    BY Sizes
  <2> HIDE DEF e
  <2>4. Distance(t, seq) = IF e < Half THEN e ELSE e - SeqSpace
    BY DEF Distance, e
  <2> QED
    BY <1>2, <2>2, <2>3, <2>4
<1>4. CASE d < 0
  <2> DEFINE r == d + SeqSpace
  <2>1. r \in 0 .. SeqSpace - 1 /\ -1 \in Int /\ d = r + (-1) * SeqSpace /\ ~(r < Half)
    BY <1>4, Sizes
  <2>2. r - SeqSpace = d
    BY Sizes
  <2> HIDE DEF r
  <2>3. d % SeqSpace = r
    BY <2>1, Sizes, ModUnique
  <2> QED
    BY <1>2, <2>1, <2>2, <2>3 DEF Distance
<1> QED
  BY <1>3, <1>4

\* The first packet.
LEMMA FirstRepresents ==
  ASSUME NEW p \in Nat, NEW seq \in Int
  PROVE  LET t == ci_seq_tracker_feed(ci_seq_tracker_init, seq)
         IN  t \in Trackers /\ t.first = seq /\ Represents(t, {p}, seq - p)
<1> DEFINE t == ci_seq_tracker_feed(ci_seq_tracker_init, seq)
<1> DEFINE i == ci_seq_tracker_init
<1>0. i \in Trackers /\ ~i.have /\ i.n_seen = 0 /\ i.n_dup = 0 /\ i.n_reorder = 0 /\ i.seen = {}
  BY DEF ci_seq_tracker_init, Trackers
<1> HIDE DEF i
<1> DEFINE v == [i EXCEPT !.n_seen = @ + 1]
<1>1. t = FeedFirst(v, seq)
  BY <1>0 DEF ci_seq_tracker_feed, i
<1>2. v \in Trackers /\ v.n_seen = 1 /\ v.n_dup = 0 /\ v.seen \cup {Bit(seq)} = {Bit(seq)}
  BY <1>0 DEF Trackers
<1> HIDE DEF t, v
<1>3. t = [v EXCEPT !.have = TRUE, !.first = seq, !.max = seq, !.n_distinct = 1,
                    !.seen = {Bit(seq)}]
  BY <1>1, <1>2 DEF FeedFirst
<1>4. /\ t.have = TRUE /\ t.first = seq /\ t.max = seq /\ t.n_seen = 1 /\ t.n_distinct = 1
      /\ t.n_dup = 0 /\ t.seen = {Bit(seq)}
  BY <1>2, <1>3 DEF Trackers
<1>5. t \in Trackers /\ t.first = seq
  <2>1. {Bit(seq)} \in SUBSET (0 .. Win - 1)
    BY BitType
  <2> QED
    BY <1>2, <1>3, <1>4, <2>1 DEF Trackers
<1>6. IsFiniteSet({p}) /\ Cardinality({p}) = 1
  BY FS_Singleton
<1>7. t.max - (seq - p) \in {p} /\ \A q \in {p} : q + (seq - p) <= t.max
  BY <1>4
<1>8. ASSUME NEW x \in t.max - Win + 1 .. t.max
      PROVE  Bit(x) \in t.seen <=> x - (seq - p) \in {p}
  <2>1. x \in Int /\ x <= seq /\ seq - x < Win
    BY <1>4, Sizes
  <2>2. CASE x = seq
    BY <1>4, <2>2
  <2>3. CASE x # seq
    <3>1. Bit(x) # Bit(seq)
      BY <2>1, <2>3, Sizes, BitsApart
    <3> QED
      BY <1>4, <2>1, <2>3, <3>1
  <2> QED
    BY <2>2, <2>3
<1> QED
  BY <1>4, <1>5, <1>6, <1>7, <1>8 DEF Represents, t

\* A packet ahead of all others.
LEMMA ForwardRepresents ==
  ASSUME NEW t \in Trackers, NEW h \in SUBSET Nat, NEW o \in Int, NEW p \in Nat,
         NEW seq \in Int, Represents(t, h, o), Distance(t, seq) = (p + o) - t.max,
         p + o > t.max
  PROVE  LET u == ci_seq_tracker_feed(t, seq)
         IN  u \in Trackers /\ u.first = t.first /\ Represents(u, h \cup {p}, o)
<1> DEFINE u   == ci_seq_tracker_feed(t, seq)
           pos == p + o
           old == t.max
<1>1. /\ old \in Int /\ pos \in Int /\ t.first \in Int /\ t.n_seen \in Nat
      /\ t.n_distinct \in Nat /\ t.n_dup \in Nat /\ t.n_reorder \in Nat
      /\ t.seen \in SUBSET (0 .. Win - 1) /\ t.have \in BOOLEAN
  BY DEF Trackers
<1>2. t.have /\ Distance(t, seq) > 0 /\ t.max + Distance(t, seq) = pos
  BY <1>1 DEF Represents
<1>3. u = FeedForward([t EXCEPT !.n_seen = @ + 1], pos)
  BY <1>2 DEF ci_seq_tracker_feed
<1>4. /\ u.have = t.have /\ u.first = t.first /\ u.n_dup = t.n_dup
      /\ u.n_reorder = t.n_reorder
      /\ u.max = pos
      /\ u.n_seen = t.n_seen + 1
      /\ u.n_distinct = t.n_distinct + 1
      /\ u.seen = (t.seen \ Exposed(t.max, pos)) \cup {Bit(pos)}
  BY <1>3 DEF FeedForward, Trackers
<1>5. u \in [have : BOOLEAN, first : Int, max : Int, n_seen : Nat, n_distinct : Nat,
             n_dup : Nat, n_reorder : Nat, seen : SUBSET (0 .. Win - 1)]
  <2>1. u.seen \in SUBSET (0 .. Win - 1)
    BY <1>1, <1>4, BitType
  <2>2. t.n_seen + 1 \in Nat /\ t.n_distinct + 1 \in Nat
    BY <1>1
  <2>3. u = [t EXCEPT !.n_seen = t.n_seen + 1, !.seen = u.seen, !.max = pos,
                      !.n_distinct = t.n_distinct + 1]
    BY <1>3, <1>4 DEF FeedForward, Trackers
  <2> QED
    BY <1>1, <2>1, <2>2, <2>3 DEF Trackers
<1> HIDE DEF u, pos, old
<1>6. p \notin h /\ pos > old /\ p = pos - o
  BY <1>1 DEF Represents, pos, old
<1>7. IsFiniteSet(h \cup {p}) /\ Cardinality(h \cup {p}) = Cardinality(h) + 1
  BY <1>6, FS_AddElement DEF Represents
<1>8. \A q \in h \cup {p} : q + o <= u.max
  BY <1>1, <1>4, <1>6 DEF Represents, pos, old
<1>9. ASSUME NEW x \in u.max - Win + 1 .. u.max
      PROVE  Bit(x) \in u.seen <=> x - o \in h \cup {p}
  <2>1. x \in Int /\ x <= pos /\ pos - x < Win
    BY <1>1, <1>4, Sizes
  <2>2. CASE x = pos
    BY <1>4, <1>6, <2>2
  <2>3. CASE x < pos
    <3>1. Bit(x) # Bit(pos) /\ x - o # p
      BY <1>1, <1>6, <2>1, <2>3, Sizes, BitsApart
    <3>2. CASE x > old
      <4>1. x - o \notin h
        BY <1>1, <2>1, <3>2 DEF Represents, old
      <4>2. Bit(x) \in Exposed(old, pos)
        BY <1>1, <2>1, <2>3, <3>2, Sizes DEF Exposed
      <4> QED
        BY <1>4, <3>1, <4>1, <4>2 DEF old
    <3>3. CASE x <= old
      <4>1. x \in t.max - Win + 1 .. t.max
        BY <1>1, <1>6, <2>1, <3>3, Sizes DEF old
      <4>2. Bit(x) \in t.seen <=> x - o \in h
        BY <4>1 DEF Represents
      <4>3. Bit(x) \notin Exposed(old, pos)
        <5> DEFINE from == IF pos - old > Win THEN pos - Win ELSE old + 1
        <5>1. \A y \in from .. pos - 1 : y \in Int /\ x # y /\ x - y < Win /\ y - x < Win
          BY <1>1, <1>6, <2>1, <3>3, Sizes
        <5>2. \A y \in from .. pos - 1 : Bit(x) # Bit(y)
          BY <2>1, <5>1, BitsApart
        <5> QED
          BY <5>2 DEF Exposed
      <4> QED
        BY <1>4, <3>1, <4>2, <4>3 DEF old
    <3> QED
      BY <1>1, <2>1, <3>2, <3>3
  <2> QED
    BY <1>1, <2>1, <2>2, <2>3
<1>10. u.n_seen = u.n_distinct + u.n_dup /\ u.n_distinct = Cardinality(h \cup {p}) /\ u.have
  BY <1>1, <1>2, <1>4, <1>7 DEF Represents
<1>11. u.max - o \in h \cup {p}
  BY <1>4, <1>6
<1>12. Represents(u, h \cup {p}, o)
  BY <1>7, <1>8, <1>9, <1>10, <1>11 DEF Represents
<1> QED
  BY <1>4, <1>5, <1>12 DEF u, Trackers

\* A packet at or behind the newest, within the bitmap's window.
LEMMA BehindRepresents ==
  ASSUME NEW t \in Trackers, NEW h \in SUBSET Nat, NEW o \in Int, NEW p \in Nat,
         NEW seq \in Int, Represents(t, h, o), Distance(t, seq) = (p + o) - t.max,
         p + o <= t.max, t.max - (p + o) < Win
  PROVE  LET u == ci_seq_tracker_feed(t, seq)
         IN  u \in Trackers /\ u.first = t.first /\ Represents(u, h \cup {p}, o)
<1> DEFINE u   == ci_seq_tracker_feed(t, seq)
           pos == p + o
           v   == [t EXCEPT !.n_seen = @ + 1]
<1>1. /\ t.max \in Int /\ pos \in Int /\ t.n_seen \in Nat
      /\ t.n_distinct \in Nat /\ t.n_dup \in Nat /\ t.n_reorder \in Nat
      /\ t.seen \in SUBSET (0 .. Win - 1)
  BY DEF Trackers
<1>2. t.have /\ ~(Distance(t, seq) > 0) /\ t.max + Distance(t, seq) = pos
  BY <1>1 DEF Represents
<1>3. u = FeedBehind(v, pos)
  BY <1>2 DEF ci_seq_tracker_feed
<1>4. /\ v \in Trackers /\ v.have = t.have /\ v.first = t.first /\ v.max = t.max
      /\ v.n_seen = t.n_seen + 1 /\ v.n_distinct = t.n_distinct /\ v.n_dup = t.n_dup
      /\ v.n_reorder = t.n_reorder /\ v.seen = t.seen
  BY <1>1 DEF Trackers
<1> HIDE DEF u, pos, v
<1>5. pos \in t.max - Win + 1 .. t.max /\ p = pos - o
  BY <1>1, Sizes DEF pos
<1>6. Bit(pos) \in t.seen <=> p \in h
  BY <1>5 DEF Represents
<1>7. CASE p \in h
  <2>1. u = [v EXCEPT !.n_dup = @ + 1]
    BY <1>3, <1>4, <1>6, <1>7 DEF FeedBehind
  <2>2. /\ u \in Trackers /\ u.have = t.have /\ u.first = t.first /\ u.max = t.max
        /\ u.n_seen = t.n_seen + 1 /\ u.n_distinct = t.n_distinct /\ u.n_dup = t.n_dup + 1
        /\ u.seen = t.seen
    BY <1>1, <1>4, <2>1 DEF Trackers
  <2>3. h \cup {p} = h
    BY <1>7
  <2>4. Represents(u, h, o)
    BY <1>1, <2>2 DEF Represents
  <2> QED
    BY <2>2, <2>3, <2>4 DEF u
<1>8. CASE p \notin h
  <2>1. u = [v EXCEPT !.seen = @ \cup {Bit(pos)}, !.n_distinct = @ + 1, !.n_reorder = @ + 1]
    BY <1>3, <1>4, <1>6, <1>8 DEF FeedBehind
  <2> DEFINE s == t.seen \cup {Bit(pos)}
  <2>2. s \in SUBSET (0 .. Win - 1)
    BY <1>1, BitType
  <2>3. u = [v EXCEPT !.seen = s, !.n_distinct = t.n_distinct + 1,
                      !.n_reorder = t.n_reorder + 1]
    BY <1>4, <2>1
  <2> HIDE DEF s
  <2>4. t.n_distinct + 1 \in Nat /\ t.n_reorder + 1 \in Nat
    BY <1>1
  <2>5. u \in Trackers
    BY <1>4, <2>2, <2>3, <2>4 DEF Trackers
  <2>6. /\ u \in Trackers /\ u.have = t.have /\ u.first = t.first /\ u.max = t.max
        /\ u.n_seen = t.n_seen + 1 /\ u.n_distinct = t.n_distinct + 1 /\ u.n_dup = t.n_dup
        /\ u.seen = s
    BY <1>4, <2>3, <2>5 DEF Trackers
  <2>7. IsFiniteSet(h \cup {p}) /\ Cardinality(h \cup {p}) = Cardinality(h) + 1
    BY <1>8, FS_AddElement DEF Represents
  <2>8. \A q \in h \cup {p} : q + o <= u.max
    BY <1>1, <2>6 DEF Represents, pos
  <2>9. ASSUME NEW x \in u.max - Win + 1 .. u.max
        PROVE  Bit(x) \in u.seen <=> x - o \in h \cup {p}
    <3>1. x \in t.max - Win + 1 .. t.max /\ x \in Int
      BY <1>1, <2>6, Sizes
    <3>2. Bit(x) \in t.seen <=> x - o \in h
      BY <3>1 DEF Represents
    <3>3. CASE x = pos
      BY <1>5, <2>6, <3>3 DEF s
    <3>4. CASE x # pos
      <4>1. x - pos < Win /\ pos - x < Win
        BY <1>1, <1>5, <3>1, Sizes
      <4>2. Bit(x) # Bit(pos)
        BY <1>1, <3>1, <3>4, <4>1, BitsApart
      <4>3. x - o # p
        BY <1>1, <1>5, <3>1, <3>4
      <4> QED
        BY <2>6, <3>2, <4>2, <4>3 DEF s
    <3> QED
      BY <3>3, <3>4
  <2>10. u.n_seen = u.n_distinct + u.n_dup /\ u.n_distinct = Cardinality(h \cup {p}) /\ u.have
    BY <1>1, <1>2, <2>6, <2>7 DEF Represents
  <2>11. u.max - o \in h \cup {p}
    BY <2>6 DEF Represents
  <2>12. Represents(u, h \cup {p}, o)
    BY <2>7, <2>8, <2>9, <2>10, <2>11 DEF Represents
  <2> QED
    BY <2>6, <2>12 DEF u
<1> QED
  BY <1>7, <1>8

LEMMA NewestIs ==
  ASSUME NEW h \in SUBSET Nat, NEW n \in h, \A q \in h : q <= n
  PROVE  Newest(h) = n
<1> DEFINE m == Newest(h)
<1>1. m \in h /\ \A q \in h : q <= m
  BY DEF Newest
<1> HIDE DEF m
<1>2. m \in Int /\ n \in Int /\ m <= n /\ n <= m
  BY <1>1
<1>3. m = n
  BY <1>2
<1> QED
  BY <1>3 DEF m

\* Feeding the sequence number of packet p to a tracker that stands for a set of
\* packets makes it stand for the set with p, when p is within reach of the newest.
LEMMA FeedRepresents ==
  ASSUME NEW t \in Trackers, NEW h \in SUBSET Nat, NEW org \in Nat, NEW p \in Nat,
         NEW i \in Int, NEW seq \in Int, Cong(seq, i + p, SeqSpace),
         Cong(t.first - org, i, SeqSpace), Represents(t, h, t.first - org),
         p - Newest(h) \in -Half .. Half - 1, Newest(h) - p < Win
  PROVE  LET u == ci_seq_tracker_feed(t, seq)
         IN  /\ u \in Trackers /\ u.first = t.first
             /\ Represents(u, h \cup {p}, t.first - org)
<1> DEFINE o    == t.first - org
           last == t.max - o
           d    == (p + o) - t.max
<1>1. t.first \in Int /\ t.max \in Int /\ o \in Int /\ last \in Int /\ d \in Int
  BY DEF Trackers
<1>2. last \in h /\ \A q \in h : q <= last
  BY <1>1 DEF Represents
<1>3. d = p - last /\ d \in -Half .. Half - 1 /\ -Win < d
  <2>1. Newest(h) = last /\ last \in Nat
    BY <1>2, NewestIs
  <2> QED
    BY <1>1, <2>1, Sizes
<1>4. Cong(seq - t.max, d, SeqSpace)
  <2> HIDE DEF o, d, last
  <2>1. Cong(i, o, SeqSpace)
    BY <1>1, Sizes, CongSym DEF o
  <2>2. Cong(p, p, SeqSpace) /\ Cong(t.max, t.max, SeqSpace)
    BY <1>1, Sizes, CongSame
  <2>3. Cong(i + p, o + p, SeqSpace)
    BY <1>1, <2>1, <2>2, Sizes, CongAdd
  <2>4. i + p \in Int /\ o + p \in Int
    BY <1>1
  <2>5. Cong(seq, o + p, SeqSpace)
    BY <2>3, <2>4, Sizes, CongTrans
  <2>6. Cong(seq - t.max, (o + p) - t.max, SeqSpace)
    BY <1>1, <2>2, <2>4, <2>5, Sizes, CongSub
  <2>7. (o + p) - t.max = d
    BY <1>1 DEF d
  <2> QED
    BY <2>6, <2>7
<1> HIDE DEF d, last
<1>5. Distance(t, seq) = d
  BY <1>1, <1>3, <1>4, DistanceFacts
<1>6. CASE d > 0
  <2>1. p + o > t.max
    BY <1>1, <1>6 DEF d
  <2> QED
    BY <1>1, <1>5, <2>1, ForwardRepresents DEF d
<1>7. CASE d <= 0
  <2>1. p + o <= t.max /\ t.max - (p + o) < Win
    BY <1>1, <1>3, <1>7, Sizes DEF d
  <2> QED
    BY <1>1, <1>5, <2>1, BehindRepresents DEF d
<1> QED
  BY <1>1, <1>6, <1>7

\* The loss a tracker reports is what its packets say.
LEMMA LossFacts ==
  ASSUME NEW t \in Trackers, NEW h \in SUBSET Nat, NEW org \in h,
         Represents(t, h, t.first - org)
  PROVE  LET holes == Cardinality((org .. Newest(h)) \ h)
             early == Cardinality({p \in h : p < org})
         IN  ci_seq_tracker_loss(t) = IF holes > early THEN holes - early ELSE 0
<1> DEFINE new   == t.max - (t.first - org)
           last  == Newest(h)
           range == org .. last
           old   == {p \in h : p < org}
           holes == Cardinality(range \ h)
           early == Cardinality(old)
<1>1. t.first \in Int /\ t.max \in Int /\ t.n_distinct \in Nat /\ org \in Nat /\ t.have
  BY DEF Trackers, Represents
<1>2. new \in h /\ \A q \in h : q <= new
  BY <1>1 DEF Represents
<1>3. last = new
  BY <1>2, NewestIs
<1>4. last \in Nat /\ last = t.max - (t.first - org) /\ org <= last /\ \A q \in h : q <= last
  BY <1>2, <1>3
<1> HIDE DEF last, new
<1>5. IsFiniteSet(h) /\ Cardinality(h) = t.n_distinct
  BY DEF Represents
<1>6. IsFiniteSet(range) /\ Cardinality(range) = last - org + 1
  BY <1>1, <1>4, FS_Interval
<1>7. IsFiniteSet(range \cap h) /\ holes = Cardinality(range) - Cardinality(range \cap h)
  BY <1>6, FS_Difference, FS_Intersection
<1>8. IsFiniteSet(old)
  BY <1>5, FS_Subset
<1>9. Cardinality(h) = Cardinality(range \cap h) + early
  <2>1. h = (range \cap h) \cup old /\ (range \cap h) \cap old = {}
    <3>1. \A q \in h : q \in range <=> ~(q < org)
      BY <1>1, <1>4
    <3> HIDE DEF range
    <3> QED
      BY <3>1
  <2> HIDE DEF old, range
  <2>2. Cardinality(h) = Cardinality(range \cap h) + Cardinality(old) - 0
    BY <1>7, <1>8, <2>1, FS_Union, FS_EmptySet
  <2>3. Cardinality(range \cap h) \in Nat /\ Cardinality(old) \in Nat
    BY <1>7, <1>8, FS_CardinalityType
  <2> QED
    BY <2>2, <2>3
<1>10. Cardinality(range \cap h) \in Nat /\ early \in Nat
  BY <1>7, <1>8, FS_CardinalityType
<1> DEFINE both == Cardinality(range \cap h)
<1> HIDE DEF holes, early, both
<1>11. holes \in Int /\ Spanned(t) \in Int /\ Spanned(t) - t.n_distinct = holes - early
  <2>1. holes = (last - org + 1) - both /\ t.n_distinct = both + early /\ both \in Nat
    BY <1>5, <1>6, <1>7, <1>9, <1>10 DEF both
  <2> HIDE DEF range
  <2> QED
    BY <1>1, <1>4, <1>10, <2>1 DEF Spanned
<1>12. ci_seq_tracker_loss(t) = IF holes > early THEN holes - early ELSE 0
  BY <1>1, <1>10, <1>11 DEF ci_seq_tracker_loss
<1> QED
  BY <1>12 DEF holes, early, last, range, old

-----------------------------------------------------------------------------
(* Types                                                                   *)

LEMMA AppendFacts ==
  ASSUME NEW S, NEW s \in Seq(S), NEW x \in S
  PROVE  /\ Append(s, x) \in Seq(S)
         /\ Len(Append(s, x)) = Len(s) + 1
         /\ Append(s, x)[Len(s) + 1] = x
         /\ \A i \in 1 .. Len(s) : Append(s, x)[i] = s[i]
  OBVIOUS

LEMMA TailFacts ==
  ASSUME NEW S, NEW s \in Seq(S), s # <<>>
  PROVE  /\ Tail(s) \in Seq(S)
         /\ Len(Tail(s)) = Len(s) - 1 /\ Len(s) >= 1 /\ Len(s) \in Nat
         /\ Head(s) = s[1] /\ Head(s) \in S
         /\ \A i \in 1 .. Len(Tail(s)) : i + 1 \in 1 .. Len(s) /\ Tail(s)[i] = s[i + 1]
  OBVIOUS

\* What a packet that crosses the link does to the queue and the counters.
LEMMA CrossFacts ==
  ASSUME Types, Cross
  PROVE  /\ top' \in Nat \cup {-1} /\ top <= top' /\ top' <= top + 1 + MaxSkip
         /\ \/ queue' = queue
            \/ \E p \in Nat \cup {Noise} :
                 /\ promisc /\ Remaining > 0 /\ Len(queue) < QueueLen
                 /\ queue' = Append(queue, [pkt |-> p, after |-> starts])
                 /\ p <= top'
                 /\ p # Noise => top <= p + Reach
         /\ \/ UNCHANGED <<conn_ovf, buffer_out, owed>>
            \/ /\ conn_ovf' = (conn_ovf + 1) % CounterMod /\ UNCHANGED buffer_out
               /\ CountLoss
            \/ /\ buffer_out' = (buffer_out + 1) % CounterMod /\ UNCHANGED conn_ovf
               /\ CountLoss
<1> DEFINE Q(t) ==
             \/ queue' = queue
             \/ \E p \in Nat \cup {Noise} :
                  /\ promisc /\ Remaining > 0 /\ Len(queue) < QueueLen
                  /\ queue' = Append(queue, [pkt |-> p, after |-> starts])
                  /\ p <= t
                  /\ p # Noise => top <= p + Reach
           C == \/ UNCHANGED <<conn_ovf, buffer_out, owed>>
                \/ /\ conn_ovf' = (conn_ovf + 1) % CounterMod /\ UNCHANGED buffer_out
                   /\ CountLoss
                \/ /\ buffer_out' = (buffer_out + 1) % CounterMod /\ UNCHANGED conn_ovf
                   /\ CountLoss
<1>1. ASSUME NEW p, Promisc(p)
      PROVE  C /\ (queue' = queue \/ (/\ promisc /\ Remaining > 0 /\ Len(queue) < QueueLen
                                       /\ queue' = Append(queue, [pkt |-> p, after |-> starts])))
  BY <1>1 DEF Promisc
<1>2. top \in Nat \cup {-1}
  BY DEF Types, TypeOK
<1> HIDE DEF C
<1>3. CASE \E p \in (IF top > Reach THEN top - Reach ELSE 0) .. top + 1 + MaxSkip :
             /\ top' = IF p > top THEN p ELSE top
             /\ Promisc(p)
  <2>1. PICK p \in (IF top > Reach THEN top - Reach ELSE 0) .. top + 1 + MaxSkip :
             /\ top' = IF p > top THEN p ELSE top
             /\ Promisc(p)
    BY <1>3
  <2>2. p \in Nat /\ top <= p + Reach /\ p <= top' /\ p <= top + 1 + MaxSkip
    BY <1>2, <2>1, Sizes
  <2>3. top' \in Nat \cup {-1} /\ top <= top' /\ top' <= top + 1 + MaxSkip
    BY <1>2, <2>1, <2>2, Sizes
  <2>4. C /\ Q(top')
    BY <1>1, <2>1, <2>2
  <2> QED
    BY <2>3, <2>4 DEF C
<1>4. CASE Promisc(Noise) /\ UNCHANGED top
  <2>1. C /\ (queue' = queue \/ (/\ promisc /\ Remaining > 0 /\ Len(queue) < QueueLen
                                 /\ queue' = Append(queue, [pkt |-> Noise, after |-> starts])))
    BY <1>1, <1>4
  <2>2. Noise \in Nat \cup {Noise} /\ Noise <= top /\ top' = top
    BY <1>2, <1>4 DEF Noise
  <2>3. Q(top')
    BY <2>1, <2>2
  <2> QED
    BY <1>2, <2>1, <2>2, <2>3, Sizes DEF C
<1> QED
  BY <1>3, <1>4 DEF Cross

\* A difference of two readings of a counter is a number.
LEMMA DeltaInt ==
  ASSUME NEW prev \in Int, NEW cur \in Int
  PROVE  ci_u8_delta(prev, cur) \in Int
<1>1. cur - prev \in Int
  OBVIOUS
<1> QED
  BY <1>1, Sizes, ModCong DEF ci_u8_delta

LEMMA TypesCross ==
  ASSUME Types, Cross
  PROVE  Types'
<1> USE DEF Types, TypeOK
<1>1. /\ top' \in Nat \cup {-1}
      /\ \/ queue' = queue
         \/ \E p \in Nat \cup {Noise} :
               /\ Remaining > 0 /\ Len(queue) < QueueLen
               /\ queue' = Append(queue, [pkt |-> p, after |-> starts])
      /\ \/ UNCHANGED <<conn_ovf, buffer_out, owed>>
         \/ /\ conn_ovf' = (conn_ovf + 1) % CounterMod /\ UNCHANGED buffer_out
            /\ CountLoss
         \/ /\ buffer_out' = (buffer_out + 1) % CounterMod /\ UNCHANGED conn_ovf
            /\ CountLoss
  BY CrossFacts
<1>2. /\ crossed < MaxPackets /\ crossed' = crossed + 1
      /\ UNCHANGED <<isn, promisc, busy, cmd, starts, mon_running, pc, mon_seq, prev_ovf,
                     prev_bout, row, heard, origin, failed, stale, astray>>
  BY DEF Cross, cmdVars, drainVars
<1> DEFINE Queued(q) ==
             /\ q \in Seq(Clones) /\ Len(q) <= QueueLen
             /\ PoolSize - Len(q) - busy >= 0
             /\ \A i \in 1 .. Len(q) :
                   q[i].pkt \in Nat \cup {Noise} /\ q[i].after \in 0 .. starts
<1>3. Queued(queue')
  <2>1. CASE queue' = queue
    BY <2>1 DEF Remaining
  <2>2. ASSUME NEW p \in Nat \cup {Noise}, Remaining > 0, Len(queue) < QueueLen,
               queue' = Append(queue, [pkt |-> p, after |-> starts])
        PROVE  Queued(queue')
    <3>1. [pkt |-> p, after |-> starts] \in Clones
      BY DEF Clones
    <3>2. /\ queue' \in Seq(Clones) /\ Len(queue') = Len(queue) + 1 /\ Len(queue) \in Nat
          /\ queue'[Len(queue) + 1] = [pkt |-> p, after |-> starts]
          /\ \A i \in 1 .. Len(queue) : queue'[i] = queue[i]
      BY <2>2, <3>1, AppendFacts
    <3>3. PoolSize - Len(queue') - busy >= 0 /\ Len(queue') <= QueueLen
      BY <2>2, <3>2, MonitorAssumption DEF Remaining
    <3>4. ASSUME NEW i \in 1 .. Len(queue')
          PROVE  queue'[i].pkt \in Nat \cup {Noise} /\ queue'[i].after \in 0 .. starts
      <4>1. CASE i \in 1 .. Len(queue)
        BY <3>2, <4>1
      <4>2. CASE i = Len(queue) + 1
        BY <3>2, <4>2
      <4> QED
        BY <3>2, <4>1, <4>2
    <3> QED
      BY <3>2, <3>3, <3>4
  <2> QED
    BY <1>1, <2>1, <2>2
<1>4. {conn_ovf', buffer_out', prev_ovf, prev_bout} \subseteq 0 .. CounterMod - 1
  <2>1. /\ (conn_ovf + 1) % CounterMod \in 0 .. CounterMod - 1
        /\ (buffer_out + 1) % CounterMod \in 0 .. CounterMod - 1
    BY Sizes, ModCong
  <2> QED
    BY <1>1, <2>1
<1>5. owed' \in Int
  BY <1>1 DEF CountLoss
<1>6. crossed' \in 0 .. MaxPackets
  BY <1>2, Sizes
<1> QED
  BY <1>1, <1>2, <1>3, <1>4, <1>5, <1>6 DEF Remaining

\* The tracker keeps its types, whatever it is fed.
LEMMA FeedType ==
  ASSUME NEW t \in Trackers, NEW seq \in Int
  PROVE  ci_seq_tracker_feed(t, seq) \in Trackers
<1> DEFINE u == [t EXCEPT !.n_seen = @ + 1]
           d == Distance(t, seq)
<1>1. u \in Trackers /\ u.max = t.max /\ t.max \in Int
  BY DEF Trackers
<1>2. d \in Int
  <2>1. seq - t.max \in Int
    BY <1>1
  <2>2. (seq - t.max) % SeqSpace \in Int
    BY <2>1, Sizes, ModCong
  <2> QED
    BY <2>2, Sizes DEF Distance
<1> HIDE DEF u, d
<1>3. PICK pos \in Int : pos = t.max + d
  BY <1>1, <1>2
<1>4. Bit(seq) \in 0 .. Win - 1 /\ Bit(pos) \in 0 .. Win - 1
  BY BitType
<1>5. FeedFirst(u, seq) \in Trackers
  BY <1>1, <1>4 DEF FeedFirst, Trackers
<1>6. FeedForward(u, pos) \in Trackers
  <2> DEFINE bits == (u.seen \ Exposed(u.max, pos)) \cup {Bit(pos)}
  <2>1. bits \in SUBSET (0 .. Win - 1)
    BY <1>1, <1>4 DEF Trackers
  <2>2. FeedForward(u, pos) = [u EXCEPT !.seen = bits, !.max = pos, !.n_distinct = @ + 1]
    BY DEF FeedForward
  <2> HIDE DEF bits
  <2>3. u.n_distinct + 1 \in Nat
    BY <1>1 DEF Trackers
  <2>4. FeedForward(u, pos) = [u EXCEPT !.seen = bits, !.max = pos, !.n_distinct = u.n_distinct + 1]
    BY <2>2
  <2> QED
    BY <1>1, <2>1, <2>3, <2>4 DEF Trackers
<1>7. FeedBehind(u, pos) \in Trackers
  <2>1. u.n_dup + 1 \in Nat /\ u.n_distinct + 1 \in Nat /\ u.n_reorder + 1 \in Nat
    BY <1>1 DEF Trackers
  <2>2. CASE Bit(pos) \in u.seen
    <3>1. FeedBehind(u, pos) = [u EXCEPT !.n_dup = u.n_dup + 1]
      BY <2>2 DEF FeedBehind
    <3> QED
      BY <1>1, <2>1, <3>1 DEF Trackers
  <2>3. CASE Bit(pos) \notin u.seen
    <3> DEFINE bits == u.seen \cup {Bit(pos)}
    <3>1. bits \in SUBSET (0 .. Win - 1)
      BY <1>1, <1>4 DEF Trackers
    <3>2. FeedBehind(u, pos) = [u EXCEPT !.seen = bits, !.n_distinct = u.n_distinct + 1,
                                         !.n_reorder = u.n_reorder + 1]
      BY <2>3 DEF FeedBehind
    <3> HIDE DEF bits
    <3> QED
      BY <1>1, <2>1, <3>1, <3>2 DEF Trackers
  <2> QED
    BY <2>2, <2>3
<1> QED
  BY <1>3, <1>5, <1>6, <1>7 DEF ci_seq_tracker_feed, u, d

LEMMA TypesDrainRead ==
  ASSUME Types, DrainRead
  PROVE  Types'
<1> USE DEF Types, TypeOK
<1>1. /\ queue # <<>> /\ queue' = Tail(queue) /\ Capture(Head(queue)) /\ pc' = "window"
      /\ stale' = (stale \/ Head(queue).after < starts)
      /\ UNCHANGED <<isn, top, crossed, promisc, busy, conn_ovf, buffer_out, cmd, starts,
                     mon_running, prev_ovf, prev_bout, row, owed, failed>>
  BY DEF DrainRead, linkVars, cmdVars
<1>2. /\ queue' \in Seq(Clones) /\ Len(queue') = Len(queue) - 1 /\ Head(queue) \in Clones
      /\ Len(queue) \in Nat
      /\ \A i \in 1 .. Len(queue') : i + 1 \in 1 .. Len(queue) /\ queue'[i] = queue[i + 1]
  BY <1>1, TailFacts
<1>3. PoolSize - Len(queue') - busy >= 0 /\ Len(queue') <= QueueLen
  BY <1>2, MonitorAssumption DEF Remaining
<1>4. \A i \in 1 .. Len(queue') :
        queue'[i].pkt \in Nat \cup {Noise} /\ queue'[i].after \in 0 .. starts
  BY <1>2
<1>5. heard' \in SUBSET Nat /\ origin' \in Nat /\ mon_seq' \in Trackers /\ astray' \in BOOLEAN
  <2>1. Head(queue).pkt \in Nat \cup {Noise}
    BY <1>2 DEF Clones
  <2>2. CASE Head(queue).pkt = Noise
    BY <1>1, <2>2 DEF Capture
  <2>3. CASE Head(queue).pkt # Noise
    <3>1. SeqOf(Head(queue).pkt) \in Int
      <4>1. isn + Head(queue).pkt \in Int
        BY <2>1, MonitorAssumption, Sizes DEF Noise
      <4> QED
        BY <4>1, Sizes, ModCong DEF SeqOf
    <3> QED
      BY <1>1, <2>1, <2>3, <3>1, FeedType DEF Capture
  <2> QED
    BY <2>2, <2>3
<1>6. Len(queue') <= QueueLen /\ Remaining' >= 0
  BY <1>1, <1>3 DEF Remaining
<1>7. stale' \in BOOLEAN
  BY <1>1
<1>8. TypeOK'
  BY <1>1, <1>4, <1>5, <1>6, <1>7
<1> QED
  BY <1>2, <1>5, <1>8

LEMMA FreshTracker == ci_seq_tracker_init \in Trackers
  BY DEF ci_seq_tracker_init, Trackers

LEMMA TypesOther ==
  ASSUME Types,
         \/ Borrow \/ GiveBack \/ DrainerInit \/ DrainCheck \/ DrainTimeout \/ WindowOpen
         \/ WindowClose \/ WindowReread \/ UNCHANGED vars
  PROVE  Types'
<1> USE DEF Types, TypeOK, linkVars, cspVars, cmdVars, drainVars, historyVars
<1>1. CASE Borrow \/ GiveBack
  <2>1. UNCHANGED <<linkVars, promisc, queue, conn_ovf, buffer_out, cmdVars, drainVars,
                   historyVars>>
    BY <1>1 DEF Borrow, GiveBack
  <2>2. busy' \in Nat
    BY <1>1 DEF Borrow, GiveBack
  <2>3. PoolSize - Len(queue) - busy' >= 0
    <3> DEFINE n == Len(queue)
    <3>1. n \in Nat /\ PoolSize \in Nat /\ busy \in Nat /\ PoolSize - n - busy >= 0
      BY MonitorAssumption DEF Remaining
    <3>2. (busy' = busy + 1 /\ PoolSize - n - busy > 0) \/ busy' = busy - 1
      BY <1>1 DEF Borrow, GiveBack, Remaining
    <3> HIDE DEF n
    <3> QED
      BY <3>1, <3>2 DEF n
  <2> QED
    BY <2>1, <2>2, <2>3 DEF Remaining
<1>2. CASE DrainerInit
  <2>1. /\ UNCHANGED <<isn, top, crossed, promisc, queue, busy, conn_ovf, buffer_out, cmd, starts,
                       mon_running, row, origin, failed, stale>>
        /\ pc' = "loop" /\ mon_seq' = ci_seq_tracker_init /\ prev_ovf' = conn_ovf
        /\ prev_bout' = buffer_out /\ heard' = {} /\ owed' = 0 /\ astray' = FALSE
    BY <1>2 DEF DrainerInit
  <2>2. {conn_ovf', buffer_out', prev_ovf', prev_bout'} \subseteq 0 .. CounterMod - 1
    BY <2>1
  <2>3. heard' \in SUBSET Nat /\ owed' \in Int /\ mon_seq' \in Trackers
    BY <2>1, FreshTracker
  <2>4. Remaining' = Remaining
    BY <2>1 DEF Remaining
  <2> QED
    BY <2>1, <2>2, <2>3, <2>4
<1>3. CASE DrainCheck \/ DrainTimeout \/ WindowOpen
  BY <1>3 DEF DrainCheck, DrainTimeout, WindowOpen, Remaining
<1>4. CASE WindowReread
  BY <1>4 DEF WindowReread, Remaining
<1>5. CASE WindowClose
  <2>1. /\ conn_ovf \in Int /\ buffer_out \in Int /\ prev_ovf \in Int /\ prev_bout \in Int
    BY Sizes
  <2>2. ci_u8_delta(prev_ovf, conn_ovf) \in Int /\ ci_u8_delta(prev_bout, buffer_out) \in Int
    BY <2>1, DeltaInt
  <2>3. owed' \in Int
    BY <1>5, <2>2 DEF WindowClose
  <2>4. /\ UNCHANGED <<isn, top, crossed, promisc, queue, busy, conn_ovf, buffer_out, cmd, starts,
                       mon_running, mon_seq, prev_ovf, prev_bout, heard, origin, failed, stale,
                       astray>>
        /\ pc' = "reread"
    BY <1>5 DEF WindowClose
  <2> QED
    BY <2>3, <2>4 DEF Remaining
<1>6. CASE UNCHANGED vars
  BY <1>6 DEF vars, Remaining
<1> QED
  BY <1>1, <1>2, <1>3, <1>4, <1>5, <1>6

LEMMA TypesCommand ==
  ASSUME Types, Command
  PROVE  Types'
<1> USE DEF Types, TypeOK, linkVars, cspVars, cmdVars, drainVars, historyVars
<1>1. CASE StartEnable
  <2>1. starts' \in 0 .. MaxStarts /\ starts' = starts + 1
    <3>1. starts \in 0 .. MaxStarts /\ starts < MaxStarts /\ starts' = starts + 1
      BY <1>1 DEF StartEnable
    <3> QED
      BY <3>1, MonitorAssumption
  <2>2. \A i \in 1 .. Len(queue) : queue[i].after \in 0 .. starts'
    BY <2>1
  <2> QED
    BY <1>1, <2>1, <2>2 DEF StartEnable, Remaining
<1>2. CASE StartOpenFails \/ StartThreadFails \/ StartSucceeds
  BY <1>2 DEF StartOpenFails, StartThreadFails, StartSucceeds, Remaining
<1>3. CASE StopRequest \/ StopJoined
  BY <1>3 DEF StopRequest, StopJoined, Remaining
<1>4. CASE StopDrain
  <2>1. queue' = <<>> /\ Len(queue') = 0 /\ queue' \in Seq(Clones) /\ 1 .. Len(queue') = {}
    BY <1>4 DEF StopDrain, mon_drain_residual
  <2>2. Len(queue') <= QueueLen /\ PoolSize - Len(queue') - busy >= 0
    <3>1. Len(queue) \in Nat
      OBVIOUS
    <3> QED
      BY <2>1, <3>1, MonitorAssumption DEF Remaining
  <2> QED
    BY <1>4, <2>1, <2>2 DEF StopDrain, Remaining
<1> QED
  BY <1>1, <1>2, <1>3, <1>4 DEF Command

-----------------------------------------------------------------------------
(* The parts of the invariant, step by step                                *)

\* What the actions other than a read, a crossing and the commands leave alone.
LEMMA QuietSteps ==
  ASSUME \/ Borrow \/ GiveBack \/ DrainerInit \/ DrainCheck \/ DrainTimeout \/ WindowOpen
         \/ WindowClose \/ WindowReread \/ UNCHANGED vars
  PROVE  UNCHANGED <<isn, top, crossed, promisc, queue, cmd, starts, mon_running, failed, stale>>
<1> USE DEF linkVars, cspVars, cmdVars, drainVars, historyVars, vars
<1>1. CASE Borrow \/ GiveBack
  BY <1>1 DEF Borrow, GiveBack
<1>2. CASE DrainerInit \/ DrainCheck \/ DrainTimeout \/ WindowOpen
  BY <1>2 DEF DrainerInit, DrainCheck, DrainTimeout, WindowOpen
<1>3. CASE WindowClose \/ WindowReread \/ UNCHANGED vars
  BY <1>3 DEF WindowClose, WindowReread
<1> QED
  BY <1>1, <1>2, <1>3

LEMMA ControlStep ==
  ASSUME Types, Control, [Next]_vars
  PROVE  Control'
<1> USE DEF Control, linkVars, cspVars, cmdVars, drainVars, historyVars
<1>1. mon_running \in BOOLEAN
  BY DEF Types, TypeOK
<1>2. CASE Cross \/ Borrow \/ GiveBack
  BY <1>2 DEF Cross, Borrow, GiveBack
<1>3. CASE DrainerInit \/ DrainCheck
  BY <1>1, <1>3 DEF DrainerInit, DrainCheck
<1>4. CASE DrainRead \/ DrainTimeout
  BY <1>4 DEF DrainRead, DrainTimeout
<1>5. CASE WindowOpen \/ WindowClose \/ WindowReread
  BY <1>5 DEF WindowOpen, WindowClose, WindowReread
<1>6. CASE StartEnable \/ StartOpenFails \/ StartThreadFails
  BY <1>6 DEF StartEnable, StartOpenFails, StartThreadFails
<1>7. CASE StartSucceeds \/ StopRequest
  BY <1>7 DEF StartSucceeds, StopRequest
<1>8. CASE StopJoined \/ StopDrain
  BY <1>8 DEF StopJoined, StopDrain
<1>9. CASE UNCHANGED vars
  BY <1>9 DEF vars
<1> QED
  BY <1>2, <1>3, <1>4, <1>5, <1>6, <1>7, <1>8, <1>9 DEF Next, Drainer, Command

LEMMA FreshStep ==
  ASSUME Types, Control, Fresh, [Next]_vars
  PROVE  Fresh'
<1> USE DEF linkVars, cspVars, cmdVars, drainVars, historyVars
<1>1. /\ mon_running \in BOOLEAN /\ promisc \in BOOLEAN /\ failed \in BOOLEAN
      /\ queue \in Seq(Clones) /\ starts \in Nat /\ stale \in BOOLEAN
  BY DEF Types, TypeOK
<1>2. CASE Cross
  <2>1. UNCHANGED <<promisc, cmd, starts, mon_running, pc, failed, stale>>
    BY <1>2 DEF Cross
  <2>2. CASE queue' = queue
    BY <2>1, <2>2 DEF Fresh
  <2>3. ASSUME NEW p \in Nat \cup {Noise}, promisc,
               queue' = Append(queue, [pkt |-> p, after |-> starts])
        PROVE  Fresh'
    <3>1. [pkt |-> p, after |-> starts] \in Clones
      BY <1>1 DEF Clones
    <3>2. /\ Len(queue') = Len(queue) + 1 /\ Len(queue) \in Nat
          /\ queue'[Len(queue) + 1].after = starts
          /\ \A i \in 1 .. Len(queue) : queue'[i] = queue[i]
      BY <1>1, <2>3, <3>1, AppendFacts
    <3>3. ASSUME ~failed
          PROVE  /\ ~stale /\ ~(cmd = "idle" /\ ~mon_running) /\ cmd # "drain"
                 /\ \A i \in 1 .. Len(queue') : queue'[i].after = starts
      <4>1. /\ ~stale /\ ~(cmd = "idle" /\ ~mon_running) /\ cmd # "drain"
            /\ \A i \in 1 .. Len(queue) : queue[i].after = starts
        BY <2>3, <3>3 DEF Fresh
      <4>2. \A i \in 1 .. Len(queue') : i \in 1 .. Len(queue) \/ i = Len(queue) + 1
        BY <3>2
      <4> QED
        BY <3>2, <4>1, <4>2
    <3> QED
      BY <2>1, <3>3 DEF Fresh
  <2> QED
    BY <1>2, <2>2, <2>3, CrossFacts
<1>3. CASE DrainRead
  <2>1. /\ queue' = Tail(queue) /\ queue # <<>>
        /\ stale' = (stale \/ Head(queue).after < starts)
        /\ UNCHANGED <<promisc, cmd, starts, mon_running, failed>> /\ pc # "off"
    BY <1>3 DEF DrainRead
  <2>2. /\ Len(queue) >= 1 /\ Head(queue) = queue[1] /\ Len(queue) \in Nat
        /\ \A i \in 1 .. Len(queue') : i + 1 \in 1 .. Len(queue) /\ queue'[i] = queue[i + 1]
    BY <1>1, <2>1, TailFacts
  <2>3. ~(cmd = "idle" /\ ~mon_running) /\ cmd # "drain"
    BY <2>1 DEF Control
  <2>4. ASSUME ~failed
        PROVE  ~stale' /\ \A i \in 1 .. Len(queue') : queue'[i].after = starts
    <3>1. ~stale /\ \A i \in 1 .. Len(queue) : queue[i].after = starts
      BY <2>4 DEF Fresh
    <3>2. ~(Head(queue).after < starts)
      BY <1>1, <2>2, <3>1
    <3>3. \A i \in 1 .. Len(queue') : queue'[i].after = starts
      BY <2>2, <3>1
    <3> QED
      BY <2>1, <3>1, <3>2, <3>3
  <2> QED
    BY <2>1, <2>3, <2>4 DEF Fresh
<1>4. CASE \/ Borrow \/ GiveBack \/ DrainerInit \/ DrainCheck \/ DrainTimeout \/ WindowOpen
           \/ WindowClose \/ WindowReread \/ UNCHANGED vars
  <2>1. UNCHANGED <<promisc, queue, cmd, starts, mon_running, failed, stale>>
    BY <1>4, QuietSteps
  <2> QED
    BY <2>1 DEF Fresh
<1>5. CASE StartEnable
  <2>1. /\ cmd = "idle" /\ ~mon_running /\ cmd' = "start" /\ UNCHANGED <<queue, failed, stale>>
    BY <1>5 DEF StartEnable
  <2>2. ~failed => queue = <<>> /\ ~stale
    BY <2>1 DEF Fresh
  <2>3. queue = <<>> => 1 .. Len(queue) = {}
    OBVIOUS
  <2> QED
    BY <2>1, <2>2, <2>3 DEF Fresh
<1>6. CASE StartOpenFails \/ StartThreadFails
  BY <1>6 DEF StartOpenFails, StartThreadFails, Fresh
<1>7. CASE StartSucceeds \/ StopRequest
  BY <1>7 DEF StartSucceeds, StopRequest, Fresh
<1>8. CASE StopJoined
  BY <1>8 DEF StopJoined, Fresh, Control
<1>9. CASE StopDrain
  <2>1. /\ cmd = "drain" /\ cmd' = "idle" /\ queue' = <<>> /\ 1 .. Len(queue') = {}
        /\ UNCHANGED <<promisc, starts, mon_running, failed, stale>>
    BY <1>9 DEF StopDrain, mon_drain_residual
  <2> QED
    BY <2>1 DEF Fresh
<1> QED
  BY <1>2, <1>3, <1>4, <1>5, <1>6, <1>7, <1>8, <1>9 DEF Next, Drainer, Command

\* The difference of a counter that has counted once more.
LEMMA DeltaOnce ==
  ASSUME NEW p \in Int, NEW c \in Int
  PROVE  /\ ci_u8_delta(p, c) \in 0 .. CounterMod - 1
         /\ \/ ci_u8_delta(p, (c + 1) % CounterMod) = ci_u8_delta(p, c) + 1
            \/ /\ ci_u8_delta(p, (c + 1) % CounterMod) = 0
               /\ ci_u8_delta(p, c) + 1 = CounterMod
<1> DEFINE d == ci_u8_delta(p, c)
           e == (c + 1) % CounterMod
<1>1. c - p \in Int /\ c + 1 \in Int
  OBVIOUS
<1>2. d \in 0 .. CounterMod - 1 /\ d \in Int /\ Cong(c - p, d, CounterMod)
  BY <1>1, Sizes, ModCong DEF ci_u8_delta
<1>3. e \in Int /\ Cong(e, c + 1, CounterMod)
  BY <1>1, Sizes, ModCong
<1>4. ci_u8_delta(p, e) = (e - p) % CounterMod
  BY DEF ci_u8_delta
<1> HIDE DEF d, e
<1>5. PICK j \in Int : c - p = d + j * CounterMod
  BY <1>1, <1>2, Sizes, CongTurns
<1>6. PICK k \in Int : e = (c + 1) + k * CounterMod
  BY <1>1, <1>3, Sizes, CongTurns
<1>7. j + k \in Int /\ e - p \in Int /\ e - p = (d + 1) + (j + k) * CounterMod
  BY <1>2, <1>3, <1>5, <1>6, Sizes
<1>8. CASE d + 1 < CounterMod
  <2>1. d + 1 \in 0 .. CounterMod - 1
    BY <1>2, <1>8, Sizes
  <2> DEFINE x == e - p
             r == d + 1
  <2>2. x \in Int /\ r \in 0 .. CounterMod - 1 /\ x = r + (j + k) * CounterMod
    BY <1>7, <2>1
  <2> HIDE DEF x, r
  <2>3. x % CounterMod = r
    BY <1>7, <2>2, Sizes, ModUnique
  <2> QED
    BY <1>2, <1>4, <2>3 DEF d, e, x, r
<1>9. CASE d + 1 = CounterMod
  <2>1. j + k + 1 \in Int /\ 0 \in 0 .. CounterMod - 1
    BY Sizes
  <2>2. e - p = 0 + (j + k + 1) * CounterMod
    BY <1>7, <1>9, Sizes
  <2>3. (e - p) % CounterMod = 0
    BY <1>7, <2>1, <2>2, Sizes, ModUnique
  <2> QED
    BY <1>2, <1>4, <1>9, <2>3 DEF d, e
<1> QED
  BY <1>2, <1>8, <1>9, Sizes

\* What is owed after a loss that one counter has counted, the other one being at b.
LEMMA CountedOnce ==
  ASSUME NEW p \in Int, NEW c \in Int, NEW b \in Int, NEW n \in Int, NEW k \in Nat,
         n = ci_u8_delta(p, c) + b + k * CounterMod
  PROVE  \E j \in Nat : n + 1 = ci_u8_delta(p, (c + 1) % CounterMod) + b + j * CounterMod
<1> DEFINE d == ci_u8_delta(p, c)
           e == ci_u8_delta(p, (c + 1) % CounterMod)
<1>1. d \in Int /\ (e = d + 1 \/ (e = 0 /\ d + 1 = CounterMod)) /\ n = d + b + k * CounterMod
  BY Sizes, DeltaOnce
<1> HIDE DEF d, e
<1>2. CASE e = d + 1
  <2>1. n + 1 = e + b + k * CounterMod
    BY <1>1, <1>2, Sizes
  <2> QED
    BY <2>1 DEF e
<1>3. CASE e = 0 /\ d + 1 = CounterMod
  <2>1. k + 1 \in Nat /\ n + 1 = e + b + (k + 1) * CounterMod
    BY <1>1, <1>3, Sizes
  <2> QED
    BY <2>1 DEF e
<1> QED
  BY <1>1, <1>2, <1>3

\* No difference, for a counter compared with itself.
LEMMA DeltaSame ==
  ASSUME NEW c \in Int
  PROVE  ci_u8_delta(c, c) = 0
<1>1. c - c \in Int /\ 0 \in 0 .. CounterMod - 1 /\ c - c = 0 + 0 * CounterMod
  BY Sizes
<1> QED
  BY <1>1, Sizes, ModUnique DEF ci_u8_delta

LEMMA CountedStep ==
  ASSUME Types, Counted, InstrumentLossIsFlagged, [Next]_vars
  PROVE  Counted'
<1> USE DEF linkVars, cspVars, cmdVars, drainVars, historyVars, Compared
<1>1. /\ conn_ovf \in Int /\ buffer_out \in Int /\ prev_ovf \in Int /\ prev_bout \in Int
      /\ owed \in Int
  BY Sizes DEF Types, TypeOK
<1>2. CASE Cross
  <2> DEFINE a == ci_u8_delta(prev_ovf, conn_ovf)
             b == ci_u8_delta(prev_bout, buffer_out)
  <2>1. UNCHANGED <<pc, prev_ovf, prev_bout>>
    BY <1>2 DEF Cross
  <2>2. a \in Int /\ b \in Int
    BY <1>1, Sizes, DeltaOnce
  <2>3. CASE UNCHANGED <<conn_ovf, buffer_out, owed>>
    BY <2>1, <2>3 DEF Counted, ci_u8_delta
  <2>4. CASE conn_ovf' = (conn_ovf + 1) % CounterMod /\ UNCHANGED buffer_out /\ CountLoss
    <3> SUFFICES ASSUME Compared PROVE Counted'
      BY <2>1 DEF Counted
    <3>1. owed' = owed + 1
      BY <2>4 DEF CountLoss
    <3>2. PICK k \in Nat : owed = a + b + k * CounterMod
      BY DEF Counted
    <3> HIDE DEF b
    <3>3. \E j \in Nat : owed + 1 = ci_u8_delta(prev_ovf, (conn_ovf + 1) % CounterMod) + b
                                    + j * CounterMod
      BY <1>1, <2>2, <3>2, CountedOnce
    <3> QED
      BY <2>1, <2>4, <3>1, <3>3 DEF Counted, ci_u8_delta, b
  <2>5. CASE buffer_out' = (buffer_out + 1) % CounterMod /\ UNCHANGED conn_ovf /\ CountLoss
    <3> SUFFICES ASSUME Compared PROVE Counted'
      BY <2>1 DEF Counted
    <3>1. owed' = owed + 1
      BY <2>5 DEF CountLoss
    <3>2. PICK k \in Nat : owed = a + b + k * CounterMod
      BY DEF Counted
    <3>3. owed = b + a + k * CounterMod
      BY <2>2, <3>2, Sizes
    <3> HIDE DEF a
    <3>4. PICK j \in Nat : owed + 1 = ci_u8_delta(prev_bout, (buffer_out + 1) % CounterMod) + a
                                     + j * CounterMod
      BY <1>1, <2>2, <3>3, CountedOnce
    <3>5. ci_u8_delta(prev_bout, (buffer_out + 1) % CounterMod) \in Int
      BY <1>1, Sizes, DeltaOnce
    <3>6. owed' = a + ci_u8_delta(prev_bout, (buffer_out + 1) % CounterMod) + j * CounterMod
      BY <2>2, <3>1, <3>4, <3>5, Sizes
    <3> QED
      BY <2>1, <2>5, <3>6 DEF Counted, ci_u8_delta, a
  <2> QED
    BY <1>2, <2>3, <2>4, <2>5, CrossFacts
<1>3. ASSUME owed' \in Nat, owed' % CounterMod = 0, UNCHANGED <<conn_ovf, buffer_out>>,
             prev_ovf' = conn_ovf, prev_bout' = buffer_out
      PROVE  Counted'
  <2> DEFINE n == owed'
             k == n \div CounterMod
  <2>1. k \in Int /\ n = CounterMod * k + 0
    <3>1. n \in Int /\ n % CounterMod = 0
      BY <1>3
    <3> HIDE DEF n
    <3> QED
      BY <3>1, Sizes, DivMod
  <2> HIDE DEF k
  <2>2. k \in Nat
    <3>1. CASE k <= -1
      <4>1. CounterMod * k <= -CounterMod
        BY <2>1, <3>1, Sizes
      <4> QED
        BY <1>3, <2>1, <4>1, Sizes
    <3> QED
      BY <2>1, <3>1
  <2>3. owed' = 0 + 0 + k * CounterMod
    BY <2>1, <2>2, Sizes
  <2>4. ci_u8_delta(conn_ovf, conn_ovf) = 0 /\ ci_u8_delta(buffer_out, buffer_out) = 0
    BY <1>1, DeltaSame
  <2> QED
    BY <1>3, <2>2, <2>3, <2>4 DEF Counted, ci_u8_delta
<1>4. CASE DrainerInit
  <2>1. 0 % CounterMod = 0
    BY <1>1, DeltaSame DEF ci_u8_delta
  <2> QED
    BY <1>3, <1>4, <2>1 DEF DrainerInit
<1>5. CASE WindowReread
  <2>1. owed' = owed /\ owed >= 0 /\ owed % CounterMod = 0
    BY <1>5 DEF WindowReread, InstrumentLossIsFlagged
  <2> QED
    BY <1>1, <1>3, <1>5, <2>1 DEF WindowReread
<1>6. CASE DrainCheck \/ DrainRead \/ DrainTimeout \/ WindowOpen \/ WindowClose
  BY <1>6 DEF DrainCheck, DrainRead, DrainTimeout, WindowOpen, WindowClose, Counted, ci_u8_delta
<1>7. CASE Borrow \/ GiveBack \/ UNCHANGED vars
  BY <1>7 DEF Borrow, GiveBack, vars, Counted, ci_u8_delta
<1>8. CASE StartEnable \/ StartOpenFails \/ StartThreadFails \/ StartSucceeds
  BY <1>8 DEF StartEnable, StartOpenFails, StartThreadFails, StartSucceeds, Counted, ci_u8_delta
<1>9. CASE StopRequest \/ StopJoined \/ StopDrain
  BY <1>9 DEF StopRequest, StopJoined, StopDrain, Counted, ci_u8_delta
<1> QED
  BY <1>2, <1>4, <1>5, <1>6, <1>7, <1>8, <1>9 DEF Next, Drainer, Command

\* A row tells of what both counters have advanced by: what it leaves is whole turns.
LEMMA FlagStep ==
  ASSUME Types, Counted, InstrumentLossIsFlagged, [Next]_vars
  PROVE  InstrumentLossIsFlagged'
<1> USE DEF linkVars, cspVars, cmdVars, drainVars, historyVars
<1>1. CASE WindowClose
  <2> DEFINE a == ci_u8_delta(prev_ovf, conn_ovf)
             b == ci_u8_delta(prev_bout, buffer_out)
  <2>1. /\ pc = "window"
        /\ owed' = owed - (IF CONN_OVF \in Suspect THEN a ELSE 0)
                        - (IF BUFFER_OUT \in Suspect THEN b ELSE 0)
    BY <1>1 DEF WindowClose
  <2>2. /\ conn_ovf \in Int /\ prev_ovf \in Int /\ buffer_out \in Int /\ prev_bout \in Int
        /\ owed \in Int
    BY Sizes DEF Types, TypeOK
  <2>3. a \in 0 .. CounterMod - 1 /\ b \in 0 .. CounterMod - 1
    BY <2>2, DeltaOnce
  <2>4. (CONN_OVF \in Suspect <=> a > 0) /\ (BUFFER_OUT \in Suspect <=> b > 0)
    BY DEF Suspect, ci_measurement_suspect, CONN_OVF, BUFFER_OUT, BUFFER_LOW, SPARSE_SEQ
  <2>5. PICK k \in Nat : owed = a + b + k * CounterMod
    BY <2>1 DEF Counted, Compared
  <2> HIDE DEF a, b
  <2>6. owed' = owed - a - b
    BY <2>1, <2>2, <2>3, <2>4, Sizes
  <2>7. k * CounterMod \in Nat
    BY Sizes
  <2>8. owed' \in Int /\ owed' >= 0 /\ owed' = 0 + k * CounterMod
    BY <2>3, <2>5, <2>6, <2>7, Sizes
  <2>9. owed' % CounterMod = 0
    <3>1. 0 \in 0 .. CounterMod - 1 /\ k \in Int
      BY Sizes
    <3> QED
      BY <2>8, <3>1, Sizes, ModUnique
  <2> QED
    BY <2>8, <2>9 DEF InstrumentLossIsFlagged
<1>2. CASE Cross
  <2>1. UNCHANGED pc
    BY <1>2 DEF Cross
  <2>2. pc = "reread" => owed' = owed
    BY <1>2, CrossFacts DEF CountLoss, Compared
  <2> QED
    BY <2>1, <2>2 DEF InstrumentLossIsFlagged
<1>3. CASE DrainerInit \/ DrainCheck \/ DrainRead \/ DrainTimeout \/ WindowOpen \/ WindowReread
  <2>1. pc' # "reread"
    BY <1>3 DEF DrainerInit, DrainCheck, DrainRead, DrainTimeout, WindowOpen, WindowReread
  <2> QED
    BY <2>1 DEF InstrumentLossIsFlagged
<1>4. CASE Borrow \/ GiveBack \/ UNCHANGED vars
  BY <1>4 DEF Borrow, GiveBack, vars, InstrumentLossIsFlagged
<1>5. CASE StartEnable \/ StartOpenFails \/ StartThreadFails \/ StartSucceeds
  BY <1>5 DEF StartEnable, StartOpenFails, StartThreadFails, StartSucceeds,
     InstrumentLossIsFlagged
<1>6. CASE StopRequest \/ StopJoined \/ StopDrain
  BY <1>6 DEF StopRequest, StopJoined, StopDrain, InstrumentLossIsFlagged
<1> QED
  BY <1>1, <1>2, <1>3, <1>4, <1>5, <1>6 DEF Next, Drainer, Command

\* The first packet captured starts the tracker, any other is fed to it.
LEMMA CaptureTracked ==
  ASSUME Types, Tracked, DrainRead
  PROVE  Tracked'
<1>1. /\ queue # <<>> /\ Capture(Head(queue)) /\ UNCHANGED isn
  BY DEF DrainRead, linkVars
<1> DEFINE p == Head(queue).pkt
<1>2. p \in Nat \cup {Noise}
  <2>1. queue \in Seq(Clones)
    BY DEF Types
  <2>2. Len(queue) >= 1 /\ Len(queue) \in Nat /\ Head(queue) = queue[1] /\ Head(queue) \in Clones
    BY <1>1, <2>1, TailFacts
  <2> QED
    BY <2>2 DEF Clones
<1>3. mon_seq \in Trackers /\ heard \in SUBSET Nat /\ origin \in Nat /\ isn \in Int
  BY MonitorAssumption, Sizes DEF Types, TypeOK
<1>4. CASE p = Noise
  BY <1>1, <1>3, <1>4 DEF Capture, Tracked
<1>5. CASE p # Noise
  <2> DEFINE seq == SeqOf(p)
  <2>1. /\ mon_seq' = ci_seq_tracker_feed(mon_seq, seq) /\ heard' = heard \cup {p}
        /\ origin' = IF heard = {} THEN p ELSE origin
        /\ astray' = (astray \/ OutOfReach(p))
    BY <1>1, <1>5 DEF Capture
  <2>2. p \in Nat
    BY <1>2, <1>5
  <2> HIDE DEF p
  <2>3. seq \in Int /\ Cong(seq, isn + p, SeqSpace)
    <3>1. isn + p \in Int
      BY <1>3, <2>2
    <3> QED
      BY <3>1, Sizes, ModCong DEF SeqOf
  <2> HIDE DEF seq
  <2>4. CASE heard = {}
    <3>1. mon_seq = ci_seq_tracker_init /\ heard' = {p} /\ origin' = p
      BY <2>1, <2>4 DEF Tracked
    <3>2. mon_seq' \in Trackers /\ mon_seq'.first = seq /\ Represents(mon_seq', {p}, seq - p)
      BY <2>1, <2>2, <2>3, <3>1, FirstRepresents
    <3>3. Cong(seq - p, isn, SeqSpace)
      <4>1. Cong(p, p, SeqSpace) /\ isn + p \in Int /\ (isn + p) - p = isn
        BY <1>3, <2>2, Sizes, CongSame
      <4>2. Cong(seq - p, (isn + p) - p, SeqSpace)
        BY <2>2, <2>3, <4>1, Sizes, CongSub
      <4> QED
        BY <4>1, <4>2
    <3> QED
      BY <1>1, <3>1, <3>2, <3>3 DEF Tracked
  <2>5. CASE heard # {}
    <3> SUFFICES ASSUME ~astray' PROVE Tracked'
      BY <2>1, <2>5 DEF Tracked
    <3>1. /\ origin \in heard /\ Cong(mon_seq.first - origin, isn, SeqSpace)
          /\ Represents(mon_seq, heard, mon_seq.first - origin)
      BY <2>1, <2>5 DEF Tracked
    <3>2. p - Newest(heard) \in -Half .. Half - 1 /\ Newest(heard) - p < Win
      BY <2>1, <2>5 DEF OutOfReach
    <3>3. /\ mon_seq' \in Trackers /\ mon_seq'.first = mon_seq.first
          /\ Represents(mon_seq', heard \cup {p}, mon_seq.first - origin)
      <4> DEFINE u == ci_seq_tracker_feed(mon_seq, seq)
      <4>1. /\ u \in Trackers /\ u.first = mon_seq.first
            /\ Represents(u, heard \cup {p}, mon_seq.first - origin)
        BY <1>3, <2>2, <2>3, <3>1, <3>2, FeedRepresents
      <4> QED
        BY <2>1, <4>1
    <3>4. origin' = origin /\ heard' = heard \cup {p} /\ heard' # {}
      BY <2>1, <2>5
    <3> QED
      BY <1>1, <3>1, <3>3, <3>4 DEF Tracked
  <2> QED
    BY <2>4, <2>5
<1> QED
  BY <1>4, <1>5

LEMMA TrackedStep ==
  ASSUME Types, Tracked, [Next]_vars
  PROVE  Tracked'
<1> USE DEF linkVars, cspVars, cmdVars, drainVars, historyVars
<1>1. CASE DrainRead
  BY <1>1, CaptureTracked
<1>2. CASE DrainerInit
  BY <1>2 DEF DrainerInit, Tracked
<1>3. CASE \/ Cross \/ Borrow \/ GiveBack \/ DrainCheck \/ DrainTimeout \/ WindowOpen
           \/ WindowClose \/ WindowReread \/ Command \/ UNCHANGED vars
  <2>1. CASE Command
    BY <2>1 DEF Command, StartEnable, StartOpenFails, StartThreadFails, StartSucceeds,
       StopRequest, StopJoined, StopDrain, Tracked
  <2>2. CASE Cross \/ Borrow \/ GiveBack \/ DrainCheck \/ DrainTimeout
    BY <2>2 DEF Cross, Borrow, GiveBack, DrainCheck, DrainTimeout, Tracked
  <2>3. CASE WindowOpen \/ WindowClose \/ WindowReread \/ UNCHANGED vars
    BY <2>3 DEF WindowOpen, WindowClose, WindowReread, vars, Tracked
  <2> QED
    BY <1>3, <2>1, <2>2, <2>3
<1> QED
  BY <1>1, <1>2, <1>3 DEF Next, Drainer

-----------------------------------------------------------------------------
(* The theorems                                                            *)

LEMMA InitInv == Init => Inv
<1> SUFFICES ASSUME Init PROVE Inv
  OBVIOUS
<1> USE DEF Init
<1>1. queue = <<>> /\ Len(queue) = 0 /\ queue \in Seq(Clones) /\ 1 .. Len(queue) = {}
  OBVIOUS
<1>2. Types
  <2>1. Len(queue) <= QueueLen /\ Remaining >= 0
    BY <1>1, MonitorAssumption DEF Remaining
  <2>2. CounterMod - 1 \in 0 .. CounterMod - 1 /\ 0 \in 0 .. CounterMod - 1
    BY Sizes
  <2>3. crossed \in 0 .. MaxPackets /\ starts \in 0 .. MaxStarts
    BY MonitorAssumption
  <2>4. TypeOK
    <3>1. isn \in Isns /\ top \in Nat \cup {-1} /\ owed \in Int
      OBVIOUS
    <3>2. {conn_ovf, buffer_out, prev_ovf, prev_bout} \subseteq 0 .. CounterMod - 1
      BY <2>2
    <3>3. \A i \in 1 .. Len(queue) : queue[i].pkt \in Nat \cup {Noise} /\ queue[i].after \in 0 .. starts
      BY <1>1
    <3> QED
      BY <2>1, <2>3, <3>1, <3>2, <3>3 DEF TypeOK
  <2> QED
    BY <1>1, <2>4, FreshTracker DEF Types
<1>3. Control /\ Fresh /\ InstrumentLossIsFlagged /\ Counted
  BY <1>1 DEF Control, Fresh, InstrumentLossIsFlagged, Counted, Compared
<1>5. Tracked
  BY DEF Tracked
<1> QED
  BY <1>2, <1>3, <1>5 DEF Inv

LEMMA StepInv == Inv /\ [Next]_vars => Inv'
<1> SUFFICES ASSUME Inv, [Next]_vars PROVE Inv'
  OBVIOUS
<1> USE DEF Inv
<1>1. Types'
  BY TypesCross, TypesDrainRead, TypesOther, TypesCommand DEF Next, Drainer
<1>2. Control'
  BY ControlStep
<1>3. Fresh'
  BY FreshStep
<1>5. Counted'
  BY CountedStep
<1>6. InstrumentLossIsFlagged'
  BY FlagStep
<1>7. Tracked'
  BY TrackedStep
<1> QED
  BY <1>1, <1>2, <1>3, <1>5, <1>6, <1>7

LEMMA AlwaysInv == Spec => []Inv
  BY InitInv, StepInv, PTL DEF Spec

\* The monitor's state stays in its types: what is queued and borrowed fits the
\* pool, and no counter leaves its width.
THEOREM TypesHold == Spec => []TypeOK
<1>1. Inv => TypeOK
  BY DEF Inv, Types
<1> QED
  BY <1>1, AlwaysInv, PTL

\* The loss a run reports is that of the packets it captured, whatever wraps.
THEOREM LossCountsHolds == Spec => []LossCounts
<1>1. Inv => LossCounts
  <2> SUFFICES ASSUME Inv, heard # {}, ~astray PROVE LossCounts
    BY DEF LossCounts
  <2>1. /\ mon_seq \in Trackers /\ heard \in SUBSET Nat /\ origin \in heard
        /\ Represents(mon_seq, heard, mon_seq.first - origin)
    BY DEF Inv, Types, Tracked
  <2> QED
    BY <2>1, LossFacts DEF LossCounts, Represents
<1> QED
  BY <1>1, AlwaysInv, PTL

\* Whatever their width and however often they wrap: of the clones lost while the two
\* counters are compared the flagged rows of a run tell all but whole turns of a counter,
\* and never more.  The clones lost while they are not compared are in no row.
THEOREM InstrumentLossHolds == Spec => []InstrumentLossIsFlagged
<1>1. Inv => InstrumentLossIsFlagged
  BY DEF Inv
<1> QED
  BY <1>1, AlwaysInv, PTL

\* Nothing outlives a stop, and no capture sees what came before it, until a start
\* command fails.
THEOREM StopHolds == Spec => []StopLeavesNothing
<1>1. Inv => StopLeavesNothing
  BY DEF Inv, Fresh, StopLeavesNothing
<1> QED
  BY <1>1, AlwaysInv, PTL
-----------------------------------------------------------------------------
(* Short runs                                                              *)

\* Fewer packets than half the sequence space, and none later than the bitmap is wide.
ShortRun == Reach < Win /\ Reach < Half /\ MaxPackets * (MaxSkip + 1) < Half

\* In a short run: packets are at most Reach behind any that crossed before them, and
\* have come no further than the bounds let them.
Late ==
  /\ top + 1 <= crossed * (MaxSkip + 1)
  /\ \A q \in heard : q <= top
  /\ \A i \in 1 .. Len(queue) : queue[i].pkt <= top
  /\ \A i \in 1 .. Len(queue) : queue[i].pkt # Noise =>
       \A q \in heard : q <= queue[i].pkt + Reach
  /\ \A i, j \in 1 .. Len(queue) : j < i /\ queue[i].pkt # Noise =>
       queue[j].pkt <= queue[i].pkt + Reach

LEMMA LateStep ==
  ASSUME Types, Late, [Next]_vars
  PROVE  Late'
<1> USE DEF linkVars, cspVars, cmdVars, drainVars, historyVars
<1>1. /\ queue \in Seq(Clones) /\ heard \in SUBSET Nat /\ crossed \in Nat /\ MaxSkip \in Nat
      /\ top \in Int /\ Reach \in Nat /\ starts \in Nat
      /\ \A i \in 1 .. Len(queue) : queue[i].pkt \in Int
  BY Sizes DEF Types, TypeOK, Noise
<1>2. CASE Cross
  <2>1. heard' = heard /\ crossed' = crossed + 1
    BY <1>2 DEF Cross
  <2>2. top' \in Int /\ top <= top' /\ top' <= top + 1 + MaxSkip
    BY <1>2, CrossFacts
  <2>3. top' + 1 <= crossed' * (MaxSkip + 1)
    <3> DEFINE new  == top'
               most == crossed * (MaxSkip + 1)
    <3>1. (crossed + 1) * (MaxSkip + 1) = most + (MaxSkip + 1)
      BY <1>1
    <3>2. most \in Int /\ top + 1 <= most /\ top \in Int /\ MaxSkip \in Int
      BY <1>1 DEF Late
    <3>3. new \in Int /\ new <= top + 1 + MaxSkip
      BY <2>2
    <3> HIDE DEF most, new
    <3>4. new + 1 <= most + (MaxSkip + 1)
      BY <3>2, <3>3
    <3> QED
      BY <2>1, <3>1, <3>4 DEF new
  <2>4. \A q \in heard' : q <= top'
    BY <1>1, <2>1, <2>2 DEF Late
  <2>5. CASE queue' = queue
    <3>1. \A i \in 1 .. Len(queue) : queue[i].pkt <= top'
      BY <1>1, <2>2 DEF Late
    <3> QED
      BY <2>1, <2>3, <2>4, <2>5, <3>1 DEF Late
  <2>6. ASSUME NEW p \in Nat \cup {Noise}, p <= top', p # Noise => top <= p + Reach,
               queue' = Append(queue, [pkt |-> p, after |-> starts])
        PROVE  Late'
    <3>1. [pkt |-> p, after |-> starts] \in Clones /\ p \in Int
      BY <1>1 DEF Clones, Noise
    <3>2. /\ Len(queue') = Len(queue) + 1 /\ Len(queue) \in Nat
          /\ queue'[Len(queue) + 1].pkt = p
          /\ \A i \in 1 .. Len(queue) : queue'[i] = queue[i]
      BY <1>1, <2>6, <3>1, AppendFacts
    <3>3. \A i \in 1 .. Len(queue') : i \in 1 .. Len(queue) \/ i = Len(queue) + 1
      BY <3>2
    <3>4. \A i \in 1 .. Len(queue) : queue[i].pkt <= top
      BY DEF Late
    <3>5. \A i \in 1 .. Len(queue') : queue'[i].pkt <= top'
      BY <1>1, <2>2, <2>6, <3>2, <3>3, <3>4
    <3>6. \A i \in 1 .. Len(queue') : queue'[i].pkt # Noise =>
            \A q \in heard' : q <= queue'[i].pkt + Reach
      <4>1. p # Noise => \A q \in heard : q <= p + Reach
        BY <1>1, <2>6, <3>1 DEF Late
      <4>2. \A i \in 1 .. Len(queue) : queue[i].pkt # Noise =>
              \A q \in heard : q <= queue[i].pkt + Reach
        BY DEF Late
      <4> QED
        BY <2>1, <3>2, <3>3, <4>1, <4>2
    <3>7. \A i, j \in 1 .. Len(queue') : j < i /\ queue'[i].pkt # Noise =>
            queue'[j].pkt <= queue'[i].pkt + Reach
      <4> TAKE i, j \in 1 .. Len(queue')
      <4> HAVE j < i /\ queue'[i].pkt # Noise
      <4>1. j \in 1 .. Len(queue) /\ queue'[j] = queue[j]
        BY <3>2
      <4>2. CASE i \in 1 .. Len(queue)
        BY <3>2, <4>1, <4>2 DEF Late
      <4>3. CASE i = Len(queue) + 1
        BY <1>1, <2>6, <3>1, <3>2, <3>4, <4>1, <4>3
      <4> QED
        BY <3>3, <4>2, <4>3
    <3> QED
      BY <2>3, <2>4, <3>5, <3>6, <3>7 DEF Late
  <2> QED
    BY <1>2, <2>5, <2>6, CrossFacts
<1>3. CASE DrainRead
  <2>1. /\ queue # <<>> /\ queue' = Tail(queue) /\ UNCHANGED <<top, crossed>>
        /\ Capture(Head(queue))
    BY <1>3 DEF DrainRead
  <2>2. /\ Len(queue) >= 1 /\ Head(queue) = queue[1] /\ Len(queue) \in Nat
        /\ \A i \in 1 .. Len(queue') : i + 1 \in 1 .. Len(queue) /\ queue'[i] = queue[i + 1]
        /\ Len(queue') = Len(queue) - 1
    BY <1>1, <2>1, TailFacts
  <2>3. heard' \subseteq heard \cup {queue[1].pkt}
    BY <2>1, <2>2 DEF Capture
  <2>4. \A i \in 2 .. Len(queue) : queue[i].pkt # Noise =>
          \A q \in heard \cup {queue[1].pkt} : q <= queue[i].pkt + Reach
    BY <2>2 DEF Late
  <2>5. \A i \in 1 .. Len(queue') : queue'[i].pkt # Noise =>
          \A q \in heard' : q <= queue'[i].pkt + Reach
    <3>1. \A i \in 1 .. Len(queue') : i + 1 \in 2 .. Len(queue) /\ queue'[i] = queue[i + 1]
      BY <2>2
    <3> QED
      BY <2>3, <2>4, <3>1
  <2>6. \A q \in heard' : q <= top
    BY <2>2, <2>3 DEF Late
  <2>7. \A i \in 1 .. Len(queue') : queue'[i].pkt <= top
    BY <2>2 DEF Late
  <2>8. \A i, j \in 1 .. Len(queue') : j < i /\ queue'[i].pkt # Noise =>
          queue'[j].pkt <= queue'[i].pkt + Reach
    BY <2>2 DEF Late
  <2> QED
    BY <2>1, <2>5, <2>6, <2>7, <2>8 DEF Late
<1>4. CASE DrainerInit
  BY <1>4 DEF DrainerInit, Late
<1>5. CASE \/ Borrow \/ GiveBack \/ DrainCheck \/ DrainTimeout \/ WindowOpen
           \/ WindowClose \/ WindowReread \/ UNCHANGED vars
  <2>1. UNCHANGED <<top, crossed, queue, heard>>
    BY <1>5 DEF Borrow, GiveBack, DrainCheck, DrainTimeout, WindowOpen, WindowClose,
       WindowReread, vars
  <2> QED
    BY <2>1 DEF Late
<1>6. CASE StartEnable \/ StartOpenFails \/ StartThreadFails \/ StartSucceeds
  BY <1>6 DEF StartEnable, StartOpenFails, StartThreadFails, StartSucceeds, Late
<1>7. CASE StopRequest \/ StopJoined
  BY <1>7 DEF StopRequest, StopJoined, Late
<1>8. CASE StopDrain
  <2>1. UNCHANGED <<top, crossed, heard>> /\ 1 .. Len(queue') = {}
    BY <1>8 DEF StopDrain, mon_drain_residual
  <2> QED
    BY <2>1 DEF Late
<1> QED
  BY <1>2, <1>3, <1>4, <1>5, <1>6, <1>7, <1>8 DEF Next, Drainer, Command

\* Fewer packets cross the link than half the sequence space counts.
LEMMA NearTop ==
  ASSUME Types, Late, ShortRun
  PROVE  top < Half
<1>1. crossed \in 0 .. MaxPackets /\ crossed \in Nat /\ top \in Int
  BY DEF Types, TypeOK
<1>2. (MaxPackets - crossed) * (MaxSkip + 1) >= 0
  BY <1>1, Sizes
<1>3. crossed * (MaxSkip + 1) <= MaxPackets * (MaxSkip + 1)
  BY <1>1, <1>2, Sizes
<1> DEFINE a == crossed * (MaxSkip + 1)
           b == MaxPackets * (MaxSkip + 1)
<1>4. a \in Int /\ b \in Int /\ b < Half /\ top + 1 <= a /\ a <= b
  BY <1>1, <1>3, Sizes DEF Late, ShortRun
<1> HIDE DEF a, b
<1> QED
  BY <1>1, <1>4, Sizes

\* In a short run no packet is out of reach.
LEMMA InReachStep ==
  ASSUME Inv, Late, ~astray, ShortRun, [Next]_vars
  PROVE  ~astray'
<1> USE DEF linkVars, cspVars, cmdVars, drainVars, historyVars
<1>1. CASE DrainRead
  <2> DEFINE p == Head(queue).pkt
  <2>1. queue # <<>> /\ Capture(Head(queue))
    BY <1>1 DEF DrainRead
  <2>2. p \in Nat \cup {Noise} /\ p <= top /\ (p # Noise => \A q \in heard : q <= p + Reach)
    <3>1. queue \in Seq(Clones)
      BY DEF Inv, Types
    <3>2. Len(queue) >= 1 /\ Len(queue) \in Nat /\ Head(queue) = queue[1] /\ Head(queue) \in Clones
      BY <2>1, <3>1, TailFacts
    <3> QED
      BY <3>2 DEF Late, Clones
  <2>3. p = Noise => astray' = astray
    BY <2>1 DEF Capture
  <2>4. ASSUME p # Noise, heard # {}
        PROVE  p - Newest(heard) \in -Half .. Half - 1 /\ Newest(heard) - p < Win
    <3> DEFINE n == mon_seq.max - (mon_seq.first - origin)
    <3>1. n \in heard /\ \A q \in heard : q <= n
      <4>1. mon_seq.max \in Int /\ mon_seq.first - origin \in Int /\ heard \in SUBSET Nat
        BY DEF Inv, Types, Trackers
      <4>2. Represents(mon_seq, heard, mon_seq.first - origin)
        BY <2>4 DEF Inv, Tracked
      <4> DEFINE o == mon_seq.first - origin
      <4> HIDE DEF o
      <4>3. mon_seq.max - o \in heard /\ \A q \in heard : q + o <= mon_seq.max
        BY <4>2 DEF Represents, o
      <4>4. o \in Int
        BY <4>1 DEF o
      <4>5. \A q \in heard : q <= mon_seq.max - o
        BY <4>1, <4>3, <4>4
      <4> QED
        BY <4>3, <4>5 DEF o
    <3> HIDE DEF n, p
    <3>2. heard \in SUBSET Nat /\ n \in Nat /\ Newest(heard) = n
      <4>1. heard \in SUBSET Nat
        BY DEF Inv, Types
      <4> QED
        BY <3>1, <4>1, NewestIs
    <3>3. top < Half /\ top \in Int
      BY NearTop DEF Inv, Types, TypeOK
    <3>4. n <= top /\ n <= p + Reach /\ p \in Nat /\ p <= top
      BY <2>2, <2>4, <3>1 DEF Late
    <3> QED
      BY <3>2, <3>3, <3>4, Sizes DEF ShortRun
  <2>5. p # Noise => astray' = (astray \/ OutOfReach(p))
    BY <2>1 DEF Capture
  <2> QED
    BY <2>3, <2>4, <2>5 DEF OutOfReach
<1>2. CASE DrainerInit \/ DrainCheck \/ DrainTimeout \/ WindowOpen \/ WindowClose \/ WindowReread
  BY <1>2 DEF DrainerInit, DrainCheck, DrainTimeout, WindowOpen, WindowClose, WindowReread
<1>3. CASE Cross \/ Borrow \/ GiveBack \/ UNCHANGED vars
  BY <1>3 DEF Cross, Borrow, GiveBack, vars
<1>4. CASE Command
  BY <1>4 DEF Command, StartEnable, StartOpenFails, StartThreadFails, StartSucceeds, StopRequest,
     StopJoined, StopDrain
<1> QED
  BY <1>1, <1>2, <1>3, <1>4 DEF Next, Drainer

\* The condition of LossCounts is met by every run of fewer packets than half the
\* sequence space, 32768 in the code, whose late packets are fewer than its bitmap is
\* wide, 2048, behind.
THEOREM ShortRunsInReach == ASSUME ShortRun PROVE Spec => []~astray
<1>1. Init => Late /\ ~astray
  <2> SUFFICES ASSUME Init PROVE Late /\ ~astray
    OBVIOUS
  <2>1. queue = <<>> /\ 1 .. Len(queue) = {} /\ heard = {} /\ top = -1 /\ crossed = 0 /\ ~astray
    BY DEF Init
  <2> QED
    BY <2>1, Sizes DEF Late
<1>2. Inv /\ Late /\ ~astray /\ [Next]_vars => (Late /\ ~astray)'
  BY InReachStep, LateStep DEF Inv
<1> QED
  BY <1>1, <1>2, AlwaysInv, PTL DEF Spec
=============================================================================

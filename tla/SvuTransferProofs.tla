------------------------- MODULE SvuTransferProofs --------------------------
(***************************************************************************)
(* Proofs about SvuTransfer and the operators of SvuTracker it is built    *)
(* from, for every file set, geometry, word size and bound.                *)
(***************************************************************************)
EXTENDS SvuTransfer, FiniteSetTheorems, SequenceTheorems, WellFoundedInduction, TLAPS

-----------------------------------------------------------------------------
(* What the operators of ci_svu.c guarantee                                *)

\* A fact about integer division, stated once for the lemmas below.
LEMMA DivFacts ==
  ASSUME NEW a \in Nat, NEW d \in Nat \ {0}
  PROVE  /\ a \div d \in Nat
         /\ (a \div d) * d <= a
         /\ a < (a \div d + 1) * d
  OBVIOUS

\* Division is monotonic.
LEMMA DivMonotonic ==
  ASSUME NEW a \in Nat, NEW c \in Nat, NEW d \in Nat \ {0}, a < c
  PROVE  a \div d <= (c + d - 1) \div d - 1
<1> DEFINE q == a \div d
           r == (c + d - 1) \div d
<1>1. q \in Nat /\ q * d <= a
  BY DivFacts
<1>2. c + d - 1 \in Nat
  OBVIOUS
<1>3. r \in Nat /\ c + d - 1 < (r + 1) * d
  BY <1>2, DivFacts
<1>4. (q + 1) * d < (r + 1) * d
  BY <1>1, <1>3
<1>5. q + 1 < r + 1
  BY <1>1, <1>3, <1>4
<1> QED
  BY <1>1, <1>3, <1>5

\* ci_svu_nblocks never returns a wrong non-zero count: when the uint32_t sum
\* wraps, the result is 0, which ci_svu_new refuses.
THEOREM NblocksNeverWrong ==
  ASSUME NEW total \in Nat, total < Word, ci_svu_nblocks(total) # 0
  PROVE  /\ total # 0
         /\ total + BlockSize - 1 < Word
         /\ ci_svu_nblocks(total) = (total + BlockSize - 1) \div BlockSize
<1> DEFINE sum == total + BlockSize - 1
<1>1. total # 0 /\ sum \in Nat /\ BlockSize \in Nat \ {0} /\ Word \in Nat \ {0}
  BY BlockAssumption DEF ci_svu_nblocks
<1>2. ci_svu_nblocks(total) = (sum % Word) \div BlockSize
  BY <1>1 DEF ci_svu_nblocks
<1>3. ASSUME sum >= Word PROVE FALSE
  <2>1. sum % Word = sum - Word
    BY <1>1, <1>3, BlockAssumption
  <2>2. sum - Word \in Nat /\ sum - Word < BlockSize
    BY <1>1, <1>3, BlockAssumption
  <2>3. (sum - Word) \div BlockSize = 0
    BY <1>1, <2>2
  <2> QED
    BY <1>2, <2>1, <2>3
<1>4. sum % Word = sum
  BY <1>1, <1>3
<1> QED
  BY <1>1, <1>2, <1>3, <1>4

\* The blocks cover the payload: byte i is in block i \div BlockSize.
LEMMA BlocksCover ==
  ASSUME NEW total \in Nat, total < Word, ci_svu_nblocks(total) # 0,
         NEW i \in 0 .. total - 1
  PROVE  /\ i \div BlockSize \in 0 .. ci_svu_nblocks(total) - 1
         /\ i \in BlockBytes(total, i \div BlockSize)
<1>1. BlockSize \in Nat \ {0} /\ i \in Nat
  BY BlockAssumption
<1>2. /\ i \div BlockSize \in Nat
      /\ (i \div BlockSize) * BlockSize <= i
      /\ i < (i \div BlockSize + 1) * BlockSize
  BY <1>1, DivFacts
<1>3. i \div BlockSize <= (total + BlockSize - 1) \div BlockSize - 1
  BY <1>1, DivMonotonic
<1>4. ci_svu_nblocks(total) = (total + BlockSize - 1) \div BlockSize
  BY NblocksNeverWrong
<1>5. (total + BlockSize - 1) \div BlockSize \in Nat
  BY <1>1, DivFacts
<1>6. i \in BlockBytes(total, i \div BlockSize)
  BY <1>2 DEF BlockBytes
<1> QED
  BY <1>2, <1>3, <1>4, <1>5, <1>6

\* A payload that hashes, block by block, to the manifest of a file is that file:
\* the digests leave no byte of the payload unchecked.
THEOREM ManifestDetermines ==
  ASSUME NEW f \in Seq(Byte), NEW d \in Seq(Byte),
         Len(d) = Len(f), Len(f) < Word, ci_svu_nblocks(Len(f)) # 0,
         \A b \in 0 .. ci_svu_nblocks(Len(f)) - 1 :
           hash_block(d, b) = ci_svu_manifest(f)[b]
  PROVE  d = f
<1>1. ASSUME NEW k \in 1 .. Len(f) PROVE d[k] = f[k]
  <2> DEFINE i == k - 1
             b == i \div BlockSize
  <2>1. i \in 0 .. Len(f) - 1 /\ i + 1 = k
    OBVIOUS
  <2>2. b \in 0 .. ci_svu_nblocks(Len(f)) - 1 /\ i \in BlockBytes(Len(f), b)
    BY <2>1, BlocksCover
  <2>3. hash_block(d, b) = hash_block(f, b)
    BY <2>2 DEF ci_svu_manifest
  <2>4. hash_block(d, b)[i] = d[i + 1] /\ hash_block(f, b)[i] = f[i + 1]
    BY <2>2 DEF hash_block
  <2> QED
    BY <2>1, <2>3, <2>4
<1> QED
  BY <1>1

-----------------------------------------------------------------------------
(* The tracker                                                             *)

\* The offsets of a payload of n bytes.
LEMMA OffsetsFinite ==
  ASSUME NEW n \in Nat
  PROVE  IsFiniteSet(0 .. n - 1) /\ Cardinality(0 .. n - 1) = n
<1>1. 0 \in Int /\ n - 1 \in Int
  OBVIOUS
<1>2. IsFiniteSet(0 .. n - 1) /\ Cardinality(0 .. n - 1) = IF 0 > n - 1 THEN 0 ELSE n - 1 - 0 + 1
  BY <1>1, FS_Interval
<1> QED
  BY <1>2

\* A new tracker is well formed.
LEMMA NewOK ==
  ASSUME NEW total \in Nat, NEW expected, NEW nblocks \in Nat,
         ci_svu_new(total, expected, nblocks) # NoTracker, total < Word
  PROVE  LET s == ci_svu_new(total, expected, nblocks)
         IN  TrackerOK(s) /\ s.total = total /\ s.expected = expected
<1> DEFINE s == ci_svu_new(total, expected, nblocks)
<1>1. nblocks # 0 /\ nblocks = ci_svu_nblocks(total)
  BY DEF ci_svu_new
<1>2. s = [total |-> total, nblocks |-> nblocks, covered_count |-> 0, covered |-> {},
           data |-> [i \in 1 .. total |-> 0], expected |-> expected]
  BY <1>1 DEF ci_svu_new
<1>3. total # 0
  BY <1>1 DEF ci_svu_nblocks
<1>4. Cardinality({}) = 0
  BY FS_EmptySet
<1> QED
  BY <1>1, <1>2, <1>3, <1>4, ByteAssumption DEF TrackerOK

\* Accepting a fragment keeps the tracker well formed, and in particular keeps
\* covered_count equal to the number of distinct bytes covered, whatever the
\* fragment overlaps.
THEOREM AcceptOK ==
  ASSUME NEW s, TrackerOK(s), NEW off \in Nat, NEW buf \in Seq(Byte)
  PROVE  LET t == ci_svu_accept(s, off, buf)
         IN  /\ TrackerOK(t)
             /\ t.total = s.total
             /\ t.nblocks = s.nblocks
             /\ t.expected = s.expected
<1> DEFINE t == ci_svu_accept(s, off, buf)
           new == Span(off, buf) \ s.covered
<1>1. CASE ~Fits(s, off, buf)
  BY <1>1 DEF ci_svu_accept
<1>2. CASE Fits(s, off, buf)
  <2> DEFINE d == [i \in 1 .. s.total |->
                     IF i - 1 \in Span(off, buf) THEN buf[i - off] ELSE s.data[i]]
  <2>1. t = [s EXCEPT !.covered = s.covered \cup Span(off, buf),
                      !.covered_count = s.covered_count + Cardinality(new),
                      !.data = d]
    BY <1>2 DEF ci_svu_accept
  <2>2. /\ s.total \in Nat \ {0}
        /\ s.covered \subseteq 0 .. s.total - 1
        /\ Span(off, buf) \subseteq 0 .. s.total - 1
    BY <1>2 DEF Fits, Span, TrackerOK
  <2>3. d \in [1 .. s.total -> Byte]
    <3>1. ASSUME NEW i \in 1 .. s.total, i - 1 \in Span(off, buf)
          PROVE  buf[i - off] \in Byte
      BY <2>2, <3>1 DEF Span
    <3> QED
      BY <3>1 DEF TrackerOK
  <2>4. Cardinality(s.covered \cup Span(off, buf)) = s.covered_count + Cardinality(new)
    <3>1. IsFiniteSet(s.covered) /\ IsFiniteSet(new)
      <4>1. IsFiniteSet(0 .. s.total - 1)
        BY <2>2, OffsetsFinite
      <4>2. new \subseteq 0 .. s.total - 1
        BY <2>2
      <4> QED
        BY <2>2, <4>1, <4>2, FS_Subset
    <3>2. s.covered \cap new = {} /\ s.covered \cup Span(off, buf) = s.covered \cup new
      OBVIOUS
    <3>3. Cardinality({}) = 0 /\ Cardinality(s.covered) \in Nat /\ Cardinality(new) \in Nat
      BY <3>1, FS_EmptySet, FS_CardinalityType
    <3>4. Cardinality(s.covered \cup new)
            = Cardinality(s.covered) + Cardinality(new) - Cardinality(s.covered \cap new)
      BY <3>1, FS_Union
    <3>5. s.covered_count = Cardinality(s.covered)
      BY DEF TrackerOK
    <3>6. Cardinality(s.covered \cup new) = Cardinality(s.covered) + Cardinality(new)
      <4> HIDE DEF new
      <4>1. Cardinality(s.covered \cap new) = 0
        BY <3>2, <3>3
      <4> QED
        BY <3>3, <3>4, <4>1
    <3> QED
      BY <3>2, <3>5, <3>6
  <2>5. /\ t = [total |-> s.total, nblocks |-> s.nblocks,
                covered_count |-> s.covered_count + Cardinality(new),
                covered |-> s.covered \cup Span(off, buf),
                data |-> d, expected |-> s.expected]
    BY <2>1 DEF TrackerOK
  <2> QED
    BY <2>2, <2>3, <2>4, <2>5 DEF TrackerOK
<1> QED
  BY <1>1, <1>2

\* A tracker that reports COMPLETE_VERIFIED has every byte covered and every
\* block equal to its digest.
LEMMA VerifiedIsWhole ==
  ASSUME NEW s, TrackerOK(s), Status(s) = "COMPLETE_VERIFIED"
  PROVE  /\ s.covered = 0 .. s.total - 1
         /\ \A b \in 0 .. s.nblocks - 1 : hash_block(s.data, b) = s.expected[b]
<1>1. s.covered_count >= s.total /\ BadBlocks(s) = {}
  <2>1. s.covered_count \in Nat /\ s.total \in Nat
    <3>1. IsFiniteSet(0 .. s.total - 1)
      BY OffsetsFinite DEF TrackerOK
    <3>2. IsFiniteSet(s.covered)
      BY <3>1, FS_Subset DEF TrackerOK
    <3> QED
      BY <3>2, FS_CardinalityType DEF TrackerOK
  <2>2. CASE s.covered_count < s.total
    BY <2>1, <2>2 DEF Status
  <2>3. CASE s.covered_count >= s.total /\ BadBlocks(s) # {}
    BY <2>1, <2>3 DEF Status
  <2> QED
    BY <2>1, <2>2, <2>3
<1>2. IsFiniteSet(0 .. s.total - 1) /\ Cardinality(0 .. s.total - 1) = s.total
  BY OffsetsFinite DEF TrackerOK
<1>3. Cardinality(s.covered) <= s.total /\ Cardinality(s.covered) \in Nat
  BY <1>2, FS_Subset, FS_CardinalityType DEF TrackerOK
<1>4. s.covered = 0 .. s.total - 1
  BY <1>1, <1>2, <1>3, FS_Subset DEF TrackerOK
<1> QED
  BY <1>1, <1>4 DEF BadBlocks

-----------------------------------------------------------------------------
(* The inductive invariant                                                 *)

\* The client waits for one answer at most, and only while it has read none.
OneLiveRequest ==
  /\ \A i \in 1 .. Len(backlog) : backlog[i].live => pc = "hdr" /\ reply = <<>>
  /\ \A i, j \in 1 .. Len(backlog) : backlog[i].live /\ backlog[j].live => i = j

\* Outside an exchange nothing is left of it.
ClosedConn == pc \notin {"hdr", "man"} => reply = <<>> /\ man = <<>>

\* Packet k of the answer that is still to come, counted with the chunks already
\* read, is packet k of the response or a later one, and is late by no more than
\* the number of packets that were lost.
AnswerInOrder ==
  LET n    == ci_svu_nblocks(Len(rfile))
      lost == n - Len(man) - Len(reply)
  IN /\ pc = "hdr" =>
          /\ man = <<>>
          /\ Len(reply) <= n + 1
          /\ \A k \in 1 .. Len(reply) :
               k - 1 <= reply[k] /\ reply[k] <= k + lost
     /\ pc = "man" =>
          /\ lost >= 0
          /\ \A k \in 1 .. Len(man) : k <= man[k] /\ man[k] <= k + lost
          /\ \A k \in 1 .. Len(reply) :
               Len(man) + k <= reply[k] /\ reply[k] <= Len(man) + k + lost

\* The tracker expects the manifest of a file that was served.
GenuineManifest ==
  recv # NoTracker =>
    \E f \in offered : recv.total = Len(f) /\ recv.expected = ci_svu_manifest(f)

\* Where the call stands, and what it has done to the output file.
Progress ==
  /\ src \in offered
  /\ rfile \in offered
  /\ pc \in {"drain", "open", "write"} => recv # NoTracker
  /\ pc \in {"open", "write"} => Status(recv) = "COMPLETE_VERIFIED"
  /\ pc \notin {"write", "done"} => disk = None
  /\ pc = "write" => disk # None
  /\ result = "running" <=> pc # "done"

IInv ==
  /\ TypeOK
  /\ Progress
  /\ OneLiveRequest
  /\ ClosedConn
  /\ ~CtrlMayDuplicate => AnswerInOrder /\ GenuineManifest
  /\ ~CtrlMayDuplicate /\ ~DiskMayFill => VerifiedMeansSource

-----------------------------------------------------------------------------
(* Facts about what travels                                                *)

\* Losing one packet of a sequence.
LEMMA RemoveAtFacts ==
  ASSUME NEW S, NEW seq \in Seq(S), NEW i \in 1 .. Len(seq)
  PROVE  /\ RemoveAt(seq, i) \in Seq(S)
         /\ Len(RemoveAt(seq, i)) = Len(seq) - 1
         /\ \A k \in 1 .. Len(seq) - 1 :
              RemoveAt(seq, i)[k] = IF k < i THEN seq[k] ELSE seq[k + 1]
<1> DEFINE s1 == SubSeq(seq, 1, i - 1)
           s2 == SubSeq(seq, i + 1, Len(seq))
<1>1. /\ s1 \in Seq(S) /\ Len(s1) = i - 1
      /\ \A k \in 1 .. i - 1 : s1[k] = seq[k]
  OBVIOUS
<1>2. /\ s2 \in Seq(S) /\ Len(s2) = Len(seq) - i
      /\ \A k \in 1 .. Len(seq) - i : s2[k] = seq[k + i]
  OBVIOUS
<1> DEFINE t == s1 \o s2
<1>3. /\ t \in Seq(S) /\ Len(t) = Len(s1) + Len(s2)
      /\ \A k \in 1 .. Len(s1) + Len(s2) :
           t[k] = IF k <= Len(s1) THEN s1[k] ELSE s2[k - Len(s1)]
  <2> HIDE DEF s1, s2
  <2> QED
    BY <1>1, <1>2, ConcatProperties
<1>4. RemoveAt(seq, i) = t
  BY DEF RemoveAt
<1> HIDE DEF s1, s2, t
<1>5. ASSUME NEW k \in 1 .. Len(seq) - 1
      PROVE  t[k] = IF k < i THEN seq[k] ELSE seq[k + 1]
  <2>0. k \in 1 .. Len(s1) + Len(s2) /\ k \in Int /\ i \in Int
    BY <1>1, <1>2
  <2>1. CASE k < i
    <3>1. k \in 1 .. i - 1 /\ k <= Len(s1)
      BY <1>1, <2>0, <2>1
    <3>2. t[k] = s1[k]
      BY <1>3, <2>0, <3>1
    <3>3. s1[k] = seq[k]
      BY <1>1, <3>1
    <3> QED
      BY <2>1, <3>2, <3>3
  <2>2. CASE ~(k < i)
    <3>1. k - (i - 1) \in 1 .. Len(seq) - i /\ k - (i - 1) + i = k + 1
      BY <2>2
    <3>2. s2[k - (i - 1)] = seq[k - (i - 1) + i]
      BY <1>2, <3>1
    <3>3. t[k] = s2[k - (i - 1)]
      <4>1. ~(k <= Len(s1)) /\ Len(s1) = i - 1
        BY <1>1, <2>0, <2>2
      <4> QED
        BY <1>3, <2>0, <4>1
    <3> QED
      BY <2>2, <3>1, <3>2, <3>3
  <2> QED
    BY <2>1, <2>2
<1>6. t \in Seq(S) /\ Len(t) = Len(seq) - 1
  <2>1. Len(s1) + Len(s2) = Len(seq) - 1
    BY <1>1, <1>2
  <2> QED
    BY <1>3, <2>1
<1>7. \A k \in 1 .. Len(seq) - 1 : t[k] = IF k < i THEN seq[k] ELSE seq[k + 1]
  BY <1>5
<1> QED
  BY <1>4, <1>6, <1>7

\* Repeating one packet of a sequence.
LEMMA InsertAtType ==
  ASSUME NEW S, NEW seq \in Seq(S), NEW i \in 1 .. Len(seq), NEW e \in S
  PROVE  InsertAt(seq, i, e) \in Seq(S)
  BY DEF InsertAt

\* A block count is a number.
LEMMA NblocksType ==
  ASSUME NEW total \in Nat
  PROVE  ci_svu_nblocks(total) \in Nat
<1>1. Word \in Nat \ {0} /\ BlockSize \in Nat \ {0}
  BY BlockAssumption
<1>2. (total + BlockSize - 1) % Word \in Nat
  BY <1>1
<1>3. ((total + BlockSize - 1) % Word) \div BlockSize \in Nat
  BY <1>1, <1>2, DivFacts
<1> QED
  BY <1>3 DEF ci_svu_nblocks

\* The frames of a blast are data frames.
LEMMA BlastType ==
  ASSUME NEW f \in Seq(Byte), NEW req \in SUBSET Interval
  PROVE  BlastAll(f, req) \subseteq Frame
<1>1. ASSUME NEW iv \in BlastRanges(f, req)
      PROVE  /\ iv[1] \in Nat /\ iv[2] \in Nat
             /\ iv[1] < iv[2] /\ iv[2] <= Len(f)
  <2>1. CASE req = {}
    BY <2>1 DEF BlastRanges
  <2>2. CASE req # {}
    BY <2>2 DEF BlastRanges, Interval
  <2> QED
    BY <2>1, <2>2
<1>2. ASSUME NEW iv \in BlastRanges(f, req), NEW fr \in blast_interval(f, iv)
      PROVE  fr \in Frame
  <2>1. PICK o \in iv[1] .. iv[2] - 1 :
          fr = [off |-> o,
                bytes |-> SubSeq(f, o + 1, IF o + Pay <= iv[2] THEN o + Pay ELSE iv[2])]
    BY DEF blast_interval
  <2> DEFINE last == IF o + Pay <= iv[2] THEN o + Pay ELSE iv[2]
  <2>2. o \in Nat /\ last \in Nat /\ last <= Len(f)
    BY <1>1, TransferAssumption
  <2>3. SubSeq(f, o + 1, last) \in Seq(Byte)
    BY <2>2
  <2> QED
    BY <2>1, <2>2, <2>3 DEF Frame
<1> QED
  BY <1>2 DEF BlastAll

\* A damaged frame is still a frame.
LEMMA DamagedType ==
  ASSUME NEW fr \in Frame, src \in Seq(Byte)
  PROVE  Damaged(fr) \subseteq Frame
  BY SMTT(60) DEF Damaged, Frame

\* The ranges a tracker reports are intervals.
LEMMA RangesType ==
  ASSUME NEW s, TrackerOK(s)
  PROVE  ci_svu_verify(s, MaxIntervals).out \subseteq Interval
<1>1. s.total \in Nat /\ s.nblocks \in Int
  BY NblocksType DEF TrackerOK
<1>2. MissingRuns(s) \subseteq Interval
  BY <1>1 DEF MissingRuns, Interval
<1>3. ASSUME NEW b \in 0 .. s.nblocks - 1
      PROVE  BlockRange(s, b) \in Interval
  <2>1. b \in Nat /\ b * BlockSize \in Nat /\ (b + 1) * BlockSize \in Nat
    BY <1>1, BlockAssumption
  <2> QED
    BY <1>1, <2>1 DEF BlockRange, Interval
<1>4. DamagedRanges(s) \subseteq Interval
  BY <1>2, <1>3 DEF DamagedRanges, BadBlocks
<1> QED
  BY <1>4 DEF ci_svu_verify, FirstRanges

-----------------------------------------------------------------------------
(* Type correctness                                                        *)

\* The bounds.
LEMMA FaultType ==
  ASSUME faults \in 0 .. MaxFaults, Fault
  PROVE  faults' \in 0 .. MaxFaults
  BY TransferAssumption DEF Fault

LEMMA RestartsType ==
  ASSUME restarts \in 0 .. MaxRestarts, restarts < MaxRestarts, restarts' = restarts + 1
  PROVE  restarts' \in 0 .. MaxRestarts
  BY TransferAssumption

\* Closing a connection keeps the control channel well typed.
LEMMA CloseConnType ==
  ASSUME backlog \in Seq(Request), rfile \in Files, CloseConn
  PROVE  /\ backlog' \in Seq(Request) /\ Len(backlog') = Len(backlog)
         /\ reply' \in Seq(Nat) /\ man' \in Seq(Nat) /\ rfile' \in Files
<1>1. ASSUME NEW i \in 1 .. Len(backlog)
      PROVE  [backlog[i] EXCEPT !.live = FALSE] \in Request
  <2>1. backlog[i] \in Request
    OBVIOUS
  <2> QED
    BY <2>1 DEF Request
<1>2. /\ backlog' \in [1 .. Len(backlog) -> Request]
      /\ reply' = <<>> /\ man' = <<>> /\ rfile' = rfile
  BY <1>1 DEF CloseConn
<1>3. backlog' \in Seq(Request) /\ Len(backlog') = Len(backlog)
  BY <1>2
<1> QED
  BY <1>2, <1>3

\* The request at the head of the backlog.
LEMMA HeadRequest ==
  ASSUME backlog \in Seq(Request), backlog # <<>>
  PROVE  /\ Head(backlog) = backlog[1] /\ Len(backlog) >= 1
         /\ Head(backlog).ivs \in SUBSET Interval
<1>1. Head(backlog) = backlog[1] /\ backlog[1] \in Request /\ Len(backlog) >= 1
  OBVIOUS
<1> QED
  BY <1>1 DEF Request

\* The response to a request, header first.
LEMMA PacketsType ==
  ASSUME NEW f \in Seq(Byte)
  PROVE  /\ Packets(f) \in Seq(Nat)
         /\ Len(Packets(f)) = ci_svu_nblocks(Len(f)) + 1
         /\ \A k \in 1 .. ci_svu_nblocks(Len(f)) + 1 : Packets(f)[k] = k - 1
         /\ ci_svu_nblocks(Len(f)) \in Nat
<1> DEFINE n == ci_svu_nblocks(Len(f))
<1>1. n \in Nat
  BY NblocksType
<1> HIDE DEF n
<1>2. [k \in 1 .. n + 1 |-> k - 1] \in Seq(Nat) /\ Len([k \in 1 .. n + 1 |-> k - 1]) = n + 1
  BY <1>1
<1> QED
  BY <1>1, <1>2 DEF Packets, n

\* A well-formed tracker holds a byte sequence.
LEMMA DataIsSeq ==
  ASSUME NEW s, TrackerOK(s)
  PROVE  s.total \in Nat \ {0} /\ s.data \in Seq(Byte) /\ Len(s.data) = s.total
<1>1. s.total \in Nat \ {0} /\ s.data \in [1 .. s.total -> Byte]
  BY DEF TrackerOK
<1> QED
  BY <1>1

\* One pass of the serve loop keeps the state well typed.
LEMMA ServeWithType ==
  ASSUME TypeOK, NEW packets \in Seq(Nat), NEW frames \in SUBSET Frame,
         ServeWith(packets, frames), faults' \in 0 .. MaxFaults
  PROVE  TypeOK'
<1>1. backlog' \in Seq(Request)
  BY DEF ServeWith, TypeOK
<1>2. data' \subseteq Frame
  BY DEF ServeWith, TypeOK
<1> QED
  BY <1>1, <1>2 DEF ServeWith, TypeOK, senderVars, clientVars

\* Every step of the specification keeps the state well typed.
LEMMA TypeStep ==
  ASSUME TypeOK, Progress, [Next]_vars
  PROVE  TypeOK'
<1>0. Files \subseteq Seq(Byte) /\ \A f \in Files : Len(f) \in Nat /\ Len(f) < Word
  BY TransferAssumption
<1>a. /\ MaxRounds \in Nat /\ Attempts \in Nat
  BY TransferAssumption
<1>1. CASE CtrlSend
  <2>1. backlog' \in Seq(Request)
    BY <1>1 DEF CtrlSend, TypeOK, Request
  <2> QED
    BY <1>1, <1>a, <2>1 DEF CtrlSend, TypeOK, senderVars, PCs
<1>2. CASE ReadHeader
  <2>1. CASE Head(reply) = 0
    <3>1. reply' \in Seq(Nat)
      <4>1. reply \in Seq(Nat) /\ reply # <<>> /\ reply' = Tail(reply)
        BY <1>2, <2>1 DEF ReadHeader, TypeOK
      <4> QED
        BY <4>1
    <3> QED
      BY <1>2, <2>1, <3>1 DEF ReadHeader, TypeOK, senderVars, PCs
  <2>2. CASE Head(reply) # 0
    BY <1>2, <2>2, CloseConnType
    DEF ReadHeader, AttemptFailed, Return, TypeOK, senderVars, PCs
  <2> QED
    BY <2>1, <2>2
<1>3. CASE ReadChunk
  BY <1>3, SMTT(60) DEF ReadChunk, TypeOK, senderVars, clientVars
<1>4. CASE CtrlTimeout
  BY <1>4, CloseConnType, FaultType
  DEF CtrlTimeout, AttemptFailed, Return, TypeOK, senderVars, PCs
<1>5. CASE ExchangeDone
  <2>1. rfile \in Seq(Byte) /\ Len(rfile) \in Nat /\ Len(rfile) < Word /\ Len(man) \in Nat
    BY <1>0 DEF TypeOK
  <2>2. recv' # NoTracker => TrackerOK(recv')
    BY <1>5, <2>1, NewOK DEF ExchangeDone, Return, TypeOK
  <2> QED
    BY <1>5, <2>2, CloseConnType DEF ExchangeDone, Return, TypeOK, senderVars, PCs
<1>6. CASE RecvData
  <2>1. recv # NoTracker /\ TrackerOK(recv)
    BY <1>6 DEF RecvData, TypeOK, Progress
  <2>2. TrackerOK(recv')
    <3>1. PICK fr \in data : recv' = ci_svu_accept(recv, fr.off, fr.bytes)
      BY <1>6 DEF RecvData
    <3>2. fr.off \in Nat /\ fr.bytes \in Seq(Byte)
      BY DEF TypeOK, Frame
    <3> QED
      BY <2>1, <3>1, <3>2, AcceptOK
  <2> QED
    BY <1>6, <2>2, FaultType DEF RecvData, TypeOK, senderVars, ctrlVars
<1>7. CASE DrainIdle
  <2>1. recv # NoTracker /\ TrackerOK(recv)
    BY <1>7 DEF DrainIdle, TypeOK, Progress
  <2>2. ci_svu_verify(recv, MaxIntervals).out \subseteq Interval
    BY <2>1, RangesType
  <2>3. faults' \in 0 .. MaxFaults
    BY <1>7, FaultType DEF DrainIdle, IdleWindow, TypeOK
  <2> DEFINE out == ci_svu_verify(recv, MaxIntervals).out
  <2>4. UNCHANGED <<senderVars, ctrlVars, disk>>
    BY <1>7 DEF DrainIdle
  <2>5. CASE DrainVerified
    BY <2>3, <2>4, <2>5 DEF DrainVerified, TypeOK, senderVars, ctrlVars, PCs
  <2>6. CASE DrainAgain
    BY <2>3, <2>4, <2>6 DEF DrainAgain, TypeOK, senderVars, ctrlVars, PCs
  <2>7. CASE NextRound(out)
    BY <1>a, <2>2, <2>3, <2>4, <2>7 DEF NextRound, TypeOK, senderVars, ctrlVars, PCs
  <2>8. CASE GiveUp
    BY <2>3, <2>4, <2>8 DEF GiveUp, Return, TypeOK, senderVars, ctrlVars, PCs
  <2> QED
    BY <1>7, <2>5, <2>6, <2>7, <2>8 DEF DrainIdle
<1>8. CASE OpenOutput
  <2>1. disk' # None => disk' \in Seq(Byte)
    <3>1. <<>> \in Seq(Byte)
      OBVIOUS
    <3>2. disk' = <<>> \/ disk' = disk
      BY <1>8 DEF OpenOutput, OpenFails
    <3> QED
      BY <3>1, <3>2 DEF TypeOK
  <2> QED
    BY <1>8, <2>1 DEF OpenOutput, OpenFails, Return, TypeOK, senderVars, ctrlVars, PCs
<1>9. CASE WriteOutput
  <2>1. recv.total \in Nat /\ recv.data \in Seq(Byte) /\ Len(recv.data) = recv.total
    BY <1>9, DataIsSeq DEF WriteOutput, TypeOK, Progress
  <2>2. disk' \in Seq(Byte)
    BY <1>9, <2>1 DEF WriteOutput
  <2> QED
    BY <1>9, <2>2 DEF WriteOutput, Return, TypeOK, senderVars, ctrlVars, PCs
<1>10. CASE Serve
  <2>1. Head(backlog).ivs \in SUBSET Interval /\ src \in Seq(Byte)
    BY <1>0, <1>10, HeadRequest DEF Serve, TypeOK
  <2>2. Packets(src) \in Seq(Nat)
    BY <2>1, PacketsType
  <2> QED
    BY <1>10, <2>1, <2>2, BlastType, ServeWithType DEF Serve, TypeOK
<1>11. CASE ServeShort
  <2>1. Head(backlog).ivs \in SUBSET Interval /\ src \in Seq(Byte)
    BY <1>0, <1>11, HeadRequest DEF ServeShort, TypeOK
  <2>2. Packets(src) \in Seq(Nat) /\ Len(Packets(src)) = ci_svu_nblocks(Len(src)) + 1
    BY <2>1, PacketsType
  <2>3. PICK n \in 0 .. ci_svu_nblocks(Len(src)) + 1,
             cut \in [BlastRanges(src, Head(backlog).ivs) -> 0 .. Len(src)] :
          ServeWith(SubSeq(Packets(src), 1, n), BlastCut(src, Head(backlog).ivs, cut))
    BY <1>11 DEF ServeShort
  <2>4. SubSeq(Packets(src), 1, n) \in Seq(Nat)
    BY <2>1, <2>2, PacketsType
  <2>5. BlastCut(src, Head(backlog).ivs, cut) \in SUBSET Frame
    BY <2>1, BlastType DEF BlastCut
  <2>6. faults' \in 0 .. MaxFaults
    BY <1>11, FaultType DEF ServeShort, TypeOK
  <2> QED
    BY <2>3, <2>4, <2>5, <2>6, ServeWithType
<1>12. CASE Restart
  BY <1>12, RestartsType DEF Restart, TypeOK, clientVars
<1>13. CASE LoseRequest
  <2>1. backlog' \in Seq(Request)
    BY <1>13, RemoveAtFacts DEF LoseRequest, TypeOK
  <2> QED
    BY <1>13, <2>1, FaultType DEF LoseRequest, TypeOK, senderVars, clientVars
<1>14. CASE LoseReply
  <2>1. reply' \in Seq(Nat)
    BY <1>14, RemoveAtFacts DEF LoseReply, TypeOK
  <2> QED
    BY <1>14, <2>1, FaultType DEF LoseReply, TypeOK, senderVars, clientVars
<1>15. CASE DuplicateChunk
  <2>1. reply' \in Seq(Nat)
    BY <1>15, InsertAtType DEF DuplicateChunk, TypeOK
  <2> QED
    BY <1>15, <2>1, FaultType DEF DuplicateChunk, TypeOK, senderVars, clientVars
<1>16. CASE LoseData
  BY <1>16, FaultType DEF LoseData, TypeOK, senderVars, ctrlVars, clientVars
<1>17. CASE DamageData
  <2>1. data' \subseteq Frame
    BY <1>0, <1>17, DamagedType DEF DamageData, TypeOK
  <2> QED
    BY <1>17, <2>1, FaultType DEF DamageData, TypeOK, senderVars, ctrlVars, clientVars
<1>18. CASE UNCHANGED vars
  BY <1>18 DEF vars, TypeOK
<1> QED
  BY <1>1, <1>2, <1>3, <1>4, <1>5, <1>6, <1>7, <1>8, <1>9, <1>10, <1>11, <1>12, <1>13,
     <1>14, <1>15, <1>16, <1>17, <1>18 DEF Next, Client, Link, Idle

-----------------------------------------------------------------------------
(* Where the call stands                                                   *)

\* Every step keeps Progress: the tracker exists while it is used, nothing is
\* accepted between the verdict and the write, and the output file is touched
\* only after the verdict.
LEMMA ProgressStep ==
  ASSUME TypeOK, Progress, [Next]_vars
  PROVE  Progress'
<1>0. <<>> # None
  <2>1. <<>> \in Seq(Byte)
    OBVIOUS
  <2> QED
    BY <2>1, TransferAssumption
<1>1. CASE CtrlSend
  BY <1>1 DEF CtrlSend, Progress, senderVars
<1>2. CASE ReadHeader
  BY <1>2 DEF ReadHeader, CloseConn, AttemptFailed, Return, Progress, senderVars
<1>3. CASE ReadChunk
  BY <1>3 DEF ReadChunk, Progress, senderVars, clientVars
<1>4. CASE CtrlTimeout
  BY <1>4 DEF CtrlTimeout, CloseConn, AttemptFailed, Return, Progress, senderVars
<1>5. CASE ExchangeDone
  BY <1>5 DEF ExchangeDone, CloseConn, Return, Progress, senderVars
<1>6. CASE RecvData
  <2>1. recv # NoTracker /\ TrackerOK(recv)
    BY <1>6 DEF RecvData, TypeOK, Progress
  <2>2. recv' # NoTracker
    <3>1. PICK fr \in data : recv' = ci_svu_accept(recv, fr.off, fr.bytes)
      BY <1>6 DEF RecvData
    <3>2. fr.off \in Nat /\ fr.bytes \in Seq(Byte)
      BY DEF TypeOK, Frame
    <3>3. TrackerOK(recv')
      BY <2>1, <3>1, <3>2, AcceptOK
    <3> QED
      BY <3>3 DEF TrackerOK, NoTracker
  <2> QED
    BY <1>6, <2>2 DEF RecvData, Progress, senderVars, ctrlVars
<1>7. CASE DrainIdle
  BY <1>7
  DEF DrainIdle, DrainVerified, DrainAgain, NextRound, GiveUp, Return, ci_svu_verify,
      Progress, senderVars, ctrlVars
<1>8. CASE OpenOutput
  BY <1>0, <1>8 DEF OpenOutput, OpenFails, Return, Progress, senderVars, ctrlVars
<1>9. CASE WriteOutput
  BY <1>9 DEF WriteOutput, Return, Progress, senderVars, ctrlVars
<1>10. CASE Serve \/ ServeShort
  BY <1>10 DEF Serve, ServeShort, ServeWith, Progress, senderVars, clientVars
<1>11. CASE Restart
  BY <1>11 DEF Restart, Progress, clientVars
<1>12. CASE Link
  BY <1>12
  DEF Link, LoseRequest, LoseReply, DuplicateChunk, LoseData, DamageData, Progress,
      senderVars, ctrlVars, clientVars
<1>13. CASE UNCHANGED vars
  BY <1>13 DEF vars, Progress
<1> QED
  BY <1>1, <1>2, <1>3, <1>4, <1>5, <1>6, <1>7, <1>8, <1>9, <1>10, <1>11, <1>12, <1>13
  DEF Next, Client, Idle

-----------------------------------------------------------------------------
(* The control connection                                                  *)

\* After csp_close no request waits for an answer.
LEMMA CloseConnDead ==
  ASSUME backlog \in Seq(Request), CloseConn
  PROVE  \A i \in 1 .. Len(backlog') : ~backlog'[i].live
<1>1. /\ backlog' = [i \in 1 .. Len(backlog) |-> [backlog[i] EXCEPT !.live = FALSE]]
      /\ Len(backlog') = Len(backlog)
  BY DEF CloseConn
<1>2. ASSUME NEW i \in 1 .. Len(backlog)
      PROVE  [backlog[i] EXCEPT !.live = FALSE].live = FALSE
  <2>1. backlog[i] \in Request
    OBVIOUS
  <2> QED
    BY <2>1 DEF Request
<1> QED
  BY <1>1, <1>2

\* Every step keeps at most one live request, and only before its answer, and
\* leaves nothing of an exchange behind.
LEMMA ConnStep ==
  ASSUME TypeOK, OneLiveRequest, ClosedConn, [Next]_vars
  PROVE  OneLiveRequest' /\ ClosedConn'
<1>1. CASE CtrlSend
  <2>1. /\ pc = "ctrl" /\ reply = <<>> /\ man = <<>>
        /\ \A i \in 1 .. Len(backlog) : ~backlog[i].live
    BY <1>1 DEF CtrlSend, OneLiveRequest, ClosedConn
  <2>2. /\ backlog \in Seq(Request) /\ [live |-> TRUE, ivs |-> ivs] \in Request
        /\ backlog' = Append(backlog, [live |-> TRUE, ivs |-> ivs])
    BY <1>1 DEF CtrlSend, TypeOK, Request
  <2>3. /\ Len(backlog') = Len(backlog) + 1
        /\ \A i \in 1 .. Len(backlog) : backlog'[i] = backlog[i]
    BY <2>2
  <2>4. \A i \in 1 .. Len(backlog') : backlog'[i].live => i = Len(backlog')
    BY <2>1, <2>2, <2>3
  <2>5. pc' = "hdr" /\ reply' = <<>>
    BY <1>1, <2>1 DEF CtrlSend
  <2> QED
    BY <2>4, <2>5 DEF OneLiveRequest, ClosedConn
<1>2. CASE ReadHeader
  <2>1. CASE Head(reply) = 0
    BY <1>2, <2>1 DEF ReadHeader, OneLiveRequest, ClosedConn
  <2>2. CASE Head(reply) # 0
    <3>1. CloseConn /\ reply' = <<>> /\ man' = <<>>
      BY <1>2, <2>2 DEF ReadHeader, CloseConn
    <3>2. \A i \in 1 .. Len(backlog') : ~backlog'[i].live
      BY <3>1, CloseConnDead DEF TypeOK
    <3> QED
      BY <3>1, <3>2 DEF OneLiveRequest, ClosedConn
  <2> QED
    BY <2>1, <2>2
<1>3. CASE ReadChunk
  BY <1>3 DEF ReadChunk, OneLiveRequest, ClosedConn, clientVars
<1>4. CASE CtrlTimeout \/ ExchangeDone
  <2>1. CloseConn /\ reply' = <<>> /\ man' = <<>>
    BY <1>4 DEF CtrlTimeout, ExchangeDone, CloseConn
  <2>2. \A i \in 1 .. Len(backlog') : ~backlog'[i].live
    BY <2>1, CloseConnDead DEF TypeOK
  <2> QED
    BY <2>1, <2>2 DEF OneLiveRequest, ClosedConn
<1>5. CASE RecvData \/ OpenOutput \/ WriteOutput
  BY <1>5
  DEF RecvData, OpenOutput, OpenFails, WriteOutput, Return, OneLiveRequest, ClosedConn, ctrlVars
<1>6. CASE DrainIdle
  BY <1>6
  DEF DrainIdle, DrainVerified, DrainAgain, NextRound, GiveUp, Return, OneLiveRequest,
      ClosedConn, ctrlVars
<1>7. CASE Serve \/ ServeShort
  <2>1. /\ backlog # <<>> /\ backlog' = Tail(backlog)
        /\ UNCHANGED <<man, pc>>
        /\ Head(backlog).live \/ UNCHANGED reply
    BY <1>7 DEF Serve, ServeShort, ServeWith, clientVars
  <2>2. /\ backlog \in Seq(Request) /\ Head(backlog) = backlog[1]
        /\ Len(backlog') = Len(backlog) - 1
        /\ \A i \in 1 .. Len(backlog') : backlog'[i] = backlog[i + 1] /\ i + 1 \in 1 .. Len(backlog)
        /\ 1 \in 1 .. Len(backlog)
    BY <2>1 DEF TypeOK
  <2>3. CASE Head(backlog).live
    <3>1. \A i \in 1 .. Len(backlog') : ~backlog'[i].live
      BY <2>2, <2>3 DEF OneLiveRequest
    <3>2. pc = "hdr"
      BY <2>2, <2>3 DEF OneLiveRequest
    <3> QED
      BY <2>1, <3>1, <3>2 DEF OneLiveRequest, ClosedConn
  <2>4. CASE ~Head(backlog).live
    BY <2>1, <2>2, <2>4 DEF OneLiveRequest, ClosedConn
  <2> QED
    BY <2>3, <2>4
<1>8. CASE Restart
  BY <1>8 DEF Restart, OneLiveRequest, ClosedConn, clientVars
<1>9. CASE LoseRequest
  <2>1. PICK i \in 1 .. Len(backlog) : backlog' = RemoveAt(backlog, i)
    BY <1>9 DEF LoseRequest
  <2>2. UNCHANGED <<reply, man, pc>>
    BY <1>9 DEF LoseRequest, clientVars
  <2>3. /\ backlog \in Seq(Request)
        /\ Len(backlog') = Len(backlog) - 1
        /\ \A k \in 1 .. Len(backlog) - 1 :
             backlog'[k] = IF k < i THEN backlog[k] ELSE backlog[k + 1]
    BY <2>1, RemoveAtFacts DEF TypeOK
  <2>4. \A k \in 1 .. Len(backlog') : backlog'[k].live => pc' = "hdr" /\ reply' = <<>>
    BY <2>2, <2>3 DEF OneLiveRequest
  <2>5. \A k, l \in 1 .. Len(backlog') : backlog'[k].live /\ backlog'[l].live => k = l
    <3> DEFINE was(k) == IF k < i THEN k ELSE k + 1
    <3>1. ASSUME NEW k \in 1 .. Len(backlog')
          PROVE  was(k) \in 1 .. Len(backlog) /\ backlog'[k] = backlog[was(k)]
      <4>1. k \in 1 .. Len(backlog) - 1 /\ Len(backlog) \in Nat
        BY <2>3
      <4> QED
        BY <2>3, <4>1
    <3>2. ASSUME NEW k \in 1 .. Len(backlog'), NEW l \in 1 .. Len(backlog'),
                 backlog'[k].live, backlog'[l].live
          PROVE  k = l
      <4>1. was(k) = was(l)
        <5> HIDE DEF was
        <5> QED
          BY <3>1, <3>2 DEF OneLiveRequest
      <4> QED
        BY <4>1
    <3> QED
      BY <3>2
  <2> QED
    BY <2>2, <2>4, <2>5 DEF OneLiveRequest, ClosedConn
<1>10. CASE LoseReply
  <2>1. reply \in Seq(Nat) /\ Len(reply) > 0
    BY <1>10 DEF LoseReply, TypeOK
  <2>2. reply # <<>>
    BY <2>1
  <2>3. UNCHANGED <<backlog, man, pc>>
    BY <1>10 DEF LoseReply, clientVars
  <2> QED
    BY <2>2, <2>3 DEF OneLiveRequest, ClosedConn
<1>11. CASE DuplicateChunk
  <2>1. reply \in Seq(Nat) /\ Len(reply) > 0
    BY <1>11 DEF DuplicateChunk, TypeOK
  <2>2. reply # <<>>
    BY <2>1
  <2>3. UNCHANGED <<backlog, man, pc>>
    BY <1>11 DEF DuplicateChunk, clientVars
  <2> QED
    BY <2>2, <2>3 DEF OneLiveRequest, ClosedConn
<1>12. CASE LoseData \/ DamageData
  BY <1>12 DEF LoseData, DamageData, OneLiveRequest, ClosedConn, ctrlVars, clientVars
<1>13. CASE UNCHANGED vars
  BY <1>13 DEF vars, OneLiveRequest, ClosedConn
<1> QED
  BY <1>1, <1>2, <1>3, <1>4, <1>5, <1>6, <1>7, <1>8, <1>9, <1>10, <1>11, <1>12, <1>13
  DEF Next, Client, Link, Idle

-----------------------------------------------------------------------------
(* The answer                                                              *)

\* The header comes first, and the rest may have lost some of its chunks.
LEMMA AnswerStep ==
  ASSUME TypeOK, OneLiveRequest, ClosedConn, AnswerInOrder, ~CtrlMayDuplicate, [Next]_vars
  PROVE  AnswerInOrder'
<1>0. \A f \in Files : f \in Seq(Byte) /\ Len(f) \in Nat /\ ci_svu_nblocks(Len(f)) \in Nat
  BY TransferAssumption, NblocksType
<1>1. CASE pc' \notin {"hdr", "man"}
  BY <1>1 DEF AnswerInOrder
<1>2. CASE UNCHANGED <<rfile, man, reply, pc>>
  BY <1>2 DEF AnswerInOrder
<1>3. CASE CtrlSend
  <2>1. pc' = "hdr" /\ man' = <<>> /\ reply' = <<>> /\ rfile' = rfile
    BY <1>3 DEF CtrlSend, ClosedConn
  <2>2. ci_svu_nblocks(Len(rfile')) \in Nat
    BY <1>0, <2>1 DEF TypeOK
  <2> QED
    BY <2>1, <2>2 DEF AnswerInOrder
<1>4. CASE ReadHeader /\ pc' = "man"
  <2> DEFINE n == ci_svu_nblocks(Len(rfile))
  <2>1. /\ pc = "hdr" /\ reply # <<>> /\ reply' = Tail(reply)
        /\ UNCHANGED <<rfile, man>>
    BY <1>4 DEF ReadHeader, CloseConn, AttemptFailed, Return
  <2>2. /\ n \in Nat /\ reply \in Seq(Nat) /\ man = <<>> /\ Len(man) = 0
        /\ Len(reply) <= n + 1
        /\ \A k \in 1 .. Len(reply) : k - 1 <= reply[k] /\ reply[k] <= k + (n - Len(reply))
    BY <1>0, <2>1 DEF TypeOK, AnswerInOrder
  <2> HIDE DEF n
  <2>3. /\ Len(reply') = Len(reply) - 1
        /\ \A k \in 1 .. Len(reply') : reply'[k] = reply[k + 1] /\ k + 1 \in 1 .. Len(reply)
    BY <2>1, <2>2
  <2>4. /\ n - Len(reply') >= 0
        /\ \A k \in 1 .. Len(reply') : k <= reply'[k] /\ reply'[k] <= k + (n - Len(reply'))
    <3>1. Len(reply) \in Nat /\ n - Len(reply') >= 0
      BY <2>2, <2>3
    <3>2. ASSUME NEW k \in 1 .. Len(reply')
          PROVE  k <= reply'[k] /\ reply'[k] <= k + (n - Len(reply'))
      <4> DEFINE j == k + 1
      <4>a. j \in 1 .. Len(reply) /\ reply'[k] = reply[j]
        BY <2>3
      <4>b. j = k + 1 /\ j \in Int /\ k \in Int
        OBVIOUS
      <4> HIDE DEF j
      <4>c. reply[j] \in Nat /\ j - 1 <= reply[j] /\ reply[j] <= j + (n - Len(reply))
        BY <2>2, <4>a
      <4>1. reply'[k] \in Nat /\ (k + 1) - 1 <= reply'[k] /\ reply'[k] <= (k + 1) + (n - Len(reply))
        BY <4>a, <4>b, <4>c
      <4> QED
        BY <2>2, <2>3, <3>1, <4>1
    <3> QED
      BY <3>1, <3>2
  <2>5. man' = <<>> /\ Len(man') = 0 /\ n = ci_svu_nblocks(Len(rfile'))
    BY <2>1, <2>2 DEF n
  <2> QED
    BY <1>4, <2>2, <2>3, <2>4, <2>5 DEF AnswerInOrder
<1>5. CASE ReadChunk
  <2> DEFINE n == ci_svu_nblocks(Len(rfile))
             m == Len(man)
             lost == n - Len(man) - Len(reply)
  <2>1. /\ pc = "man" /\ pc' = "man" /\ reply # <<>> /\ reply' = Tail(reply)
        /\ man' = Append(man, Head(reply)) /\ UNCHANGED rfile
    BY <1>5 DEF ReadChunk, clientVars
  <2>2. /\ n \in Nat /\ reply \in Seq(Nat) /\ man \in Seq(Nat) /\ lost >= 0
        /\ \A k \in 1 .. Len(man) : k <= man[k] /\ man[k] <= k + lost
        /\ \A k \in 1 .. Len(reply) : m + k <= reply[k] /\ reply[k] <= m + k + lost
    BY <1>0, <2>1 DEF TypeOK, AnswerInOrder
  <2>3. /\ Len(reply') = Len(reply) - 1
        /\ \A k \in 1 .. Len(reply') : reply'[k] = reply[k + 1] /\ k + 1 \in 1 .. Len(reply)
        /\ Len(man') = m + 1 /\ man'[m + 1] = reply[1] /\ 1 \in 1 .. Len(reply)
        /\ \A k \in 1 .. m : man'[k] = man[k]
        /\ m \in Nat /\ Len(reply) \in Nat
    BY <2>1, <2>2
  <2>4. n - Len(man') - Len(reply') = lost /\ lost \in Int
    BY <2>2, <2>3
  <2> HIDE DEF n, lost
  <2>5. ASSUME NEW k \in 1 .. Len(man') PROVE k <= man'[k] /\ man'[k] <= k + lost
    <3>1. CASE k = m + 1
      BY <2>2, <2>3, <2>4, <3>1
    <3>2. CASE k # m + 1
      <4>1. k \in 1 .. m /\ man'[k] = man[k]
        BY <2>3, <3>2
      <4> QED
        BY <2>2, <4>1
    <3> QED
      BY <3>1, <3>2
  <2>6. ASSUME NEW k \in 1 .. Len(reply')
        PROVE  Len(man') + k <= reply'[k] /\ reply'[k] <= Len(man') + k + lost
    <3>1. /\ reply'[k] \in Nat /\ m + (k + 1) <= reply'[k]
          /\ reply'[k] <= m + (k + 1) + lost
      <4>a. k + 1 \in 1 .. Len(reply) /\ reply'[k] = reply[k + 1]
        BY <2>3
      <4>1. k + 1 \in 1 .. Len(reply) /\ reply'[k] = reply[k + 1] /\ reply[k + 1] \in Nat
        BY <2>2, <4>a
      <4> HIDE DEF m
      <4> QED
        BY <2>2, <4>1
    <3> QED
      BY <2>3, <2>4, <3>1
  <2>7. n = ci_svu_nblocks(Len(rfile'))
    BY <2>1 DEF n
  <2> QED
    BY <2>1, <2>2, <2>4, <2>5, <2>6, <2>7 DEF AnswerInOrder
<1>6. CASE (Serve \/ ServeShort) /\ Head(backlog).live
  <2>1. /\ backlog # <<>> /\ UNCHANGED <<man, pc>> /\ rfile' = src
        /\ \E m \in 0 .. ci_svu_nblocks(Len(src)) + 1 : reply' = SubSeq(Packets(src), 1, m)
    <3>1. /\ Packets(src) \in Seq(Nat)
          /\ Len(Packets(src)) = ci_svu_nblocks(Len(src)) + 1
          /\ ci_svu_nblocks(Len(src)) \in Nat
      BY <1>0, PacketsType DEF TypeOK
    <3>2. Packets(src) = SubSeq(Packets(src), 1, ci_svu_nblocks(Len(src)) + 1)
      BY <3>1
    <3>3. CASE Serve
      BY <1>6, <3>1, <3>2, <3>3 DEF Serve, ServeWith, clientVars
    <3>4. CASE ServeShort
      BY <1>6, <3>4 DEF ServeShort, ServeWith, clientVars
    <3> QED
      BY <1>6, <3>3, <3>4
  <2>2. pc = "hdr"
    <3>1. Head(backlog) = backlog[1] /\ 1 \in 1 .. Len(backlog)
      BY <2>1 DEF TypeOK
    <3> QED
      BY <1>6, <3>1 DEF OneLiveRequest
  <2>3. man' = <<>> /\ Len(man') = 0 /\ pc' = "hdr"
    BY <2>1, <2>2 DEF AnswerInOrder
  <2> DEFINE n == ci_svu_nblocks(Len(src))
  <2>4. PICK m \in 0 .. n + 1 : reply' = SubSeq(Packets(src), 1, m)
    BY <2>1
  <2>5. /\ n \in Nat /\ Packets(src) \in Seq(Nat) /\ Len(Packets(src)) = n + 1
        /\ \A k \in 1 .. n + 1 : Packets(src)[k] = k - 1
    BY <1>0, PacketsType DEF TypeOK
  <2>6. n = ci_svu_nblocks(Len(rfile'))
    BY <2>1
  <2> HIDE DEF n
  <2>7. Len(reply') = m /\ \A k \in 1 .. m : reply'[k] = Packets(src)[k] /\ k \in 1 .. n + 1
    BY <2>4, <2>5
  <2>8. /\ Len(reply') <= n + 1
        /\ \A k \in 1 .. Len(reply') : k - 1 <= reply'[k] /\ reply'[k] <= k + (n - Len(reply'))
    BY <2>5, <2>7
  <2> QED
    BY <2>3, <2>5, <2>6, <2>7, <2>8 DEF AnswerInOrder
<1>7. CASE (Serve \/ ServeShort) /\ ~Head(backlog).live
  BY <1>2, <1>7 DEF Serve, ServeShort, ServeWith, clientVars
<1>8. CASE LoseReply
  <2> DEFINE n == ci_svu_nblocks(Len(rfile))
             m == Len(man)
  <2>1. PICK i \in 1 .. Len(reply) : reply' = RemoveAt(reply, i)
    BY <1>8 DEF LoseReply
  <2>2. UNCHANGED <<rfile, man, pc>>
    BY <1>8 DEF LoseReply, clientVars
  <2>3. reply \in Seq(Nat) /\ n \in Nat /\ m \in Nat /\ man \in Seq(Nat)
    BY <1>0 DEF TypeOK
  <2>4. /\ Len(reply') = Len(reply) - 1
        /\ \A k \in 1 .. Len(reply) - 1 :
             reply'[k] = IF k < i THEN reply[k] ELSE reply[k + 1]
    BY <2>1, <2>3, RemoveAtFacts
  <2>5. \A k \in 1 .. Len(reply') :
          \/ reply'[k] = reply[k] /\ k \in 1 .. Len(reply)
          \/ reply'[k] = reply[k + 1] /\ k + 1 \in 1 .. Len(reply)
    BY <2>3, <2>4, SMTT(60)
  <2>6. n = ci_svu_nblocks(Len(rfile')) /\ man' = man /\ Len(man') = m
    BY <2>2
  <2>7. CASE pc = "hdr"
    <3>1. /\ man = <<>> /\ m = 0 /\ Len(reply) <= n + 1
          /\ \A k \in 1 .. Len(reply) : k - 1 <= reply[k] /\ reply[k] <= k + (n - 0 - Len(reply))
      BY <2>3, <2>7 DEF AnswerInOrder
    <3> HIDE DEF n
    <3>2. /\ Len(reply') <= n + 1
          /\ \A k \in 1 .. Len(reply') : k - 1 <= reply'[k] /\ reply'[k] <= k + (n - 0 - Len(reply'))
      <4>1. Len(reply') <= n + 1 /\ Len(reply) \in Nat
        BY <2>3, <2>4, <3>1
      <4>2. ASSUME NEW k \in 1 .. Len(reply')
            PROVE  k - 1 <= reply'[k] /\ reply'[k] <= k + (n - 0 - Len(reply'))
        <5>1. \A j \in 1 .. Len(reply) : reply[j] \in Nat
          BY <2>3
        <5>2. PICK j \in 1 .. Len(reply) : (j = k \/ j = k + 1) /\ reply'[k] = reply[j]
          BY <2>5
        <5>3. reply[j] \in Nat /\ j - 1 <= reply[j] /\ reply[j] <= j + (n - 0 - Len(reply))
          BY <3>1, <5>1
        <5>4. Len(reply') = Len(reply) - 1 /\ j \in Int /\ k \in Int
          BY <2>4
        <5>5. CASE j = k
          BY <2>3, <4>1, <5>2, <5>3, <5>4, <5>5, SMTT(60)
        <5>6. CASE j = k + 1
          BY <2>3, <4>1, <5>2, <5>3, <5>4, <5>6, SMTT(60)
        <5> QED
          BY <5>2, <5>5, <5>6
      <4> QED
        BY <4>1, <4>2
    <3> QED
      BY <2>2, <2>6, <2>7, <3>1, <3>2 DEF AnswerInOrder
  <2>8. CASE pc = "man"
    <3>1. /\ n - m - Len(reply) >= 0
          /\ \A k \in 1 .. m : k <= man[k] /\ man[k] <= k + (n - m - Len(reply))
          /\ \A k \in 1 .. Len(reply) :
               m + k <= reply[k] /\ reply[k] <= m + k + (n - m - Len(reply))
      BY <2>8 DEF AnswerInOrder
    <3> HIDE DEF n, m
    <3>2. /\ n - m - Len(reply') >= 0
          /\ \A k \in 1 .. Len(reply') :
               m + k <= reply'[k] /\ reply'[k] <= m + k + (n - m - Len(reply'))
      <4>1. n - m - Len(reply') >= 0 /\ Len(reply) \in Nat
        BY <2>3, <2>4, <3>1
      <4>2. ASSUME NEW k \in 1 .. Len(reply')
            PROVE  m + k <= reply'[k] /\ reply'[k] <= m + k + (n - m - Len(reply'))
        <5>1. \A j \in 1 .. Len(reply) : reply[j] \in Nat
          BY <2>3
        <5>2. PICK j \in 1 .. Len(reply) : (j = k \/ j = k + 1) /\ reply'[k] = reply[j]
          BY <2>5
        <5>3. reply[j] \in Nat /\ m + j <= reply[j] /\ reply[j] <= m + j + (n - m - Len(reply))
          BY <3>1, <5>1
        <5>4. Len(reply') = Len(reply) - 1 /\ j \in Int /\ k \in Int
          BY <2>4
        <5>5. CASE j = k
          BY <2>3, <4>1, <5>2, <5>3, <5>4, <5>5, SMTT(60)
        <5>6. CASE j = k + 1
          BY <2>3, <4>1, <5>2, <5>3, <5>4, <5>6, SMTT(60)
        <5> QED
          BY <5>2, <5>5, <5>6
      <4> QED
        BY <4>1, <4>2
    <3>3. \A k \in 1 .. m : k <= man'[k] /\ man'[k] <= k + (n - m - Len(reply'))
      <4>1. \A k \in 1 .. m : man[k] \in Nat
        BY <2>3 DEF m
      <4> QED
        BY <2>2, <2>3, <2>4, <3>1, <4>1, SMTT(60)
    <3> QED
      BY <2>2, <2>6, <2>8, <3>2, <3>3 DEF AnswerInOrder
  <2> QED
    BY <2>2, <2>7, <2>8 DEF AnswerInOrder
<1>9. CASE DuplicateChunk
  BY <1>9 DEF DuplicateChunk
<1>10. CASE CtrlTimeout
  BY <1>10, <1>1 DEF CtrlTimeout, AttemptFailed, Return
<1>11. CASE ReadHeader /\ pc' # "man"
  BY <1>11, <1>1 DEF ReadHeader, AttemptFailed, Return
<1>12. CASE ExchangeDone \/ OpenOutput \/ WriteOutput \/ DrainIdle \/ RecvData
  BY <1>12, <1>1
  DEF ExchangeDone, OpenOutput, OpenFails, WriteOutput, DrainIdle, DrainVerified, DrainAgain,
      NextRound, GiveUp, RecvData, Return, ctrlVars
<1>13. CASE Restart \/ LoseRequest \/ LoseData \/ DamageData \/ UNCHANGED vars
  BY <1>2, <1>13 DEF Restart, LoseRequest, LoseData, DamageData, vars, ctrlVars, clientVars
<1> QED
  BY <1>3, <1>4, <1>5, <1>6, <1>7, <1>8, <1>9, <1>10, <1>11, <1>12, <1>13
  DEF Next, Client, Link, Idle

\* A complete exchange that repeated nothing put together the manifest of the
\* file it describes: no chunk can be missing when the count is right.
LEMMA ExchangeIsGenuine ==
  ASSUME TypeOK, AnswerInOrder, ExchangeDone
  PROVE  Assembled(rfile, man) = ci_svu_manifest(rfile)
<1> DEFINE n == ci_svu_nblocks(Len(rfile))
<1>1. /\ pc = "man" /\ Len(man) = n /\ man \in Seq(Nat) /\ reply \in Seq(Nat)
      /\ n - Len(man) - Len(reply) >= 0
      /\ \A k \in 1 .. Len(man) : k <= man[k] /\ man[k] <= k + (n - Len(man) - Len(reply))
  BY DEF ExchangeDone, AnswerInOrder, TypeOK
<1> HIDE DEF n
<1>2. Len(reply) \in Nat /\ n \in Nat
  BY <1>1
<1>3. n - Len(man) - Len(reply) = 0
  BY <1>1, <1>2
<1>4. \A k \in 1 .. n : man[k] = k
  <2>1. \A k \in 1 .. n : man[k] \in Nat
    BY <1>1
  <2> QED
    BY <1>1, <1>3, <2>1
<1>5. \A b \in 0 .. n - 1 : man[b + 1] - 1 = b
  BY <1>2, <1>4
<1>6. \A b \in 0 .. n - 1 : hash_block(rfile, man[b + 1] - 1) = hash_block(rfile, b)
  BY <1>5
<1>7. Assembled(rfile, man) = [b \in 0 .. n - 1 |-> hash_block(rfile, man[b + 1] - 1)]
  BY <1>1 DEF Assembled
<1>8. ci_svu_manifest(rfile) = [b \in 0 .. n - 1 |-> hash_block(rfile, b)]
  BY DEF ci_svu_manifest, n
<1> QED
  BY <1>6, <1>7, <1>8

\* The tracker's manifest stays that of a served file.
LEMMA GenuineStep ==
  ASSUME TypeOK, Progress, AnswerInOrder, GenuineManifest, [Next]_vars
  PROVE  GenuineManifest'
<1>1. offered \subseteq offered'
  BY DEF Next, Client, Link, Idle, CtrlSend, ReadHeader, ReadChunk, CtrlTimeout, ExchangeDone,
         RecvData, DrainIdle, OpenOutput, WriteOutput, Serve, ServeShort, ServeWith, Restart,
         LoseRequest, LoseReply, DuplicateChunk, LoseData, DamageData, senderVars, vars
<1>2. CASE recv' = recv \/ recv' = NoTracker
  BY <1>1, <1>2 DEF GenuineManifest
<1>3. CASE ExchangeDone /\ recv' # recv /\ recv' # NoTracker
  <2>1. recv' = ci_svu_new(Len(rfile), Assembled(rfile, man), Len(man))
    BY <1>3 DEF ExchangeDone, Return
  <2>2. Len(rfile) \in Nat /\ Len(rfile) < Word /\ Len(man) \in Nat
    BY TransferAssumption DEF TypeOK
  <2>3. recv'.total = Len(rfile) /\ recv'.expected = Assembled(rfile, man)
    BY <1>3, <2>1, <2>2, NewOK
  <2>4. Assembled(rfile, man) = ci_svu_manifest(rfile)
    BY <1>3, ExchangeIsGenuine
  <2>5. rfile \in offered'
    BY <1>1 DEF Progress
  <2> QED
    BY <2>3, <2>4, <2>5 DEF GenuineManifest
<1>4. CASE RecvData
  <2>1. recv # NoTracker /\ TrackerOK(recv)
    BY <1>4 DEF RecvData, Progress, TypeOK
  <2>2. PICK fr \in data : recv' = ci_svu_accept(recv, fr.off, fr.bytes)
    BY <1>4 DEF RecvData
  <2>3. fr.off \in Nat /\ fr.bytes \in Seq(Byte)
    BY DEF TypeOK, Frame
  <2>4. recv'.total = recv.total /\ recv'.expected = recv.expected
    BY <2>1, <2>2, <2>3, AcceptOK
  <2> QED
    BY <1>1, <2>1, <2>4 DEF GenuineManifest
<1>5. ASSUME ~RecvData, ~ExchangeDone PROVE recv' = recv \/ recv' = NoTracker
  BY <1>5
  DEF Next, Client, Link, Idle, CtrlSend, ReadHeader, ReadChunk, CtrlTimeout, AttemptFailed,
      Return, DrainIdle, DrainVerified, DrainAgain, NextRound, GiveUp, OpenOutput, OpenFails,
      WriteOutput, Serve, ServeShort, ServeWith, Restart, LoseRequest, LoseReply,
      DuplicateChunk, LoseData, DamageData, clientVars, vars
<1> QED
  BY <1>2, <1>3, <1>4, <1>5

-----------------------------------------------------------------------------
(* The verdict                                                             *)

\* When every block verifies against the manifest of a served file, the payload
\* is that file.
LEMMA VerifiedDataIsOffered ==
  ASSUME TypeOK, Progress, GenuineManifest, pc \in {"open", "write"}
  PROVE  recv.data \in offered
<1>1. recv # NoTracker /\ TrackerOK(recv) /\ Status(recv) = "COMPLETE_VERIFIED"
  BY DEF TypeOK, Progress
<1>2. PICK f \in offered : recv.total = Len(f) /\ recv.expected = ci_svu_manifest(f)
  BY <1>1 DEF GenuineManifest
<1>3. \A b \in 0 .. recv.nblocks - 1 : hash_block(recv.data, b) = recv.expected[b]
  BY <1>1, VerifiedIsWhole
<1>4. /\ recv.nblocks = ci_svu_nblocks(Len(f)) /\ ci_svu_nblocks(Len(f)) # 0
      /\ recv.data \in Seq(Byte) /\ Len(recv.data) = Len(f)
  BY <1>1, <1>2, DataIsSeq DEF TrackerOK
<1>5. f \in Seq(Byte) /\ Len(f) < Word
  BY TransferAssumption DEF TypeOK
<1> QED
  BY <1>2, <1>3, <1>4, <1>5, ManifestDetermines

\* A step that reports success has written a served file.
LEMMA VerifiedStep ==
  ASSUME TypeOK, Progress, GenuineManifest, VerifiedMeansSource, ~DiskMayFill, [Next]_vars
  PROVE  VerifiedMeansSource'
<1>1. CASE WriteOutput
  <2>1. disk' = recv.data /\ offered' = offered
    BY <1>1 DEF WriteOutput, senderVars
  <2>2. recv.data \in offered
    BY <1>1, VerifiedDataIsOffered DEF WriteOutput
  <2> QED
    BY <2>1, <2>2 DEF VerifiedMeansSource
<1>2. CASE result' # "verified"
  BY <1>2 DEF VerifiedMeansSource
<1>3. ASSUME ~WriteOutput, result' = "verified"
      PROVE  pc = "done" /\ result = "verified" /\ disk' = disk /\ offered' = offered
  <2>1. result = "verified"
    BY <1>3
    DEF Next, Client, Link, Idle, CtrlSend, ReadHeader, ReadChunk, CtrlTimeout, AttemptFailed,
        Return, ExchangeDone, RecvData, DrainIdle, DrainVerified, DrainAgain, NextRound, GiveUp,
        OpenOutput, OpenFails, Serve, ServeShort, ServeWith, Restart, LoseRequest, LoseReply,
        DuplicateChunk, LoseData, DamageData, clientVars, ctrlVars, vars
  <2>2. pc = "done"
    BY <2>1 DEF Progress
  <2> QED
    BY <1>3, <2>1, <2>2
    DEF Next, Client, Link, Idle, CtrlSend, ReadHeader, ReadChunk, CtrlTimeout, ExchangeDone,
        RecvData, DrainIdle, OpenOutput, Serve, ServeShort, ServeWith, Restart, LoseRequest,
        LoseReply, DuplicateChunk, LoseData, DamageData, senderVars, clientVars, ctrlVars, vars
<1> QED
  BY <1>1, <1>2, <1>3 DEF VerifiedMeansSource

-----------------------------------------------------------------------------
(* The theorems                                                            *)

\* The initial states satisfy the inductive invariant.
LEMMA InitInv == Init => IInv
<1> SUFFICES ASSUME Init PROVE IInv
  OBVIOUS
<1>1. TypeOK
  <2>1. /\ MaxRounds \in Nat \ {0} /\ Attempts \in Nat /\ MaxFaults \in Nat
        /\ MaxRestarts \in Nat /\ StaleFrames \subseteq Frame
    BY TransferAssumption
  <2>2. /\ round \in 1 .. MaxRounds /\ attempt \in 0 .. Attempts
        /\ faults \in 0 .. MaxFaults /\ restarts \in 0 .. MaxRestarts
    BY <2>1 DEF Init
  <2>3. backlog \in Seq(Request) /\ reply \in Seq(Nat) /\ man \in Seq(Nat)
    BY DEF Init
  <2>4. ivs \subseteq Interval /\ data \subseteq Frame /\ offered \subseteq Files
    BY <2>1 DEF Init
  <2> QED
    BY <2>2, <2>3, <2>4 DEF Init, TypeOK, PCs
<1>2. Progress /\ OneLiveRequest /\ ClosedConn
  BY DEF Init, Progress, OneLiveRequest, ClosedConn
<1>3. AnswerInOrder /\ GenuineManifest /\ VerifiedMeansSource
  BY DEF Init, AnswerInOrder, GenuineManifest, VerifiedMeansSource
<1> QED
  BY <1>1, <1>2, <1>3 DEF IInv

\* Every step preserves the inductive invariant.
LEMMA StepInv == IInv /\ [Next]_vars => IInv'
<1> SUFFICES ASSUME IInv, [Next]_vars PROVE IInv'
  OBVIOUS
<1>1. TypeOK' /\ Progress'
  BY TypeStep, ProgressStep DEF IInv
<1>2. OneLiveRequest' /\ ClosedConn'
  BY ConnStep DEF IInv
<1>3. ~CtrlMayDuplicate => AnswerInOrder' /\ GenuineManifest'
  BY AnswerStep, GenuineStep DEF IInv
<1>4. ~CtrlMayDuplicate /\ ~DiskMayFill => VerifiedMeansSource'
  BY VerifiedStep DEF IInv
<1> QED
  BY <1>1, <1>2, <1>3, <1>4 DEF IInv

\* The inductive invariant always holds.
THEOREM Invariance == Spec => []IInv
  BY InitInv, StepInv, PTL DEF Spec

\* The state of the transfer is always well typed; in particular the count of
\* covered bytes, by which ci_svu_verify judges completeness, is the number of
\* distinct bytes received, whatever frames the tracker is given.
THEOREM TypeCorrect == Spec => []TypeOK
<1>1. IInv => TypeOK
  BY DEF IInv
<1> QED
  BY <1>1, Invariance, PTL

\* The output file is only touched once every byte is covered and every block
\* hashes to the digest the client expects, whatever the link, the disk and the
\* serving process do.
THEOREM OnlyVerifiedIsWritten == Spec => []NothingUnverifiedIsWritten
<1>1. IInv => NothingUnverifiedIsWritten
  <2> SUFFICES ASSUME IInv, pc \in {"open", "write"}
               PROVE  /\ recv.covered = 0 .. recv.total - 1
                      /\ \A b \in 0 .. recv.nblocks - 1 :
                           hash_block(recv.data, b) = recv.expected[b]
    BY DEF NothingUnverifiedIsWritten
  <2>1. TrackerOK(recv) /\ Status(recv) = "COMPLETE_VERIFIED"
    BY DEF IInv, TypeOK, Progress
  <2> QED
    BY <2>1, VerifiedIsWhole
<1> QED
  BY <1>1, Invariance, PTL

\* If the link never repeats a manifest chunk and the disk stores what it is
\* given, a reported success means that the output file is one of the files that
\* was served, for any number of rounds, restarts of the sender and stale,
\* damaged, repeated or reordered data frames.
THEOREM SuccessIsGenuine ==
  ASSUME ~CtrlMayDuplicate, ~DiskMayFill
  PROVE  Spec => []VerifiedMeansSource
<1>1. IInv => VerifiedMeansSource
  BY DEF IInv
<1> QED
  BY <1>1, Invariance, PTL

\* Every step of the transfer is a step of the promise, or leaves it alone.
LEMMA UploadStep ==
  ASSUME ~CtrlMayDuplicate, ~DiskMayFill, IInv, [Next]_vars
  PROVE  [Upload!Next]_Upload!uploadVars
<1> USE DEF Upload!uploadVars
<1>0. TypeOK /\ Progress /\ GenuineManifest
  BY DEF IInv
<1>1. CASE UNCHANGED <<offered, disk, result>>
  BY <1>1
<1>2. CASE /\ UNCHANGED <<offered, disk>>
           /\ result' = "failed"
           /\ pc \notin {"write", "done"}
  BY <1>0, <1>2 DEF Upload!Next, Upload!GiveUp, Progress
<1>3. CASE OpenOutput
  BY <1>0, <1>2, <1>3
  DEF OpenOutput, OpenFails, Return, senderVars, Upload!Next, Upload!Prepare, Progress
<1>4. CASE WriteOutput
  <2>1. disk' = recv.data /\ recv.data \in offered /\ offered' = offered
    BY <1>0, <1>4, VerifiedDataIsOffered DEF WriteOutput, senderVars
  <2>2. result = "running" /\ disk # None /\ result' = "verified"
    BY <1>0, <1>4 DEF WriteOutput, Return, Progress
  <2> QED
    BY <2>1, <2>2 DEF Upload!Next, Upload!Deliver
<1>5. CASE Restart
  BY <1>0, <1>5 DEF Restart, clientVars, Progress, Upload!Next, Upload!Offer
<1>6. CASE ReadHeader \/ CtrlTimeout \/ ExchangeDone \/ DrainIdle
  BY <1>1, <1>2, <1>6
  DEF ReadHeader, CtrlTimeout, ExchangeDone, AttemptFailed, Return, DrainIdle, DrainVerified,
      DrainAgain, NextRound, GiveUp, senderVars
<1>7. CASE \/ CtrlSend \/ ReadChunk \/ RecvData \/ Serve \/ ServeShort \/ Link
           \/ UNCHANGED vars
  BY <1>1, <1>7
  DEF CtrlSend, ReadChunk, RecvData, Serve, ServeShort, ServeWith, Link, LoseRequest, LoseReply,
      DuplicateChunk, LoseData, DamageData, senderVars, clientVars, vars
<1> QED
  BY <1>3, <1>4, <1>5, <1>6, <1>7 DEF Next, Client, Idle

\* Under the same two conditions the transfer implements the promise of
\* VerifiedUpload: it reports success only with a served file in place, and
\* reports failure only while the output file is untouched.
THEOREM TransferImplementsUpload ==
  ASSUME ~CtrlMayDuplicate, ~DiskMayFill
  PROVE  Spec => ImplementsUpload
<1>1. Init => Upload!Init
  BY DEF Init, Upload!Init
<1>2. IInv /\ [Next]_vars => [Upload!Next]_Upload!uploadVars
  BY UploadStep
<1> QED
  BY <1>1, <1>2, Invariance, PTL DEF Spec, ImplementsUpload, Upload!Spec

-----------------------------------------------------------------------------
(* What a request asks for                                                 *)

\* A set of natural numbers that is not empty has a least one.
LEMMA Least ==
  ASSUME NEW S \in SUBSET Nat, S # {}
  PROVE  \E m \in S : \A n \in S : m <= n
<1>1. PICK m \in S : \A n \in S : ~(<<n, m>> \in OpToRel(<, Nat))
  BY NatLessThanWellFounded, WFMin
<1>2. \A n \in S : ~(n < m)
  BY <1>1 DEF OpToRel
<1> QED
  BY <1>2

\* No two ranges begin at the same offset.
StartsDiffer(R) == \A iv, jv \in R : iv[1] = jv[1] => iv = jv

\* One that begins first.
LEMMA LeastStart ==
  ASSUME NEW R, R # {}, \A iv \in R : iv[1] \in Nat
  PROVE  \E iv \in R : \A jv \in R : iv[1] <= jv[1]
<1> DEFINE S == {iv[1] : iv \in R}
<1>1. S \in SUBSET Nat /\ S # {}
  OBVIOUS
<1>2. PICK m \in S : \A n \in S : m <= n
  BY <1>1, Least
<1>3. PICK iv \in R : iv[1] = m
  BY <1>2
<1> QED
  BY <1>2, <1>3

\* push_interval keeps as many ranges as there is room for, and drops none before.
LEMMA FirstRangesFew ==
  ASSUME NEW R, IsFiniteSet(R), \A iv \in R : iv[1] \in Nat, StartsDiffer(R), NEW max \in Nat \ {0}
  PROVE  /\ FirstRanges(R, max) \subseteq R
         /\ Cardinality(FirstRanges(R, max)) <= max
         /\ R # {} => FirstRanges(R, max) # {}
         /\ Cardinality(FirstRanges(R, max)) < max => FirstRanges(R, max) = R
<1> DEFINE Before(iv) == {jv \in R : jv[1] < iv[1]}
           F == FirstRanges(R, max)
<1>1. ASSUME NEW iv \in R PROVE IsFiniteSet(Before(iv)) /\ Cardinality(Before(iv)) \in Nat
  <2>1. Before(iv) \in SUBSET R
    OBVIOUS
  <2> HIDE DEF Before
  <2> QED
    BY <2>1, FS_Subset, FS_CardinalityType
<1>2. F = {iv \in R : Cardinality(Before(iv)) < max}
  BY DEF FirstRanges
<1>3. ASSUME NEW iv \in R, NEW jv \in R, iv[1] < jv[1]
      PROVE  Cardinality(Before(iv)) < Cardinality(Before(jv))
  <2>1. Before(iv) \in SUBSET Before(jv) /\ iv \in Before(jv) /\ iv \notin Before(iv)
    BY <1>3
  <2>2. IsFiniteSet(Before(jv)) /\ Cardinality(Before(jv)) \in Nat /\ Cardinality(Before(iv)) \in Nat
    BY <1>1
  <2> HIDE DEF Before
  <2>3. Cardinality(Before(iv)) <= Cardinality(Before(jv)) /\ Cardinality(Before(jv)) # Cardinality(Before(iv))
    BY <2>1, <2>2, FS_Subset
  <2> QED
    BY <2>2, <2>3
<1> HIDE DEF Before, F
<1>4. F \in SUBSET R /\ IsFiniteSet(F) /\ Cardinality(F) \in Nat
  <2>1. F \in SUBSET R
    BY <1>2
  <2> QED
    BY <2>1, FS_Subset, FS_CardinalityType
<1>5. Cardinality(F) <= max
  <2> DEFINE f == [iv \in F |-> Cardinality(Before(iv))]
  <2>1. \A iv \in F : Cardinality(Before(iv)) \in 0 .. max - 1
    BY <1>1, <1>2
  <2>2. ASSUME NEW iv \in F, NEW jv \in F, Cardinality(Before(iv)) = Cardinality(Before(jv))
        PROVE  iv = jv
    <3>1. iv \in R /\ jv \in R /\ iv[1] \in Nat /\ jv[1] \in Nat
      BY <1>4
    <3>2. Cardinality(Before(iv)) \in Nat
      BY <1>1, <3>1
    <3>3. ~(iv[1] < jv[1]) /\ ~(jv[1] < iv[1])
      BY <1>3, <2>2, <3>1, <3>2
    <3>4. iv[1] = jv[1]
      BY <3>1, <3>3
    <3> QED
      BY <3>1, <3>4 DEF StartsDiffer
  <2>a. f \in [F -> 0 .. max - 1]
    BY <2>1
  <2>b. \A iv, jv \in F : f[iv] = f[jv] => iv = jv
    BY <2>2
  <2> HIDE DEF f
  <2>3. f \in Injection(F, 0 .. max - 1)
    BY <2>a, <2>b DEF Injection, IsInjective
  <2>4. IsFiniteSet(0 .. max - 1) /\ Cardinality(0 .. max - 1) = max
    BY OffsetsFinite
  <2> QED
    BY <2>3, <2>4, FS_Injection
<1>6. ASSUME R # {} PROVE F # {}
  <2>1. PICK iv \in R : \A jv \in R : iv[1] <= jv[1]
    BY <1>6, LeastStart
  <2>2. Before(iv) = {}
    BY <2>1 DEF Before
  <2>3. Cardinality(Before(iv)) = 0
    BY <2>2, FS_EmptySet
  <2> QED
    BY <1>2, <2>3
<1>7. ASSUME Cardinality(F) < max PROVE F = R
  <2> SUFFICES ASSUME R \ F # {} PROVE FALSE
    BY <1>4
  <2>1. PICK iv \in R \ F : \A jv \in R \ F : iv[1] <= jv[1]
    BY LeastStart
  <2>2. Before(iv) \in SUBSET F
    BY <2>1 DEF Before
  <2>3. Cardinality(Before(iv)) <= Cardinality(F)
    BY <1>4, <2>2, FS_Subset
  <2>4. Cardinality(Before(iv)) \in Nat /\ ~(Cardinality(Before(iv)) < max)
    BY <1>1, <1>2, <2>1
  <2> QED
    BY <1>4, <1>7, <2>3, <2>4
<1> QED
  BY <1>4, <1>5, <1>6, <1>7 DEF F

-----------------------------------------------------------------------------
(* The ranges ci_svu_verify reports                                        *)

\* The runs of missing bytes begin at different offsets.
LEMMA RunsDiffer ==
  ASSUME NEW s, s.total \in Nat \ {0}
  PROVE  /\ StartsDiffer(MissingRuns(s))
         /\ MissingRuns(s) \in SUBSET ((0 .. s.total - 1) \X (1 .. s.total))
<1>1. ASSUME NEW iv \in MissingRuns(s), NEW jv \in MissingRuns(s), iv[1] = jv[1], iv[2] < jv[2]
      PROVE  FALSE
  <2>1. iv[2] \in jv[1] .. jv[2] - 1 /\ iv[2] # s.total
    BY <1>1 DEF MissingRuns
  <2>2. iv[2] \in s.covered
    BY <2>1 DEF MissingRuns
  <2>3. iv[2] \notin s.covered
    BY <2>1 DEF MissingRuns
  <2> QED
    BY <2>2, <2>3
<1>2. ASSUME NEW iv \in MissingRuns(s), NEW jv \in MissingRuns(s), iv[1] = jv[1] PROVE iv = jv
  <2>1. iv \in (0 .. s.total - 1) \X (1 .. s.total) /\ jv \in (0 .. s.total - 1) \X (1 .. s.total)
    BY DEF MissingRuns
  <2>2. ~(iv[2] < jv[2]) /\ ~(jv[2] < iv[2])
    BY <1>1, <1>2
  <2>3. iv[2] = jv[2]
    BY <2>1, <2>2
  <2> QED
    BY <1>2, <2>1, <2>3
<1> QED
  BY <1>2 DEF StartsDiffer, MissingRuns

\* Together they are the missing bytes.
LEMMA RunsAreTheMissing ==
  ASSUME NEW s, s.total \in Nat \ {0}
  PROVE  RangeBytes(MissingRuns(s)) = (0 .. s.total - 1) \ s.covered
<1>1. ASSUME NEW i \in RangeBytes(MissingRuns(s)) PROVE i \in (0 .. s.total - 1) \ s.covered
  <2>1. PICK iv \in MissingRuns(s) : i \in iv[1] .. iv[2] - 1
    BY DEF RangeBytes
  <2>2. iv[1] \in 0 .. s.total - 1 /\ iv[2] \in 1 .. s.total /\ i \notin s.covered
    BY <2>1 DEF MissingRuns
  <2> QED
    BY <2>1, <2>2
<1>2. ASSUME NEW i \in (0 .. s.total - 1) \ s.covered PROVE i \in RangeBytes(MissingRuns(s))
  <2> DEFINE Starts == {m \in 0 .. i : \A k \in m .. i : k \notin s.covered}
             Ends == {n \in 1 .. s.total : i < n /\ (n = s.total \/ n \in s.covered)}
  <2>1. i \in Starts /\ Starts \in SUBSET Nat
    OBVIOUS
  <2>2. PICK lo \in Starts : \A m \in Starts : lo <= m
    BY <2>1, Least
  <2>3. s.total \in Ends /\ Ends \in SUBSET Nat
    OBVIOUS
  <2>4. PICK hi \in Ends : \A n \in Ends : hi <= n
    BY <2>3, Least
  <2>5. lo = 0 \/ lo - 1 \in s.covered
    <3> SUFFICES ASSUME lo # 0, lo - 1 \notin s.covered PROVE FALSE
      OBVIOUS
    <3>1. lo - 1 \in Starts
      OBVIOUS
    <3> QED
      BY <2>2, <3>1
  <2>6. \A k \in i .. hi - 1 : k \notin s.covered
    <3> SUFFICES ASSUME NEW k \in i .. hi - 1, k \in s.covered PROVE FALSE
      OBVIOUS
    <3>1. k # i /\ k \in 1 .. s.total /\ i < k /\ k < hi
      OBVIOUS
    <3>2. k \in Ends
      BY <3>1
    <3> QED
      BY <2>4, <3>1, <3>2
  <2>7. \A k \in lo .. hi - 1 : k \notin s.covered
    BY <2>2, <2>4, <2>6
  <2>8. <<lo, hi>> \in MissingRuns(s)
    BY <2>2, <2>4, <2>5, <2>7 DEF MissingRuns
  <2>9. i \in lo .. hi - 1
    BY <2>2, <2>4
  <2> QED
    BY <2>8, <2>9 DEF RangeBytes
<1> QED
  BY <1>1, <1>2

\* The bytes of a reported block are the block's.
LEMMA RangeIsTheBlock ==
  ASSUME NEW s, s.total \in Nat \ {0}, NEW b \in Nat
  PROVE  /\ BlockRange(s, b)[1] .. BlockRange(s, b)[2] - 1 = BlockBytes(s.total, b)
         /\ BlockRange(s, b)[1] = b * BlockSize
         /\ b * BlockSize \in Nat
<1> DEFINE lo == b * BlockSize
           hi == (b + 1) * BlockSize
<1>1. lo \in Nat /\ hi \in Nat
  BY BlockAssumption
<1>2. BlockRange(s, b) = <<lo, IF hi > s.total THEN s.total ELSE hi>>
  BY DEF BlockRange
<1>3. BlockBytes(s.total, b) = {i \in 0 .. s.total - 1 : lo <= i /\ i < hi}
  BY DEF BlockBytes
<1> HIDE DEF lo, hi
<1>4. BlockRange(s, b)[1] .. BlockRange(s, b)[2] - 1 = BlockBytes(s.total, b)
  <2>1. CASE hi > s.total
    BY <1>1, <1>2, <1>3, <2>1
  <2>2. CASE ~(hi > s.total)
    BY <1>1, <1>2, <1>3, <2>2
  <2> QED
    BY <2>1, <2>2
<1> QED
  BY <1>1, <1>2, <1>4 DEF lo

\* Full coverage by count is full coverage.
LEMMA CountIsCoverage ==
  ASSUME NEW s, TrackerOK(s)
  PROVE  s.covered_count < s.total <=> (0 .. s.total - 1) \ s.covered # {}
<1>1. IsFiniteSet(0 .. s.total - 1) /\ Cardinality(0 .. s.total - 1) = s.total
  BY OffsetsFinite DEF TrackerOK
<1>2. s.covered \in SUBSET (0 .. s.total - 1) /\ s.covered_count = Cardinality(s.covered)
  BY DEF TrackerOK
<1> DEFINE D == 0 .. s.total - 1
<1>a. s.total \in Nat
  BY DEF TrackerOK
<1> HIDE DEF D
<1>3. /\ Cardinality(s.covered) \in Nat
      /\ Cardinality(s.covered) <= Cardinality(D)
      /\ Cardinality(s.covered) = Cardinality(D) => s.covered = D
  BY <1>1, <1>2, FS_Subset, FS_CardinalityType DEF D
<1>4. Cardinality(D) = s.total /\ s.covered \in SUBSET D
  BY <1>1, <1>2 DEF D
<1>5. CASE s.covered = D
  BY <1>2, <1>3, <1>4, <1>5, <1>a DEF D
<1>6. CASE s.covered # D
  <2>1. s.covered_count < s.total
    BY <1>2, <1>3, <1>4, <1>6, <1>a
  <2>2. D \ s.covered # {}
    BY <1>4, <1>6
  <2> QED
    BY <2>1, <2>2 DEF D
<1> QED
  BY <1>5, <1>6

\* What a set of ranges has to be for push_interval to keep the first of them.
Reportable(R) == IsFiniteSet(R) /\ (\A iv \in R : iv[1] \in Nat) /\ StartsDiffer(R)

\* The ranges of ci_svu_verify are that, and they are the damaged bytes.
LEMMA RangesAreTheDamage ==
  ASSUME NEW s, TrackerOK(s), Status(s) # "COMPLETE_VERIFIED"
  PROVE  /\ Reportable(DamagedRanges(s))
         /\ DamagedRanges(s) # {}
         /\ RangeBytes(DamagedRanges(s)) = DamagedBytes(s)
<1>1. s.total \in Nat \ {0}
  BY DEF TrackerOK
<1>2. CASE s.covered_count < s.total
  <2>1. DamagedRanges(s) = MissingRuns(s)
    BY <1>2 DEF DamagedRanges
  <2>2. DamagedBytes(s) = (0 .. s.total - 1) \ s.covered /\ DamagedBytes(s) # {}
    BY <1>2, CountIsCoverage DEF DamagedBytes
  <2>a. s.total - 1 \in Int /\ s.total \in Int /\ 0 \in Int /\ 1 \in Int
    BY <1>1
  <2>b. IsFiniteSet(0 .. s.total - 1) /\ IsFiniteSet(1 .. s.total)
    BY <2>a, FS_Interval
  <2>3. IsFiniteSet((0 .. s.total - 1) \X (1 .. s.total))
    BY <2>b, FS_Product
  <2>4. IsFiniteSet(MissingRuns(s))
    BY <1>1, <2>3, RunsDiffer, FS_Subset
  <2>5. \A iv \in MissingRuns(s) : iv[1] \in Nat
    BY <1>1 DEF MissingRuns
  <2>6. MissingRuns(s) # {}
    BY <1>1, <2>2, RunsAreTheMissing DEF RangeBytes
  <2> QED
    BY <1>1, <2>1, <2>2, <2>4, <2>5, <2>6, RunsDiffer, RunsAreTheMissing DEF Reportable
<1>3. CASE ~(s.covered_count < s.total)
  <2> DEFINE R == {BlockRange(s, b) : b \in BadBlocks(s)}
  <2>1. DamagedRanges(s) = R
    BY <1>3 DEF DamagedRanges
  <2>2. BadBlocks(s) # {}
    BY <1>3 DEF Status
  <2>3. DamagedBytes(s) = UNION {BlockBytes(s.total, b) : b \in BadBlocks(s)}
    BY <1>3, CountIsCoverage DEF DamagedBytes
  <2>4. s.nblocks \in Nat
    BY <1>1, NblocksType DEF TrackerOK
  <2>5. BadBlocks(s) \in SUBSET (0 .. s.nblocks - 1) /\ BadBlocks(s) \in SUBSET Nat
    BY <2>4 DEF BadBlocks
  <2>6. IsFiniteSet(BadBlocks(s))
    BY <2>4, <2>5, OffsetsFinite, FS_Subset
  <2>7. IsFiniteSet(R)
    <3> DEFINE f == [b \in BadBlocks(s) |-> BlockRange(s, b)]
    <3>1. R = {f[b] : b \in BadBlocks(s)}
      OBVIOUS
    <3>2. f \in Surjection(BadBlocks(s), R)
      BY <3>1 DEF Surjection
    <3> QED
      BY <2>6, <3>2, FS_Surjection
  <2>8. \A b \in BadBlocks(s) :
          /\ BlockRange(s, b)[1] .. BlockRange(s, b)[2] - 1 = BlockBytes(s.total, b)
          /\ BlockRange(s, b)[1] = b * BlockSize
          /\ b * BlockSize \in Nat
    BY <1>1, <2>5, RangeIsTheBlock
  <2>9. RangeBytes(R) = UNION {BlockBytes(s.total, b) : b \in BadBlocks(s)}
    BY <2>8 DEF RangeBytes
  <2>10. StartsDiffer(R)
    <3> SUFFICES ASSUME NEW b \in BadBlocks(s), NEW c \in BadBlocks(s),
                        BlockRange(s, b)[1] = BlockRange(s, c)[1]
                 PROVE  b = c
      BY DEF StartsDiffer
    <3>1. b \in Nat /\ c \in Nat /\ b * BlockSize = c * BlockSize
      BY <2>5, <2>8
    <3> QED
      BY <3>1, BlockAssumption
  <2>11. \A iv \in R : iv[1] \in Nat
    BY <2>8
  <2>12. R # {}
    BY <2>2
  <2> QED
    BY <2>1, <2>3, <2>7, <2>9, <2>10, <2>11, <2>12 DEF Reportable
<1> QED
  BY <1>2, <1>3

\* What a request has to name when the tracker is s.
Asks(r, s) ==
  /\ r # {}
  /\ Cardinality(r) <= MaxIntervals
  /\ RangeBytes(r) \subseteq DamagedBytes(s)
  /\ Cardinality(r) < MaxIntervals => RangeBytes(r) = DamagedBytes(s)

\* What ci_svu_verify puts in the caller's array is that.
LEMMA VerifyAsks ==
  ASSUME NEW s, TrackerOK(s), Status(s) # "COMPLETE_VERIFIED"
  PROVE  Asks(ci_svu_verify(s, MaxIntervals).out, s)
<1> DEFINE R == DamagedRanges(s)
           F == FirstRanges(R, MaxIntervals)
<1>1. ci_svu_verify(s, MaxIntervals).out = F
  BY DEF ci_svu_verify
<1>2. Reportable(R) /\ R # {} /\ RangeBytes(R) = DamagedBytes(s)
  BY RangesAreTheDamage
<1>3. MaxIntervals \in Nat \ {0}
  BY TransferAssumption
<1> HIDE DEF R
<1>4. /\ F \subseteq R
      /\ Cardinality(F) <= MaxIntervals
      /\ F # {}
      /\ Cardinality(F) < MaxIntervals => F = R
  BY <1>2, <1>3, FirstRangesFew DEF Reportable
<1> HIDE DEF F
<1>5. RangeBytes(F) \subseteq RangeBytes(R)
  BY <1>4 DEF RangeBytes
<1> QED
  BY <1>1, <1>2, <1>4, <1>5 DEF Asks

\* While the client asks again, the ranges it holds are what its tracker lacks:
\* from the verdict of a silent drain to the end of the exchange neither changes.
Asked == recv # NoTracker /\ pc \in {"ctrl", "hdr", "man"} => Asks(ivs, recv)

LEMMA AskedStep ==
  ASSUME IInv, Asked, [Next]_vars
  PROVE  Asked'
<1>1. CASE DrainIdle
  <2> DEFINE v == ci_svu_verify(recv, MaxIntervals)
  <2>1. recv # NoTracker /\ TrackerOK(recv)
    BY <1>1 DEF DrainIdle, IInv, TypeOK, Progress
  <2>2. CASE v.status # "COMPLETE_VERIFIED" /\ NextRound(v.out)
    <3>1. Asks(v.out, recv)
      BY <2>1, <2>2, VerifyAsks DEF ci_svu_verify
    <3>2. ivs' = v.out /\ recv' = recv
      BY <2>2 DEF NextRound
    <3> HIDE DEF v
    <3> QED
      BY <3>1, <3>2 DEF Asked, Asks, DamagedBytes, RangeBytes
  <2>3. CASE DrainVerified \/ DrainAgain \/ GiveUp
    BY <1>1, <2>3 DEF DrainIdle, DrainVerified, DrainAgain, GiveUp, Return, Asked
  <2> QED
    BY <1>1, <2>2, <2>3 DEF DrainIdle
<1>2. ASSUME ~DrainIdle, recv' # NoTracker, pc' \in {"ctrl", "hdr", "man"}
      PROVE  pc \in {"ctrl", "hdr", "man"} /\ recv' = recv /\ ivs' = ivs
  <2>1. CASE CtrlSend \/ ReadHeader \/ ReadChunk \/ CtrlTimeout
    BY <1>2, <2>1
    DEF CtrlSend, ReadHeader, ReadChunk, CtrlTimeout, AttemptFailed, Return, clientVars
  <2>2. CASE ExchangeDone \/ RecvData \/ OpenOutput \/ WriteOutput
    BY <1>2, <2>2
    DEF ExchangeDone, RecvData, OpenOutput, OpenFails, WriteOutput, Return
  <2>3. CASE Serve \/ ServeShort \/ Restart \/ Link \/ UNCHANGED vars
    BY <1>2, <2>3
    DEF Serve, ServeShort, ServeWith, Restart, Link, LoseRequest, LoseReply, DuplicateChunk,
        LoseData, DamageData, clientVars, vars
  <2> QED
    BY <1>2, <2>1, <2>2, <2>3 DEF Next, Client, Idle
<1>3. CASE ~DrainIdle
  BY <1>2, <1>3 DEF Asked
<1> QED
  BY <1>1, <1>3

\* A request after the first round is never empty, which would mean the whole
\* file to svu_serve_loop, asks only for bytes that are missing or lie in a
\* block with the wrong digest, and asks for all of those unless it is full, for
\* every file, block size and limit on the ranges of a request.
THEOREM ReRequestHolds == Spec => []ReRequestIsTheDamage
<1>1. Init => Asked
  BY DEF Init, Asked
<1>2. IInv /\ Asked /\ [Next]_vars => Asked'
  BY AskedStep
<1>3. Asked => ReRequestIsTheDamage
  BY DEF Asked, Asks, ReRequestIsTheDamage
<1> QED
  BY <1>1, <1>2, <1>3, Invariance, PTL DEF Spec

-----------------------------------------------------------------------------
(* What a blast repairs                                                    *)

\* A multiple of d leaves no remainder.
LEMMA Multiple ==
  ASSUME NEW q \in Nat, NEW d \in Nat \ {0}
  PROVE  (q * d) % d = 0
  OBVIOUS

\* The bytes of file f that a request asks for.
AskedBytes(f, req) ==
  IF req = {} THEN 0 .. Len(f) - 1 ELSE RangeBytes(req) \cap (0 .. Len(f) - 1)

\* The ranges blasted for a request lie in the file and together are what it asks for.
LEMMA RangesBlasted ==
  ASSUME NEW f \in Seq(Byte), NEW req \in SUBSET Interval
  PROVE  /\ \A iv \in BlastRanges(f, req) :
              iv[1] \in Nat /\ iv[2] \in Nat /\ iv[1] < iv[2] /\ iv[2] <= Len(f)
         /\ \A i \in AskedBytes(f, req) :
              \E iv \in BlastRanges(f, req) : iv[1] <= i /\ i < iv[2]
<1>0. Len(f) \in Nat
  OBVIOUS
<1>1. CASE req = {}
  <2>1. BlastRanges(f, req) = {iv \in {<<0, Len(f)>>} : iv[1] < iv[2]}
    BY <1>1 DEF BlastRanges
  <2>2. ASSUME NEW i \in 0 .. Len(f) - 1
        PROVE  <<0, Len(f)>> \in BlastRanges(f, req) /\ 0 <= i /\ i < Len(f)
    BY <1>0, <2>1, <2>2
  <2> QED
    BY <1>0, <1>1, <2>1, <2>2 DEF AskedBytes
<1>2. CASE req # {}
  <2> DEFINE Clamp(jv) == <<jv[1], IF jv[2] > Len(f) THEN Len(f) ELSE jv[2]>>
  <2>1. BlastRanges(f, req) = {iv \in {Clamp(jv) : jv \in req} : iv[1] < iv[2]}
    BY <1>2 DEF BlastRanges
  <2>2. \A jv \in req : jv[1] \in Nat /\ jv[2] \in Nat
    BY DEF Interval
  <2>3. ASSUME NEW iv \in BlastRanges(f, req)
        PROVE  iv[1] \in Nat /\ iv[2] \in Nat /\ iv[1] < iv[2] /\ iv[2] <= Len(f)
    <3>1. PICK jv \in req : iv = Clamp(jv)
      BY <2>1
    <3> QED
      BY <1>0, <2>1, <2>2, <3>1
  <2>4. ASSUME NEW i \in AskedBytes(f, req)
        PROVE  \E iv \in BlastRanges(f, req) : iv[1] <= i /\ i < iv[2]
    <3>1. i \in RangeBytes(req) /\ i \in 0 .. Len(f) - 1
      BY <1>2 DEF AskedBytes
    <3>2. PICK jv \in req : i \in jv[1] .. jv[2] - 1
      BY <3>1 DEF RangeBytes
    <3>3. jv[1] <= i /\ i < jv[2] /\ i < Len(f) /\ i \in Int
      BY <1>0, <2>2, <3>1, <3>2
    <3>4. Clamp(jv)[1] <= i /\ i < Clamp(jv)[2] /\ Clamp(jv)[1] < Clamp(jv)[2]
      BY <1>0, <2>2, <3>3
    <3>5. Clamp(jv) \in BlastRanges(f, req)
      BY <2>1, <3>4
    <3> QED
      BY <3>4, <3>5
  <2> QED
    BY <2>3, <2>4
<1> QED
  BY <1>1, <1>2

\* A piece of a file.
LEMMA Piece ==
  ASSUME NEW f \in Seq(Byte), NEW o \in Nat, NEW last \in Nat, o < last, last <= Len(f)
  PROVE  /\ SubSeq(f, o + 1, last) \in Seq(Byte)
         /\ Len(SubSeq(f, o + 1, last)) = last - o
         /\ \A k \in 1 .. last - o : SubSeq(f, o + 1, last)[k] = f[o + k]
<1>1. Len(f) \in Nat /\ o + 1 \in 1 .. Len(f) + 1 /\ last \in o .. Len(f)
  OBVIOUS
<1>2. SubSeq(f, o + 1, last) \in Seq(Byte)
  BY <1>1
<1>3. Len(SubSeq(f, o + 1, last)) = last - o
  BY <1>1
<1>4. ASSUME NEW k \in 1 .. last - o
      PROVE  SubSeq(f, o + 1, last)[k] = f[o + k]
  <2>1. (o + 1) + k - 1 = o + k
    BY <1>1
  <2>2. SubSeq(f, o + 1, last)[k] = f[(o + 1) + k - 1]
    BY <1>1
  <2> QED
    BY <2>1, <2>2
<1> QED
  BY <1>2, <1>3, <1>4

\* A frame of a blast is a piece of the file.
LEMMA BlastGenuine ==
  ASSUME NEW f \in Seq(Byte), NEW req \in SUBSET Interval, NEW fr \in BlastAll(f, req)
  PROVE  /\ fr.off \in Nat /\ fr.bytes \in Seq(Byte)
         /\ fr.off + Len(fr.bytes) <= Len(f)
         /\ \A i \in Span(fr.off, fr.bytes) : fr.bytes[i - fr.off + 1] = f[i + 1]
<1>1. PICK iv \in BlastRanges(f, req) : fr \in blast_interval(f, iv)
  BY DEF BlastAll
<1>2. iv[1] \in Nat /\ iv[2] \in Nat /\ iv[1] < iv[2] /\ iv[2] <= Len(f)
  BY RangesBlasted
<1>3. PICK o \in iv[1] .. iv[2] - 1 :
        fr = [off |-> o,
              bytes |-> SubSeq(f, o + 1, IF o + Pay <= iv[2] THEN o + Pay ELSE iv[2])]
  BY <1>1 DEF blast_interval
<1> DEFINE last == IF o + Pay <= iv[2] THEN o + Pay ELSE iv[2]
<1>4. /\ o \in Nat /\ last \in Nat /\ last <= Len(f) /\ o < last
      /\ fr.off = o /\ fr.bytes = SubSeq(f, o + 1, last) /\ Len(f) \in Nat
  <2>1. Pay \in Nat \ {0} /\ Len(f) \in Nat /\ o \in Nat /\ iv[1] <= o /\ o < iv[2]
    BY <1>2, <1>3, TransferAssumption
  <2>2. last \in Nat /\ last <= Len(f) /\ o < last
    BY <1>2, <2>1
  <2>3. fr.off = o /\ fr.bytes = SubSeq(f, o + 1, last)
    BY <1>3
  <2> QED
    BY <2>1, <2>2, <2>3
<1> HIDE DEF last
<1>5. /\ fr.bytes \in Seq(Byte) /\ Len(fr.bytes) = last - o
      /\ \A k \in 1 .. last - o : fr.bytes[k] = f[o + k]
  BY <1>4, Piece
<1>6. ASSUME NEW i \in Span(fr.off, fr.bytes)
      PROVE  fr.bytes[i - fr.off + 1] = f[i + 1]
  <2>1. i \in Int /\ i - o + 1 \in 1 .. last - o /\ o + (i - o + 1) = i + 1
    BY <1>4, <1>5 DEF Span
  <2> QED
    BY <1>4, <1>5, <2>1
<1>7. fr.off \in Nat /\ fr.off + Len(fr.bytes) <= Len(f)
  BY <1>4, <1>5
<1> QED
  BY <1>5, <1>6, <1>7

\* Every byte that is asked for travels in a frame of the blast.
LEMMA BlastReaches ==
  ASSUME NEW f \in Seq(Byte), NEW req \in SUBSET Interval, NEW i \in AskedBytes(f, req)
  PROVE  \E fr \in BlastAll(f, req) : i \in Span(fr.off, fr.bytes)
<1>1. PICK iv \in BlastRanges(f, req) : iv[1] <= i /\ i < iv[2]
  BY RangesBlasted
<1>2. iv[1] \in Nat /\ iv[2] \in Nat /\ iv[2] <= Len(f) /\ Len(f) \in Nat /\ i \in Int
  BY RangesBlasted DEF AskedBytes
<1>3. Pay \in Nat \ {0}
  BY TransferAssumption
<1>4. PICK d \in Nat : d = i - iv[1]
  BY <1>1, <1>2
<1>5. PICK q \in Nat : q = d \div Pay
  BY <1>3, <1>4, DivFacts
<1>6. q * Pay <= d /\ d < (q + 1) * Pay
  BY <1>3, <1>5, DivFacts
<1>7. PICK m \in Nat : m = q * Pay
  BY <1>3
<1>8. m <= d /\ d < m + Pay /\ m % Pay = 0
  BY <1>3, <1>6, <1>7, Multiple
<1> DEFINE o    == iv[1] + m
           last == IF o + Pay <= iv[2] THEN o + Pay ELSE iv[2]
           fr   == [off |-> o, bytes |-> SubSeq(f, o + 1, last)]
<1>9. /\ o \in iv[1] .. iv[2] - 1 /\ o - iv[1] = m
      /\ o <= i /\ i < last /\ last \in Nat /\ last <= Len(f) /\ o \in Nat
  <2>1. /\ iv[1] <= o /\ o <= i /\ o - iv[1] = m /\ o \in Nat /\ i < o + Pay
    <3>1. iv[1] + m \in Nat /\ (iv[1] + m) - iv[1] = m /\ iv[1] <= iv[1] + m
      BY <1>2
    <3>2. iv[1] + m <= i /\ i < (iv[1] + m) + Pay
      BY <1>2, <1>3, <1>4, <1>8
    <3> QED
      BY <3>1, <3>2
  <2> HIDE DEF o
  <2>2. i < last /\ last \in Nat /\ last <= Len(f)
    BY <1>1, <1>2, <1>3, <2>1
  <2>3. o \in iv[1] .. iv[2] - 1
    BY <1>1, <1>2, <2>1
  <2> QED
    BY <2>1, <2>2, <2>3
<1>10. fr \in blast_interval(f, iv)
  BY <1>8, <1>9 DEF blast_interval
<1>11. i \in Span(fr.off, fr.bytes)
  <2> HIDE DEF last, o
  <2>1. Len(SubSeq(f, o + 1, last)) = last - o
    BY <1>2, <1>9
  <2> QED
    BY <1>2, <1>9, <2>1 DEF Span
<1> QED
  BY <1>1, <1>10, <1>11 DEF BlastAll

\* Byte i of the tracker s is there and is that of file f.
Right(s, f, i) == i \in s.covered /\ s.data[i + 1] = f[i + 1]

\* The tracker was made for file f.
TrackerOf(s, f) == s # NoTracker /\ s.total = Len(f) /\ s.expected = ci_svu_manifest(f)

\* A piece of the file that is accepted makes its bytes right, and no right byte wrong.
LEMMA AcceptRepairs ==
  ASSUME NEW s, TrackerOK(s), NEW f \in Seq(Byte), s.total = Len(f),
         NEW off \in Nat, NEW buf \in Seq(Byte), off + Len(buf) <= Len(f),
         \A i \in Span(off, buf) : buf[i - off + 1] = f[i + 1]
  PROVE  \A i \in 0 .. Len(f) - 1 :
           Right(s, f, i) \/ i \in Span(off, buf) => Right(ci_svu_accept(s, off, buf), f, i)
<1> DEFINE t == ci_svu_accept(s, off, buf)
           D == [i \in 1 .. s.total |-> IF i - 1 \in Span(off, buf) THEN buf[i - off] ELSE s.data[i]]
<1>1. Fits(s, off, buf)
  BY DEF Fits
<1>2. /\ s = [total |-> s.total, nblocks |-> s.nblocks, covered_count |-> s.covered_count,
              covered |-> s.covered, data |-> s.data, expected |-> s.expected]
  BY DEF TrackerOK
<1>3. t.covered = s.covered \cup Span(off, buf) /\ t.data = D
  <2>1. t = [s EXCEPT !.covered = s.covered \cup Span(off, buf),
                      !.covered_count = s.covered_count + Cardinality(Span(off, buf) \ s.covered),
                      !.data = D]
    BY <1>1 DEF ci_svu_accept
  <2> HIDE DEF t, D
  <2> QED
    BY <1>2, <2>1
<1> HIDE DEF t
<1> SUFFICES ASSUME NEW i \in 0 .. Len(f) - 1, Right(s, f, i) \/ i \in Span(off, buf)
             PROVE  Right(t, f, i)
  BY DEF t
<1>4. i + 1 \in 1 .. s.total /\ i \in Int /\ (i + 1) - 1 = i /\ (i + 1) - off = i - off + 1
  OBVIOUS
<1>5. CASE i \in Span(off, buf)
  BY <1>3, <1>4, <1>5 DEF Right
<1>6. CASE i \notin Span(off, buf)
  BY <1>3, <1>4, <1>6 DEF Right
<1> QED
  BY <1>5, <1>6

\* A tracker all of whose bytes are right reports the payload complete and verified.
LEMMA RightIsVerified ==
  ASSUME NEW s, TrackerOK(s), NEW f \in Seq(Byte), TrackerOf(s, f),
         \A i \in 0 .. Len(f) - 1 : Right(s, f, i)
  PROVE  Status(s) = "COMPLETE_VERIFIED"
<1>1. s.total = Len(f) /\ s.total \in Nat /\ s.covered \subseteq 0 .. s.total - 1
  BY DEF TrackerOK, TrackerOf
<1>2. ~(s.covered_count < s.total)
  BY <1>1, CountIsCoverage DEF Right
<1>3. s.data = f
  <2>1. s.data \in Seq(Byte) /\ Len(s.data) = Len(f) /\ Len(f) \in Nat
    BY <1>1, DataIsSeq
  <2>2. ASSUME NEW k \in 1 .. Len(f) PROVE s.data[k] = f[k]
    <3>1. k - 1 \in 0 .. Len(f) - 1 /\ (k - 1) + 1 = k
      BY <2>1
    <3> QED
      BY <3>1 DEF Right
  <2> QED
    BY <2>1, <2>2
<1>4. BadBlocks(s) = {}
  <2>1. s.nblocks = ci_svu_nblocks(Len(f))
    BY <1>1 DEF TrackerOK
  <2>2. \A b \in 0 .. s.nblocks - 1 : s.expected[b] = hash_block(f, b)
    BY <2>1 DEF TrackerOf, ci_svu_manifest
  <2> QED
    BY <1>3, <2>2 DEF BadBlocks
<1> QED
  BY <1>2, <1>4 DEF Status

\* A tracker with the manifest of file f reports COMPLETE_VERIFIED exactly when every
\* byte of f has been covered and the payload is f: the verdict of ci_svu_verify accepts
\* no other payload, and accepts that one.
THEOREM VerifiedIsTheFile ==
  ASSUME NEW s, TrackerOK(s), NEW f \in Seq(Byte), Len(f) < Word, TrackerOf(s, f)
  PROVE  Status(s) = "COMPLETE_VERIFIED" <=> s.covered = 0 .. Len(f) - 1 /\ s.data = f
<1>1. /\ s.total = Len(f) /\ s.nblocks = ci_svu_nblocks(Len(f)) /\ s.nblocks # 0
      /\ s.expected = ci_svu_manifest(f)
  BY DEF TrackerOK, TrackerOf
<1>2. s.data \in Seq(Byte) /\ Len(s.data) = Len(f)
  BY <1>1, DataIsSeq
<1>3. ASSUME Status(s) = "COMPLETE_VERIFIED" PROVE s.covered = 0 .. Len(f) - 1 /\ s.data = f
  <2>1. /\ s.covered = 0 .. Len(f) - 1
        /\ \A b \in 0 .. ci_svu_nblocks(Len(f)) - 1 : hash_block(s.data, b) = s.expected[b]
    BY <1>1, <1>3, VerifiedIsWhole
  <2> QED
    BY <1>1, <1>2, <2>1, ManifestDetermines
<1>4. ASSUME s.covered = 0 .. Len(f) - 1, s.data = f PROVE Status(s) = "COMPLETE_VERIFIED"
  BY <1>4, RightIsVerified DEF Right
<1> QED
  BY <1>3, <1>4

-----------------------------------------------------------------------------
(* A round the link leaves alone: what it is like                          *)

\* What has been sent in answer to the request of this round.
Answered == rfile = src /\ data = BlastAll(src, ivs)

\* The chunks read and those under way are the whole manifest in order.
InOrder ==
  /\ Len(man) + Len(reply) = ci_svu_nblocks(Len(src))
  /\ \A k \in 1 .. Len(man) : man[k] = k
  /\ \A k \in 1 .. Len(reply) : reply[k] = Len(man) + k

\* A frame under way holds byte i.
Coming(i) == \E fr \in data : i \in Span(fr.off, fr.bytes)

\* How far a round is that has been left alone.
InRound ==
  /\ attempt <= 1
  /\ pc = "ctrl" => attempt = 0 /\ backlog = <<>> /\ data = {}
  /\ pc = "hdr" =>
       /\ man = <<>>
       /\ \/ backlog = <<[live |-> TRUE, ivs |-> ivs]>> /\ reply = <<>> /\ data = {}
          \/ backlog = <<>> /\ Answered /\ reply = Packets(src)
  /\ pc = "man" => backlog = <<>> /\ Answered /\ InOrder
  /\ pc = "drain" =>
       /\ backlog = <<>>
       /\ data \subseteq BlastAll(src, ivs)
       /\ TrackerOf(recv, src) =>
            \A i \in AskedBytes(src, ivs) : Right(recv, src, i) \/ Coming(i)

\* No fault of the link or the buffer pool, and no restart of the sender, in a step.
Undisturbed == UNCHANGED <<faults, restarts>>

\* A step that begins a round.
NewRound == round' = round + 1

LEMMA NoFaultLeft ==
  ASSUME TypeOK, Undisturbed
  PROVE  ~Fault /\ ~Restart
  BY DEF TypeOK, Undisturbed, Fault, Restart

LEMMA FileFacts ==
  ASSUME TypeOK
  PROVE  /\ src \in Seq(Byte) /\ Len(src) \in Nat /\ Len(src) < Word
         /\ ci_svu_nblocks(Len(src)) \in Nat /\ ivs \in SUBSET Interval
<1>1. src \in Seq(Byte) /\ Len(src) \in Nat /\ Len(src) < Word
  BY TransferAssumption DEF TypeOK
<1> QED
  BY <1>1, NblocksType DEF TypeOK

\* A silent drain that nothing disturbs leaves nothing under way behind.
LEMMA RoundBegins ==
  ASSUME IInv, [Next]_vars, Undisturbed, NewRound
  PROVE  InRound'
<1>0. TypeOK /\ ClosedConn /\ round \in Int
  BY TransferAssumption DEF IInv, TypeOK
<1>1. ~Fault /\ ~Restart
  BY <1>0, NoFaultLeft
<1>2. DrainIdle
  <2>1. round' # round
    BY <1>0 DEF NewRound
  <2> QED
    BY <2>1
    DEF Next, Client, Link, Idle, CtrlSend, ReadHeader, ReadChunk, CtrlTimeout, ExchangeDone,
        RecvData, OpenOutput, WriteOutput, Serve, ServeShort, ServeWith, Restart,
        LoseRequest, LoseReply, DuplicateChunk, LoseData, DamageData, clientVars, vars
<1>3. data = {} /\ backlog = <<>> /\ backlog' = backlog
  BY <1>1, <1>2 DEF DrainIdle, IdleWindow, ctrlVars
<1>4. pc' = "ctrl" /\ attempt' = 0 /\ data' = data
  <2>1. round' # round
    BY <1>0 DEF NewRound
  <2> QED
    BY <1>2, <2>1 DEF DrainIdle, DrainVerified, DrainAgain, NextRound, GiveUp
<1> QED
  BY <1>3, <1>4 DEF InRound

\* The first round begins so when nothing was under way before the call.
LEMMA FirstRoundBegins ==
  ASSUME Init, data = {}
  PROVE  InRound
  BY DEF Init, InRound

\* The answer of such a round begins with its header.
LEMMA HeaderFirst ==
  ASSUME TypeOK, InRound, ReadHeader
  PROVE  /\ man = <<>> /\ backlog = <<>> /\ Answered /\ reply = Packets(src)
         /\ Head(reply) = 0 /\ pc' = "man"
<1>1. /\ pc = "hdr" /\ man = <<>> /\ backlog = <<>> /\ Answered /\ reply = Packets(src)
  BY DEF ReadHeader, InRound
<1> DEFINE n == ci_svu_nblocks(Len(src))
<1>2. /\ Packets(src) \in Seq(Nat) /\ Len(Packets(src)) = n + 1 /\ n \in Nat
      /\ \A k \in 1 .. n + 1 : Packets(src)[k] = k - 1
  BY FileFacts, PacketsType
<1> HIDE DEF n
<1>3. Head(reply) = reply[1] /\ 1 \in 1 .. n + 1
  BY <1>1, <1>2
<1>4. Head(reply) = 0
  BY <1>1, <1>2, <1>3
<1> QED
  BY <1>1, <1>4 DEF ReadHeader

\* No read of its exchange runs out of time.
LEMMA NoTimeout ==
  ASSUME TypeOK, InRound, Undisturbed
  PROVE  ~CtrlTimeout
<1> SUFFICES ASSUME CtrlTimeout PROVE FALSE
  OBVIOUS
<1> DEFINE n == ci_svu_nblocks(Len(src))
<1>a. n \in Nat /\ man \in Seq(Nat) /\ reply \in Seq(Nat) /\ Len(Packets(src)) = n + 1
  BY FileFacts, PacketsType DEF TypeOK
<1>1. reply = <<>> /\ \A i \in 1 .. Len(backlog) : ~backlog[i].live
  BY NoFaultLeft DEF CtrlTimeout
<1>2. CASE pc = "hdr"
  <2>1. CASE backlog = <<[live |-> TRUE, ivs |-> ivs]>>
    <3>1. Len(backlog) = 1 /\ backlog[1].live
      BY <2>1
    <3> QED
      BY <1>1, <3>1
  <2>2. CASE reply = Packets(src)
    <3>1. Len(reply) = n + 1 /\ Len(reply) = 0
      BY <1>a, <1>1, <2>2
    <3> HIDE DEF n
    <3> QED
      BY <1>a, <3>1
  <2> QED
    BY <1>2, <2>1, <2>2 DEF InRound
<1>3. CASE pc = "man" /\ Len(man) < ci_svu_nblocks(Len(rfile))
  <2>1. Len(man) + Len(reply) = n /\ rfile = src
    BY <1>3 DEF InRound, InOrder, Answered
  <2>2. Len(man) < n /\ Len(reply) = 0 /\ Len(man) \in Nat
    BY <1>a, <1>1, <1>3, <2>1
  <2> HIDE DEF n
  <2> QED
    BY <1>a, <2>1, <2>2
<1> QED
  BY <1>2, <1>3 DEF CtrlTimeout

\* The client and the sender in the control exchange of such a round.
LEMMA ExchangeStep ==
  ASSUME IInv, InRound, pc \in {"ctrl", "hdr", "man"}, Next, Undisturbed
  PROVE  InRound'
<1>0. /\ TypeOK /\ ClosedConn /\ Progress
      /\ src \in Seq(Byte) /\ Len(src) \in Nat /\ Len(src) < Word
      /\ ivs \in SUBSET Interval
  BY FileFacts DEF IInv
<1> DEFINE n == ci_svu_nblocks(Len(src))
<1>a. n \in Nat
  BY <1>0, FileFacts
<1>b. ~Fault /\ ~Restart
  BY <1>0, NoFaultLeft
<1>c. attempt \in Nat /\ man \in Seq(Nat) /\ reply \in Seq(Nat)
  BY <1>0, TransferAssumption DEF TypeOK
<1>p. /\ Packets(src) \in Seq(Nat) /\ Len(Packets(src)) = n + 1
      /\ \A k \in 1 .. n + 1 : Packets(src)[k] = k - 1
  BY <1>0, PacketsType
<1>1. CASE CtrlSend
  <2>1. /\ pc = "ctrl" /\ attempt = 0 /\ backlog = <<>> /\ data = {} /\ man = <<>> /\ reply = <<>>
    BY <1>0, <1>1 DEF CtrlSend, InRound, ClosedConn
  <2>2. /\ attempt' = 1 /\ pc' = "hdr" /\ data' = {} /\ man' = <<>> /\ reply' = <<>> /\ ivs' = ivs
        /\ backlog' = Append(<<>>, [live |-> TRUE, ivs |-> ivs])
    BY <1>1, <2>1 DEF CtrlSend
  <2>3. backlog' = <<[live |-> TRUE, ivs |-> ivs']>>
    BY <2>2
  <2> QED
    BY <2>2, <2>3 DEF InRound
<1>2. CASE ReadHeader
  <2>1. /\ pc = "hdr" /\ man = <<>> /\ backlog = <<>> /\ Answered /\ reply = Packets(src)
        /\ attempt <= 1 /\ Head(reply) = 0
    BY <1>0, <1>2, HeaderFirst DEF ReadHeader, InRound
  <2>2. Tail(reply) \in Seq(Nat) /\ Len(Tail(reply)) = n
        /\ \A k \in 1 .. n : Tail(reply)[k] = k
    <3> HIDE DEF n
    <3>1. \A k \in 1 .. n : Tail(reply)[k] = reply[k + 1]
      BY <1>a, <1>p, <2>1
    <3>2. \A k \in 1 .. n : k + 1 \in 1 .. n + 1 /\ (k + 1) - 1 = k
      BY <1>a
    <3> QED
      BY <1>a, <1>p, <2>1, <3>1, <3>2
  <2>3. /\ pc' = "man" /\ reply' = Tail(reply) /\ UNCHANGED <<backlog, rfile, man, data, src, ivs, attempt>>
    BY <1>2, <2>1 DEF ReadHeader, senderVars
  <2>4. InOrder'
    <3> HIDE DEF n
    <3>1. Len(man') = 0 /\ Len(reply') = n /\ \A k \in 1 .. n : reply'[k] = k
      BY <2>1, <2>2, <2>3
    <3>2. ci_svu_nblocks(Len(src')) = n
      BY <2>3 DEF n
    <3> QED
      BY <1>a, <3>1, <3>2 DEF InOrder
  <2> QED
    BY <2>1, <2>3, <2>4 DEF InRound, Answered
<1>3. CASE ReadChunk
  <2>1. /\ pc = "man" /\ backlog = <<>> /\ Answered /\ InOrder /\ attempt <= 1 /\ reply # <<>>
        /\ man' = Append(man, Head(reply)) /\ reply' = Tail(reply)
        /\ UNCHANGED <<backlog, rfile, pc, data, src, ivs, attempt>>
    BY <1>3 DEF ReadChunk, InRound, senderVars, clientVars
  <2>2. InOrder'
    <3> HIDE DEF n
    <3>1. PICK m \in Nat : m = Len(man)
      BY <1>c
    <3>2. PICK r \in Nat : r = Len(reply)
      BY <1>c
    <3>3. /\ m + r = n /\ r >= 1 /\ reply[1] = m + 1 /\ Head(reply) = reply[1]
          /\ \A k \in 1 .. m : man[k] = k
          /\ \A k \in 1 .. r : reply[k] = m + k
      BY <1>c, <2>1, <3>1, <3>2 DEF InOrder, n
    <3>4. /\ Len(man') = m + 1 /\ man'[m + 1] = Head(reply) /\ \A k \in 1 .. m : man'[k] = man[k]
          /\ Len(reply') = r - 1 /\ \A k \in 1 .. r - 1 : reply'[k] = reply[k + 1]
      <4>1. Head(reply) \in Nat
        BY <1>c, <2>1
      <4>2. /\ Len(man') = m + 1 /\ man'[m + 1] = Head(reply)
            /\ \A k \in 1 .. m : man'[k] = man[k]
        BY <1>c, <2>1, <3>1, <4>1
      <4>3. Len(reply') = r - 1 /\ \A k \in 1 .. r - 1 : reply'[k] = reply[k + 1]
        BY <1>c, <2>1, <3>2
      <4> QED
        BY <4>2, <4>3
    <3>5. \A k \in 1 .. m + 1 : man'[k] = k
      BY <3>3, <3>4
    <3>6. \A k \in 1 .. r - 1 : reply'[k] = (m + 1) + k
      <4>1. \A k \in 1 .. r - 1 : k + 1 \in 1 .. r /\ m + (k + 1) = (m + 1) + k
        OBVIOUS
      <4> QED
        BY <3>3, <3>4, <4>1
    <3>7. ci_svu_nblocks(Len(src')) = n
      BY <2>1 DEF n
    <3>8. (m + 1) + (r - 1) = n
      BY <3>3
    <3> QED
      BY <3>4, <3>5, <3>6, <3>7, <3>8 DEF InOrder
  <2> QED
    BY <2>1, <2>2 DEF InRound, Answered
<1>4. CASE CtrlTimeout
  BY <1>0, <1>4, NoTimeout
<1>5. CASE ExchangeDone
  <2>1. pc = "man" /\ backlog = <<>> /\ Answered /\ attempt <= 1
    BY <1>5 DEF ExchangeDone, InRound
  <2>2. backlog' = <<>>
    <3>1. backlog' = [i \in 1 .. Len(backlog) |-> [backlog[i] EXCEPT !.live = FALSE]] /\ Len(backlog) = 0
      BY <1>5, <2>1 DEF ExchangeDone, CloseConn
    <3> QED
      BY <3>1
  <2>3. UNCHANGED <<src, ivs, attempt>> /\ pc' \in {"drain", "done"}
    BY <1>5 DEF ExchangeDone, Return, senderVars
  <2>4. CASE pc' = "drain"
    <3>1. data' = BlastAll(src, ivs)
      BY <1>5, <2>1, <2>4 DEF ExchangeDone, Return, Answered
    <3>2. \A i \in AskedBytes(src, ivs) : \E fr \in BlastAll(src, ivs) : i \in Span(fr.off, fr.bytes)
      BY <1>0, BlastReaches
    <3>3. \A i \in AskedBytes(src', ivs') : Coming(i)'
      BY <2>3, <3>1, <3>2 DEF Coming
    <3>4. data' \subseteq BlastAll(src', ivs')
      BY <2>3, <3>1
    <3> QED
      BY <2>1, <2>2, <2>3, <2>4, <3>3, <3>4 DEF InRound
  <2>5. CASE pc' = "done"
    BY <2>1, <2>3, <2>5 DEF InRound
  <2> QED
    BY <2>3, <2>4, <2>5
<1>6. CASE Serve
  <2>1. backlog # <<>>
    BY <1>6 DEF Serve
  <2>2. /\ pc = "hdr" /\ man = <<>> /\ attempt <= 1
        /\ backlog = <<[live |-> TRUE, ivs |-> ivs]>> /\ reply = <<>> /\ data = {}
    BY <2>1 DEF InRound
  <2>3. Head(backlog).live /\ Head(backlog).ivs = ivs /\ Tail(backlog) = <<>>
    BY <2>2
  <2>4. /\ backlog' = <<>> /\ reply' = Packets(src) /\ rfile' = src /\ data' = BlastAll(src, ivs)
        /\ UNCHANGED <<src, man, pc, attempt, ivs>>
    BY <1>6, <2>2, <2>3 DEF Serve, ServeWith, senderVars, clientVars
  <2> QED
    BY <2>2, <2>4 DEF InRound, Answered
<1>7. CASE ServeShort \/ Link
  BY <1>b, <1>7 DEF ServeShort, Link, LoseRequest, LoseReply, DuplicateChunk, LoseData, DamageData
<1>8. CASE RecvData \/ DrainIdle \/ OpenOutput \/ WriteOutput \/ Idle
  BY <1>8 DEF RecvData, DrainIdle, OpenOutput, WriteOutput, Idle
<1> QED
  BY <1>b, <1>1, <1>2, <1>3, <1>4, <1>5, <1>6, <1>7, <1>8 DEF Next, Client

\* The frame taken in such a round is a piece of the file, whose bytes it makes right.
LEMMA RecvStep ==
  ASSUME IInv, InRound, RecvData, Undisturbed
  PROVE  /\ TrackerOf(recv, src) =>
              \A i \in 0 .. Len(src) - 1 : Right(recv, src, i) => Right(recv', src', i)
         /\ InRound'
<1>0. /\ TypeOK /\ Progress /\ pc = "drain" /\ recv # NoTracker /\ TrackerOK(recv) /\ ~Fault
      /\ src \in Seq(Byte) /\ Len(src) \in Nat /\ ivs \in SUBSET Interval
  BY FileFacts, NoFaultLeft DEF IInv, TypeOK, RecvData, Progress
<1>1. PICK fr \in data : /\ recv' = ci_svu_accept(recv, fr.off, fr.bytes)
                         /\ data' = data \ {fr}
  BY <1>0 DEF RecvData
<1>2. fr \in BlastAll(src, ivs)
  BY <1>0, <1>1 DEF InRound
<1>3. /\ fr.off \in Nat /\ fr.bytes \in Seq(Byte) /\ fr.off + Len(fr.bytes) <= Len(src)
      /\ \A i \in Span(fr.off, fr.bytes) : fr.bytes[i - fr.off + 1] = src[i + 1]
  BY <1>0, <1>2, BlastGenuine
<1>4. UNCHANGED <<src, ivs, pc, attempt, backlog>>
  BY DEF RecvData, senderVars, ctrlVars
<1>5. recv'.total = recv.total /\ recv'.expected = recv.expected
  BY <1>0, <1>1, <1>3, AcceptOK
<1>6. TrackerOf(recv, src) =>
        \A i \in 0 .. Len(src) - 1 :
          Right(recv, src, i) \/ i \in Span(fr.off, fr.bytes) => Right(recv', src', i)
  BY <1>0, <1>1, <1>3, <1>4, AcceptRepairs DEF TrackerOf
<1>7. TrackerOf(recv', src') => TrackerOf(recv, src)
  BY <1>0, <1>4, <1>5 DEF TrackerOf
<1>8. ASSUME TrackerOf(recv', src'), NEW i \in AskedBytes(src', ivs')
      PROVE  Right(recv', src', i) \/ Coming(i)'
  <2>1. i \in AskedBytes(src, ivs) /\ i \in 0 .. Len(src) - 1
    BY <1>4, <1>8 DEF AskedBytes
  <2>2. Right(recv, src, i) \/ Coming(i)
    BY <1>0, <1>7, <1>8, <2>1 DEF InRound
  <2>3. CASE Right(recv, src, i)
    BY <1>6, <1>7, <1>8, <2>1, <2>3
  <2>4. CASE Coming(i)
    <3>1. PICK gr \in data : i \in Span(gr.off, gr.bytes)
      BY <2>4 DEF Coming
    <3>2. CASE gr = fr
      BY <1>6, <1>7, <1>8, <2>1, <3>1, <3>2
    <3>3. CASE gr # fr
      BY <1>1, <3>1, <3>3 DEF Coming
    <3> QED
      BY <3>2, <3>3
  <2> QED
    BY <2>2, <2>3, <2>4
<1>9. data' \subseteq BlastAll(src', ivs')
  BY <1>0, <1>1, <1>4 DEF InRound
<1>10. backlog' = <<>> /\ attempt' <= 1 /\ pc' = "drain"
  BY <1>0, <1>4 DEF InRound
<1>11. InRound'
  BY <1>8, <1>9, <1>10 DEF InRound
<1> QED
  BY <1>6, <1>11

\* A round stays so until something disturbs it.
LEMMA RoundStep ==
  ASSUME IInv, InRound, [Next]_vars, Undisturbed
  PROVE  InRound'
<1>0. TypeOK /\ ~Fault /\ ~Restart
  BY NoFaultLeft DEF IInv
<1>1. CASE pc \in {"ctrl", "hdr", "man"} /\ Next
  BY <1>1, ExchangeStep
<1>2. CASE RecvData
  BY <1>2, RecvStep
<1>3. CASE DrainIdle
  <2>1. CASE NewRound
    BY <2>1, RoundBegins
  <2>2. CASE DrainVerified \/ GiveUp
    BY <1>3, <2>2 DEF DrainIdle, DrainVerified, GiveUp, Return, InRound
  <2>3. CASE DrainAgain
    <3>1. UNCHANGED <<src, ivs, pc, attempt, backlog, data, recv>>
      BY <1>3, <2>3 DEF DrainIdle, DrainAgain, senderVars, ctrlVars
    <3>2. pc = "drain"
      BY <1>3 DEF DrainIdle
    <3> QED
      BY <3>1, <3>2 DEF InRound, Coming
  <2> QED
    BY <1>3, <2>1, <2>2, <2>3 DEF DrainIdle, NextRound, NewRound
<1>4. CASE OpenOutput \/ WriteOutput
  BY <1>4 DEF OpenOutput, OpenFails, WriteOutput, Return, InRound
<1>5. CASE Serve /\ pc \notin {"ctrl", "hdr", "man"}
  <2>1. backlog # <<>>
    BY <1>5 DEF Serve
  <2>2. pc # "drain"
    BY <2>1 DEF InRound
  <2>3. UNCHANGED <<pc, attempt>>
    BY <1>5 DEF Serve, ServeWith, clientVars
  <2>4. attempt <= 1
    BY DEF InRound
  <2> QED
    BY <1>5, <2>2, <2>3, <2>4 DEF InRound
<1>6. CASE ServeShort \/ Link
  BY <1>0, <1>6 DEF ServeShort, Link, LoseRequest, LoseReply, DuplicateChunk, LoseData, DamageData
<1>7. CASE UNCHANGED vars
  BY <1>7 DEF vars, InRound, Answered, InOrder, Coming
<1>8. CASE \/ CtrlSend \/ ReadHeader \/ ReadChunk \/ CtrlTimeout \/ ExchangeDone
  <2>1. pc \in {"ctrl", "hdr", "man"} /\ Next
    BY <1>8 DEF CtrlSend, ReadHeader, ReadChunk, CtrlTimeout, ExchangeDone, Next, Client
  <2> QED
    BY <1>1, <2>1
<1>9. CASE Serve /\ pc \in {"ctrl", "hdr", "man"}
  BY <1>1, <1>9 DEF Next
<1> QED
  BY <1>0, <1>2, <1>3, <1>4, <1>5, <1>6, <1>7, <1>8, <1>9 DEF Next, Client, Idle

\* Chunks in order make the manifest of the file.
LEMMA ManifestInOrder ==
  ASSUME NEW f \in Seq(Byte), NEW m \in Seq(Nat), Len(m) = ci_svu_nblocks(Len(f)),
         \A k \in 1 .. Len(m) : m[k] = k
  PROVE  Assembled(f, m) = ci_svu_manifest(f)
<1>1. \A b \in 0 .. Len(m) - 1 : m[b + 1] - 1 = b
  OBVIOUS
<1>2. \A b \in 0 .. Len(m) - 1 : hash_block(f, m[b + 1] - 1) = hash_block(f, b)
  BY <1>1
<1>3. Assembled(f, m) = [b \in 0 .. Len(m) - 1 |-> hash_block(f, m[b + 1] - 1)]
  BY DEF Assembled
<1>4. ci_svu_manifest(f) = [b \in 0 .. Len(m) - 1 |-> hash_block(f, b)]
  BY DEF ci_svu_manifest
<1> QED
  BY <1>2, <1>3, <1>4

\* When the request was answered in full and all else was right before, the verdict is good.
Rest == \A i \in 0 .. Len(src) - 1 : i \in AskedBytes(src, ivs) \/ Right(recv, src, i)

LEMMA CalmVerdict ==
  ASSUME IInv, InRound, DrainIdle, Undisturbed, TrackerOf(recv, src), Rest
  PROVE  pc' = "open"
<1>1. TypeOK /\ ~Fault /\ pc = "drain" /\ TrackerOK(recv) /\ src \in Seq(Byte)
  BY NoFaultLeft, FileFacts DEF IInv, TypeOK, DrainIdle, TrackerOf
<1>2. data = {}
  BY <1>1 DEF DrainIdle, IdleWindow
<1>3. \A i \in AskedBytes(src, ivs) : Right(recv, src, i)
  BY <1>1, <1>2 DEF InRound, Coming
<1>4. \A i \in 0 .. Len(src) - 1 : Right(recv, src, i)
  BY <1>3 DEF Rest
<1>5. Status(recv) = "COMPLETE_VERIFIED"
  BY <1>1, <1>4, RightIsVerified
<1> QED
  BY <1>5 DEF DrainIdle, DrainVerified, ci_svu_verify

-----------------------------------------------------------------------------
(* A round the link leaves alone: what it achieves                         *)

\* A history variable: nothing was under way when it began, and no fault and no restart since.
VARIABLE calm

CalmNext == calm' = (Undisturbed /\ (calm \/ NewRound))
CalmSpec == Spec /\ calm = (data = {}) /\ [][CalmNext]_<<vars, calm>>

CalmInv == IInv /\ (calm => InRound)

LEMMA CalmInvStep ==
  ASSUME CalmInv, [Next]_vars, [CalmNext]_<<vars, calm>>
  PROVE  CalmInv'
<1>1. IInv'
  BY StepInv DEF CalmInv
<1>2. CASE CalmNext /\ calm'
  BY <1>1, <1>2, RoundBegins, RoundStep DEF CalmNext, CalmInv
<1>3. CASE UNCHANGED <<vars, calm>> /\ calm'
  <2>1. InRound /\ Undisturbed
    BY <1>3 DEF CalmInv, Undisturbed, vars
  <2> QED
    BY <1>1, <2>1, RoundStep DEF CalmInv
<1>4. CASE ~calm'
  BY <1>1, <1>4 DEF CalmInv
<1> QED
  BY <1>2, <1>3, <1>4

LEMMA CalmInvAlways == CalmSpec => []CalmInv
<1>1. Init /\ calm = (data = {}) => CalmInv
  BY InitInv, FirstRoundBegins DEF CalmInv
<1> QED
  BY <1>1, CalmInvStep, PTL DEF CalmSpec, Spec

\* A round that the link leaves alone repairs what it asked for: when the drain has taken
\* all that was sent, every byte the request named is the file's, if the tracker was made
\* for the file that is served.  It needs one control exchange.
THEOREM CalmRoundRepairs ==
  CalmSpec => [](calm => /\ attempt <= 1
                         /\ pc = "drain" /\ data = {} /\ TrackerOf(recv, src) =>
                              \A i \in AskedBytes(src, ivs) : Right(recv, src, i))
<1>1. CalmInv => (calm => /\ attempt <= 1
                          /\ pc = "drain" /\ data = {} /\ TrackerOf(recv, src) =>
                               \A i \in AskedBytes(src, ivs) : Right(recv, src, i))
  BY DEF CalmInv, InRound, Coming
<1> QED
  BY <1>1, CalmInvAlways, PTL

\* In such a round no byte that was right becomes wrong, though frames are not checked
\* one by one and the last writer wins.
THEOREM CalmRoundKeeps ==
  CalmSpec => [][calm /\ calm' /\ TrackerOf(recv, src) /\ recv' # NoTracker =>
                   \A i \in 0 .. Len(src) - 1 : Right(recv, src, i) => Right(recv', src', i)]_vars
<1>1. ASSUME CalmInv, [Next]_vars, [CalmNext]_<<vars, calm>>
      PROVE  [calm /\ calm' /\ TrackerOf(recv, src) /\ recv' # NoTracker =>
                \A i \in 0 .. Len(src) - 1 : Right(recv, src, i) => Right(recv', src', i)]_vars
  <2> SUFFICES ASSUME calm, calm', TrackerOf(recv, src), recv' # NoTracker, ~UNCHANGED vars
               PROVE  \A i \in 0 .. Len(src) - 1 : Right(recv, src, i) => Right(recv', src', i)
    OBVIOUS
  <2>1. Undisturbed /\ IInv /\ InRound /\ Next
    BY <1>1 DEF CalmNext, CalmInv
  <2>2. ~Fault /\ ~Restart
    BY <2>1, NoFaultLeft DEF IInv
  <2>3. CASE RecvData
    BY <2>1, <2>3, RecvStep
  <2>4. CASE ~RecvData
    <3>1. recv' = recv /\ src' = src
      BY <2>1, <2>2, <2>4
      DEF Next, Client, Link, Idle, CtrlSend, ReadHeader, ReadChunk, CtrlTimeout, AttemptFailed,
          ExchangeDone, DrainIdle, DrainVerified, DrainAgain, NextRound, GiveUp, OpenOutput,
          OpenFails, WriteOutput, Return, Serve, ServeShort, ServeWith, LoseRequest, LoseReply,
          DuplicateChunk, LoseData, DamageData, senderVars, ctrlVars, clientVars, vars, TrackerOf
    <3> QED
      BY <3>1
  <2> QED
    BY <2>3, <2>4
<1> QED
  BY <1>1, CalmInvAlways, PTL DEF CalmSpec, Spec

\* If all that is wrong or missing has been asked for in such a round, the verdict at its end
\* is that the payload is complete and verified.
THEOREM CalmRoundVerifies ==
  CalmSpec => [][calm /\ calm' /\ DrainIdle /\ TrackerOf(recv, src) /\ Rest => pc' = "open"]_vars
<1>1. ASSUME CalmInv, [Next]_vars, [CalmNext]_<<vars, calm>>
      PROVE  [calm /\ calm' /\ DrainIdle /\ TrackerOf(recv, src) /\ Rest => pc' = "open"]_vars
  <2> SUFFICES ASSUME calm, calm', DrainIdle, TrackerOf(recv, src), Rest, ~UNCHANGED vars
               PROVE  pc' = "open"
    OBVIOUS
  <2>1. Undisturbed /\ IInv /\ InRound
    BY <1>1 DEF CalmNext, CalmInv
  <2> QED
    BY <2>1, CalmVerdict
<1> QED
  BY <1>1, CalmInvAlways, PTL DEF CalmSpec, Spec

\* No fault and no restart so far.
NoFault == faults = 0 /\ restarts = 0

\* Until there is one: the first round is under way, for the whole file, with its manifest.
FirstRound ==
  /\ InRound
  /\ round = 1 /\ ivs = {}
  /\ pc \in {"ctrl", "hdr", "man"} => recv = NoTracker
  /\ pc = "drain" => TrackerOf(recv, src)

LEMMA FaultsOnlyGrow ==
  ASSUME TypeOK, [Next]_vars, NoFault'
  PROVE  NoFault /\ Undisturbed
<1>1. faults \in Nat /\ restarts \in Nat
  BY TransferAssumption DEF TypeOK
<1>2. faults' = faults \/ faults' = faults + 1
  BY DEF Next, Client, Link, Idle, CtrlSend, ReadHeader, ReadChunk, CtrlTimeout, ExchangeDone,
         RecvData, DrainIdle, IdleWindow, OpenOutput, WriteOutput, Serve, ServeShort, Restart,
         LoseRequest, LoseReply, DuplicateChunk, LoseData, DamageData, Fault, vars
<1>3. restarts' = restarts \/ restarts' = restarts + 1
  BY DEF Next, Client, Link, Idle, CtrlSend, ReadHeader, ReadChunk, CtrlTimeout, ExchangeDone,
         RecvData, DrainIdle, OpenOutput, WriteOutput, Serve, ServeShort, ServeWith, Restart,
         LoseRequest, LoseReply, DuplicateChunk, LoseData, DamageData, senderVars, vars
<1> QED
  BY <1>1, <1>2, <1>3 DEF NoFault, Undisturbed

\* The exchange that ends in a drain has made the tracker for the file.
LEMMA TrackerMade ==
  ASSUME IInv, FirstRound, ExchangeDone
  PROVE  /\ pc' = "drain" => TrackerOf(recv', src')
         /\ pc' # "drain" => ci_svu_nblocks(Len(src)) = 0
<1>0. /\ TypeOK /\ src \in Seq(Byte) /\ Len(src) \in Nat /\ Len(src) < Word
      /\ man \in Seq(Nat) /\ reply \in Seq(Nat)
  BY FileFacts DEF IInv, TypeOK
<1>1. pc = "man" /\ recv = NoTracker /\ rfile = src /\ InOrder
  BY DEF ExchangeDone, FirstRound, InRound, Answered
<1>2. /\ Len(man) = ci_svu_nblocks(Len(src)) /\ \A k \in 1 .. Len(man) : man[k] = k
      /\ Len(man) \in Nat
  BY <1>0, <1>1 DEF ExchangeDone, InOrder
<1>3. Assembled(src, man) = ci_svu_manifest(src)
  BY <1>0, <1>2, ManifestInOrder
<1> DEFINE s == ci_svu_new(Len(src), ci_svu_manifest(src), Len(man))
<1>4. s # NoTracker => s.total = Len(src) /\ s.expected = ci_svu_manifest(src)
  BY <1>0, <1>2, NewOK
<1>5. s = NoTracker => Len(man) = 0
  <2> SUFFICES ASSUME Len(man) # 0, s = NoTracker PROVE FALSE
    OBVIOUS
  <2>1. s.nblocks = Len(man)
    BY <1>2 DEF ci_svu_new
  <2>2. NoTracker.nblocks = 0
    BY DEF NoTracker
  <2> QED
    BY <2>1, <2>2
<1> HIDE DEF s
<1>6. src' = src /\ ((recv' = s /\ s # NoTracker /\ pc' = "drain") \/ (s = NoTracker /\ pc' = "done"))
  <2>1. ci_svu_new(Len(rfile), Assembled(rfile, man), Len(man)) = s
    BY <1>1, <1>3 DEF s
  <2>2. \/ recv' = s /\ s # NoTracker /\ pc' = "drain"
        \/ s = NoTracker /\ pc' = "done"
    BY <1>1, <2>1 DEF ExchangeDone, Return
  <2>3. src' = src
    BY DEF ExchangeDone, senderVars
  <2> QED
    BY <2>2, <2>3
<1> QED
  BY <1>2, <1>4, <1>5, <1>6 DEF TrackerOf

\* Nothing goes wrong in the first round until something disturbs it.
LEMMA FirstRoundStep ==
  ASSUME IInv, FirstRound, [Next]_vars, Undisturbed
  PROVE  /\ FirstRound'
         /\ result = "running" /\ result' = "failed" =>
              pc = "open" \/ ci_svu_nblocks(Len(src)) = 0
<1>0. /\ TypeOK /\ Progress /\ ~Fault /\ ~Restart /\ InRound /\ InRound'
  BY NoFaultLeft, RoundStep DEF IInv, FirstRound
<1>1. CASE CtrlSend \/ ReadChunk \/ Serve
  <2>1. UNCHANGED <<round, ivs, recv, src, result>> /\ (pc' = pc \/ (pc' = "hdr" /\ pc = "ctrl"))
    BY <1>1 DEF CtrlSend, ReadChunk, Serve, ServeWith, senderVars, clientVars
  <2> QED
    BY <1>0, <2>1 DEF FirstRound
<1>2. CASE ReadHeader
  <2>1. pc' = "man"
    BY <1>0, <1>2, HeaderFirst
  <2>2. UNCHANGED <<round, ivs, recv, src, result>> /\ pc = "hdr"
    BY <1>2, <2>1 DEF ReadHeader, AttemptFailed, Return, senderVars
  <2> QED
    BY <1>0, <2>1, <2>2 DEF FirstRound
<1>3. CASE CtrlTimeout
  BY <1>0, <1>3, NoTimeout
<1>4. CASE ExchangeDone
  <2>1. UNCHANGED <<round, ivs>> /\ pc' \in {"drain", "done"} /\ (pc' = "drain" => result' = result)
    BY <1>4 DEF ExchangeDone, Return
  <2>2. /\ pc' = "drain" => TrackerOf(recv', src')
        /\ pc' # "drain" => ci_svu_nblocks(Len(src)) = 0
    BY <1>4, TrackerMade
  <2> QED
    BY <1>0, <2>1, <2>2 DEF FirstRound
<1>5. CASE RecvData
  <2>1. /\ pc = "drain" /\ recv # NoTracker /\ TrackerOK(recv)
        /\ UNCHANGED <<round, ivs, src, pc, result>>
    BY <1>0, <1>5 DEF RecvData, TypeOK, Progress, senderVars
  <2>2. PICK fr \in data : recv' = ci_svu_accept(recv, fr.off, fr.bytes)
    BY <1>5 DEF RecvData
  <2>3. fr.off \in Nat /\ fr.bytes \in Seq(Byte)
    BY <1>0 DEF TypeOK, Frame
  <2>4. recv'.total = recv.total /\ recv'.expected = recv.expected /\ TrackerOK(recv')
    BY <2>1, <2>2, <2>3, AcceptOK
  <2>5. recv' # NoTracker
    BY <2>4 DEF TrackerOK, NoTracker
  <2>6. TrackerOf(recv', src')
    BY <2>1, <2>4, <2>5 DEF FirstRound, TrackerOf
  <2> QED
    BY <1>0, <2>1, <2>6 DEF FirstRound
<1>6. CASE DrainIdle
  <2>1. TrackerOf(recv, src) /\ ivs = {} /\ round = 1
    BY <1>6 DEF DrainIdle, FirstRound
  <2>2. Rest
    BY <2>1 DEF Rest, AskedBytes
  <2>3. pc' = "open"
    BY <1>0, <1>6, <2>1, <2>2, CalmVerdict
  <2>4. UNCHANGED <<round, ivs, result>>
    BY <1>6, <2>3 DEF DrainIdle, DrainVerified, DrainAgain, NextRound, GiveUp, Return
  <2> QED
    BY <1>0, <2>1, <2>3, <2>4 DEF FirstRound
<1>7. CASE OpenOutput \/ WriteOutput
  <2>1. UNCHANGED <<round, ivs>> /\ pc' \in {"write", "done"}
    BY <1>7 DEF OpenOutput, OpenFails, WriteOutput, Return
  <2>2. result' = "failed" => pc = "open" \/ result = "failed"
    BY <1>7 DEF OpenOutput, WriteOutput, Return
  <2> QED
    BY <1>0, <2>1, <2>2 DEF FirstRound
<1>8. CASE ServeShort \/ Link
  BY <1>0, <1>8 DEF ServeShort, Link, LoseRequest, LoseReply, DuplicateChunk, LoseData, DamageData
<1>9. CASE UNCHANGED vars
  BY <1>0, <1>9 DEF FirstRound, vars
<1> QED
  BY <1>0, <1>1, <1>2, <1>3, <1>4, <1>5, <1>6, <1>7, <1>8, <1>9 DEF Next, Client, Idle

\* As long as no fault and no restart has happened, one round and one control exchange do:
\* nothing is asked for again, and the call fails for no other reason than an output
\* file that cannot be opened or a file whose block count wraps around uint32_t.
THEOREM FaultFreeUpload ==
  ASSUME StaleFrames = {}
  PROVE  Spec => /\ [](NoFault => round = 1 /\ attempt <= 1)
                 /\ [][NoFault' /\ result = "running" /\ result' = "failed" =>
                         pc = "open" \/ ci_svu_nblocks(Len(src)) = 0]_vars
<1> DEFINE FreeInv == IInv /\ (NoFault => FirstRound)
           Fails == NoFault' /\ result = "running" /\ result' = "failed" =>
                      pc = "open" \/ ci_svu_nblocks(Len(src)) = 0
<1>1. Init => FreeInv
  BY InitInv, FirstRoundBegins DEF Init, FirstRound
<1>2. FreeInv /\ [Next]_vars => FreeInv' /\ [Fails]_vars
  <2> SUFFICES ASSUME FreeInv, [Next]_vars PROVE FreeInv' /\ [Fails]_vars
    OBVIOUS
  <2>1. IInv'
    BY StepInv
  <2>2. CASE NoFault'
    <3>1. NoFault /\ Undisturbed
      BY <2>2, FaultsOnlyGrow DEF IInv
    <3>2. FirstRound' /\ (result = "running" /\ result' = "failed" =>
                            pc = "open" \/ ci_svu_nblocks(Len(src)) = 0)
      BY <3>1, FirstRoundStep
    <3> QED
      BY <2>1, <3>2
  <2> QED
    BY <2>1, <2>2
<1>3. FreeInv => (NoFault => round = 1 /\ attempt <= 1)
  BY DEF FirstRound, InRound
<1> HIDE DEF FreeInv
<1> QED
  BY <1>1, <1>2, <1>3, PTL DEF Spec

-----------------------------------------------------------------------------
(* A round the link leaves alone: fewer bytes are wrong after it          *)

\* The bytes of file f that tracker s does not have.
WrongBytes(s, f) == {i \in 0 .. Len(f) - 1 : ~Right(s, f, i)}

\* A request made after a verdict that is not good names a byte that is wrong.
LEMMA AsksAWrongByte ==
  ASSUME NEW s, TrackerOK(s), NEW f \in Seq(Byte), TrackerOf(s, f),
         Status(s) # "COMPLETE_VERIFIED"
  PROVE  \E i \in WrongBytes(s, f) : i \in AskedBytes(f, ci_svu_verify(s, MaxIntervals).out)
<1> DEFINE R == DamagedRanges(s)
           F == FirstRanges(R, MaxIntervals)
<1>1. ci_svu_verify(s, MaxIntervals).out = F
  BY DEF ci_svu_verify
<1>2. Reportable(R) /\ R # {}
  BY RangesAreTheDamage
<1>3. MaxIntervals \in Nat \ {0}
  BY TransferAssumption
<1>4. F \subseteq R /\ F # {}
  <2> HIDE DEF R
  <2> QED
    BY <1>2, <1>3, FirstRangesFew DEF Reportable
<1> HIDE DEF F
<1>5. PICK iv \in F : iv \in R
  BY <1>4
<1>6. s.total \in Nat \ {0} /\ s.total = Len(f) /\ s.nblocks = ci_svu_nblocks(Len(f))
  BY DEF TrackerOK, TrackerOf
<1>7. ASSUME NEW i \in iv[1] .. iv[2] - 1, i \in 0 .. Len(f) - 1
      PROVE  i \in AskedBytes(f, F)
  BY <1>5, <1>7 DEF AskedBytes, RangeBytes
<1>8. CASE s.covered_count < s.total
  <2>1. iv \in MissingRuns(s)
    BY <1>5, <1>8 DEF DamagedRanges
  <2>2. /\ iv[1] \in 0 .. s.total - 1 /\ iv[2] \in 1 .. s.total /\ iv[1] < iv[2]
        /\ \A i \in iv[1] .. iv[2] - 1 : i \notin s.covered
    BY <2>1 DEF MissingRuns
  <2>3. iv[1] \in iv[1] .. iv[2] - 1 /\ iv[1] \in 0 .. Len(f) - 1
    BY <1>6, <2>2
  <2>4. iv[1] \in WrongBytes(s, f)
    BY <2>2, <2>3 DEF WrongBytes, Right
  <2> QED
    BY <1>1, <1>7, <2>3, <2>4
<1>9. CASE ~(s.covered_count < s.total)
  <2>1. PICK b \in BadBlocks(s) : iv = BlockRange(s, b)
    BY <1>5, <1>9 DEF DamagedRanges
  <2>2. s.nblocks \in Nat
    BY <1>6, NblocksType
  <2>3. b \in Nat /\ b \in 0 .. s.nblocks - 1 /\ hash_block(s.data, b) # s.expected[b]
    BY <2>1, <2>2 DEF BadBlocks
  <2>4. s.expected[b] = hash_block(f, b)
    BY <1>6, <2>3 DEF TrackerOf, ci_svu_manifest
  <2>5. Len(s.data) = Len(f)
    BY <1>6, DataIsSeq
  <2>6. PICK i \in BlockBytes(Len(f), b) : s.data[i + 1] # f[i + 1]
    BY <2>3, <2>4, <2>5 DEF hash_block
  <2>7. i \in 0 .. Len(f) - 1
    BY DEF BlockBytes
  <2>8. i \in WrongBytes(s, f)
    BY <2>6, <2>7 DEF WrongBytes, Right
  <2>9. i \in iv[1] .. iv[2] - 1
    BY <1>6, <2>1, <2>3, RangeIsTheBlock
  <2> QED
    BY <1>1, <1>7, <2>7, <2>8, <2>9
<1> QED
  BY <1>8, <1>9

\* An accepted frame leaves the tracker the one it is.
LEMMA RecvKeepsHeader ==
  ASSUME IInv, RecvData
  PROVE  /\ pc = "drain" /\ recv # NoTracker /\ recv' # NoTracker
         /\ recv'.total = recv.total /\ recv'.expected = recv.expected
<1>1. recv # NoTracker /\ TrackerOK(recv) /\ pc = "drain" /\ TypeOK
  BY DEF RecvData, IInv, TypeOK, Progress
<1>2. PICK fr \in data : recv' = ci_svu_accept(recv, fr.off, fr.bytes)
  BY DEF RecvData
<1>3. fr.off \in Nat /\ fr.bytes \in Seq(Byte)
  BY <1>1 DEF TypeOK, Frame
<1>4. TrackerOK(recv') /\ recv'.total = recv.total /\ recv'.expected = recv.expected
  BY <1>1, <1>2, <1>3, AcceptOK
<1>5. recv' # NoTracker
  BY <1>4 DEF TrackerOK, NoTracker
<1> QED
  BY <1>1, <1>4, <1>5

\* Until the tracker is made, the request is for the whole file.
Unmade == recv = NoTracker /\ pc # "done" => ivs = {}

\* What a step does to the tracker and the request, other than beginning a round.
LEMMA QuietStep ==
  ASSUME IInv, Next, Undisturbed, ~NewRound
  PROVE  /\ UNCHANGED <<src, ivs>>
         /\ recv # NoTracker /\ recv' = NoTracker => pc' = "done"
         /\ pc = "done" => recv' = recv /\ pc' = "done"
         /\ ~RecvData /\ recv # NoTracker /\ recv' # NoTracker => recv' = recv
<1>0. TypeOK /\ ~Fault /\ ~Restart
  BY NoFaultLeft DEF IInv
<1>1. CASE CtrlSend \/ ReadHeader \/ ReadChunk \/ CtrlTimeout
  BY <1>1
  DEF CtrlSend, ReadHeader, ReadChunk, CtrlTimeout, AttemptFailed, Return, senderVars, clientVars
<1>2. CASE ExchangeDone \/ OpenOutput \/ WriteOutput
  BY <1>2 DEF ExchangeDone, OpenOutput, OpenFails, WriteOutput, Return, senderVars
<1>3. CASE RecvData
  <2>1. UNCHANGED <<src, ivs>>
    BY <1>3 DEF RecvData, senderVars
  <2> QED
    BY <1>3, <2>1, RecvKeepsHeader
<1>4. CASE DrainIdle
  <2>1. CASE DrainVerified \/ DrainAgain \/ GiveUp
    BY <1>4, <2>1 DEF DrainIdle, DrainVerified, DrainAgain, GiveUp, Return, senderVars
  <2> QED
    BY <1>4, <2>1 DEF DrainIdle, NextRound, NewRound
<1>5. CASE Serve \/ ServeShort \/ Link \/ Idle
  BY <1>0, <1>5
  DEF Serve, ServeShort, ServeWith, Link, LoseRequest, LoseReply, DuplicateChunk, LoseData,
      DamageData, Idle, senderVars, clientVars, vars
<1> QED
  BY <1>0, <1>1, <1>2, <1>3, <1>4, <1>5 DEF Next, Client

\* Until the tracker is made no round is begun.
LEMMA UnmadeStep ==
  ASSUME IInv, Unmade, [Next]_vars
  PROVE  Unmade'
<1>1. CASE DrainIdle
  <2>1. recv # NoTracker
    BY <1>1 DEF DrainIdle, IInv, Progress
  <2> QED
    BY <1>1, <2>1 DEF DrainIdle, DrainVerified, DrainAgain, NextRound, GiveUp, Return, Unmade
<1>2. CASE RecvData
  BY <1>2, RecvKeepsHeader DEF Unmade
<1>3. ASSUME ~DrainIdle, ~RecvData
      PROVE  \/ ivs' = ivs /\ recv' = recv /\ (pc = "done" => pc' = "done")
             \/ pc' = "done" \/ recv' # NoTracker
  BY <1>3
  DEF Next, Client, Link, Idle, CtrlSend, ReadHeader, ReadChunk, CtrlTimeout, AttemptFailed,
      ExchangeDone, OpenOutput, OpenFails, WriteOutput, Return, Serve, ServeShort, ServeWith,
      Restart, LoseRequest, LoseReply, DuplicateChunk, LoseData, DamageData, senderVars,
      ctrlVars, clientVars, vars
<1> QED
  BY <1>1, <1>2, <1>3 DEF Unmade

\* The bytes that were wrong when the round began.
VARIABLE before

BeforeNext == before' = IF NewRound THEN WrongBytes(recv', src') ELSE before
ShrinkSpec == CalmSpec /\ before = WrongBytes(recv, src) /\ [][BeforeNext]_<<vars, before>>

Shrinks ==
  /\ recv = NoTracker /\ pc # "done" => before = 0 .. Len(src) - 1
  /\ TrackerOf(recv, src) =>
       /\ WrongBytes(recv, src) \subseteq before
       /\ \E i \in before : i \in AskedBytes(src, ivs)

ShrinkInv == CalmInv /\ Unmade /\ (calm => Shrinks)

LEMMA ShrinkInit ==
  ASSUME Init, before = WrongBytes(recv, src)
  PROVE  Unmade /\ Shrinks
<1>1. recv = NoTracker /\ NoTracker.covered = {} /\ ivs = {}
  BY DEF Init, NoTracker
<1>2. before = 0 .. Len(src) - 1
  BY <1>1 DEF WrongBytes, Right
<1> QED
  BY <1>1, <1>2 DEF Unmade, Shrinks, TrackerOf

LEMMA ShrinkBegins ==
  ASSUME IInv, Next, Undisturbed, NewRound, before' = WrongBytes(recv', src')
  PROVE  Shrinks'
<1>0. TypeOK /\ Progress /\ ~Restart /\ round \in Int
  BY NoFaultLeft, TransferAssumption DEF IInv, TypeOK
<1>1. DrainIdle
  <2>1. round' # round
    BY <1>0 DEF NewRound
  <2> QED
    BY <1>0, <2>1
    DEF Next, Client, Link, Idle, CtrlSend, ReadHeader, ReadChunk, CtrlTimeout, ExchangeDone,
        RecvData, OpenOutput, WriteOutput, Serve, ServeShort, ServeWith,
        LoseRequest, LoseReply, DuplicateChunk, LoseData, DamageData, clientVars, vars
<1>2. recv # NoTracker /\ TrackerOK(recv) /\ src' = src /\ src \in Seq(Byte)
  BY <1>0, <1>1, FileFacts DEF DrainIdle, Progress, TypeOK, senderVars
<1> DEFINE v == ci_svu_verify(recv, MaxIntervals)
<1>3. v.status = Status(recv)
  BY DEF ci_svu_verify
<1>4. Status(recv) # "COMPLETE_VERIFIED" /\ ivs' = v.out /\ recv' = recv
  <2>1. round' # round
    BY <1>0 DEF NewRound
  <2> QED
    BY <1>1, <1>3, <2>1 DEF DrainIdle, DrainVerified, DrainAgain, NextRound, GiveUp
<1>5. TrackerOf(recv, src) => \E i \in WrongBytes(recv, src) : i \in AskedBytes(src, v.out)
  BY <1>2, <1>4, AsksAWrongByte
<1> HIDE DEF v
<1>6. before' = WrongBytes(recv, src)
  BY <1>2, <1>4
<1>7. recv' # NoTracker
  BY <1>2, <1>4
<1>8. TrackerOf(recv', src') =>
        /\ WrongBytes(recv', src') \subseteq before'
        /\ \E i \in before' : i \in AskedBytes(src', ivs')
  BY <1>2, <1>4, <1>5, <1>6
<1> QED
  BY <1>7, <1>8 DEF Shrinks

LEMMA ShrinkContinues ==
  ASSUME IInv, IInv', InRound, Unmade, Shrinks, Next, Undisturbed, ~NewRound, before' = before
  PROVE  Shrinks'
<1>1. /\ UNCHANGED <<src, ivs>>
      /\ recv # NoTracker /\ recv' = NoTracker => pc' = "done"
      /\ pc = "done" => recv' = recv /\ pc' = "done"
      /\ ~RecvData /\ recv # NoTracker /\ recv' # NoTracker => recv' = recv
  BY QuietStep
<1>2. CASE recv = NoTracker /\ pc = "done"
  BY <1>1, <1>2 DEF Shrinks, TrackerOf
<1>3. CASE recv = NoTracker /\ pc # "done"
  <2>1. before' = 0 .. Len(src') - 1 /\ ivs' = {}
    BY <1>1, <1>3 DEF Shrinks, Unmade
  <2>2. ASSUME TrackerOf(recv', src')
        PROVE  0 \in before' /\ 0 \in AskedBytes(src', ivs')
    <3>1. Len(src') \in Nat \ {0}
      BY <2>2 DEF TrackerOf, IInv, TypeOK, TrackerOK
    <3> QED
      BY <2>1, <3>1 DEF AskedBytes
  <2>3. WrongBytes(recv', src') \subseteq before'
    BY <2>1 DEF WrongBytes
  <2> QED
    BY <2>1, <2>2, <2>3 DEF Shrinks
<1>4. CASE recv # NoTracker
  <2> SUFFICES ASSUME TrackerOf(recv', src')
               PROVE  /\ WrongBytes(recv', src') \subseteq before'
                      /\ \E i \in before' : i \in AskedBytes(src', ivs')
    BY <1>1, <1>4 DEF Shrinks
  <2>1. recv' # NoTracker
    BY DEF TrackerOf
  <2>2. CASE RecvData
    <3>1. recv'.total = recv.total /\ recv'.expected = recv.expected
      BY <2>2, RecvKeepsHeader
    <3>2. TrackerOf(recv, src)
      BY <1>1, <1>4, <3>1 DEF TrackerOf
    <3>3. \A i \in 0 .. Len(src) - 1 : Right(recv, src, i) => Right(recv', src', i)
      BY <2>2, <3>2, RecvStep
    <3>4. WrongBytes(recv', src') \subseteq WrongBytes(recv, src)
      BY <1>1, <3>3 DEF WrongBytes
    <3> QED
      BY <1>1, <3>2, <3>4 DEF Shrinks
  <2>3. CASE ~RecvData
    <3>1. recv' = recv
      BY <1>1, <1>4, <2>1, <2>3
    <3> QED
      BY <1>1, <3>1 DEF Shrinks
  <2> QED
    BY <2>2, <2>3
<1> QED
  BY <1>2, <1>3, <1>4

LEMMA ShrinkStep ==
  ASSUME ShrinkInv, [Next]_vars, [CalmNext]_<<vars, calm>>, [BeforeNext]_<<vars, before>>
  PROVE  ShrinkInv'
<1>1. CalmInv' /\ Unmade'
  BY CalmInvStep, UnmadeStep DEF ShrinkInv, CalmInv
<1>2. ASSUME calm' PROVE Shrinks'
  <2>0. IInv /\ IInv'
    BY <1>1 DEF ShrinkInv, CalmInv
  <2>1. CASE UNCHANGED vars
    <3>1. ~NewRound
      <4>1. round' = round /\ round \in Int
        BY <2>0, <2>1, TransferAssumption DEF IInv, TypeOK, vars
      <4> QED
        BY <4>1 DEF NewRound
    <3>2. calm /\ before' = before
      BY <1>2, <2>1, <3>1 DEF CalmNext, BeforeNext
    <3> QED
      BY <2>1, <3>2 DEF ShrinkInv, Shrinks, vars
  <2>2. CASE ~UNCHANGED vars
    <3>1. Next /\ CalmNext /\ BeforeNext
      BY <2>2
    <3>2. Undisturbed /\ (calm \/ NewRound)
      BY <1>2, <3>1 DEF CalmNext
    <3>3. CASE NewRound
      BY <2>0, <3>1, <3>2, <3>3, ShrinkBegins DEF BeforeNext
    <3>4. CASE ~NewRound
      <4>1. calm /\ InRound /\ Shrinks /\ Unmade /\ before' = before
        BY <3>1, <3>2, <3>4 DEF BeforeNext, ShrinkInv, CalmInv
      <4> QED
        BY <2>0, <3>1, <3>2, <3>4, <4>1, ShrinkContinues
    <3> QED
      BY <3>3, <3>4
  <2> QED
    BY <2>1, <2>2
<1> QED
  BY <1>1, <1>2 DEF ShrinkInv

\* The variant of the repair: when a round that the link leaves alone has drained, fewer
\* bytes are wrong than when it began, as no right byte is lost and the request, however
\* few ranges it has room for, named a wrong one.  So a transfer needs no more such
\* rounds than the file has bytes.
THEOREM CalmRoundShrinks ==
  ShrinkSpec => [](calm /\ pc = "drain" /\ data = {} /\ TrackerOf(recv, src) =>
                     /\ WrongBytes(recv, src) \subseteq before
                     /\ WrongBytes(recv, src) # before)
<1>1. Init /\ calm = (data = {}) /\ before = WrongBytes(recv, src) => ShrinkInv
  BY InitInv, FirstRoundBegins, ShrinkInit DEF ShrinkInv, CalmInv
<1>2. ASSUME ShrinkInv, calm, pc = "drain", data = {}, TrackerOf(recv, src)
      PROVE  WrongBytes(recv, src) \subseteq before /\ WrongBytes(recv, src) # before
  <2>1. PICK i \in before : i \in AskedBytes(src, ivs)
    BY <1>2 DEF ShrinkInv, Shrinks
  <2>2. Right(recv, src, i)
    BY <1>2, <2>1 DEF ShrinkInv, CalmInv, InRound, Coming
  <2>3. i \notin WrongBytes(recv, src)
    BY <2>2 DEF WrongBytes
  <2> QED
    BY <1>2, <2>1, <2>3 DEF ShrinkInv, Shrinks
<1> QED
  BY <1>1, <1>2, ShrinkStep, PTL DEF ShrinkSpec, CalmSpec, Spec
=============================================================================

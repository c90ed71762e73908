----------------------------- MODULE RttPairing ----------------------------
(***************************************************************************)
(* Round-trip times at the tap, lib/ci_meas.c and the drainer's rows in    *)
(* apm/csp_monitor_apm.c: an RDP frame with payload is recorded in a ring  *)
(* and the acknowledgement each frame carries is looked up in it.          *)
(*                                                                         *)
(* "a" connects to "b"; packet 0 is the SYN of either end.  A frame may    *)
(* miss the tap, the peer or both.                                         *)
(***************************************************************************)
EXTENDS Integers, Sequences, FiniteSets

CONSTANTS
  RttSpace,   \* 2^16, the sequence numbers
  TimeSpace,  \* 2^32, the milliseconds csp_get_ms counts
  Ring,       \* CI_RTT_RING
  Isses,      \* initial sequence numbers of the two ends
  Pauses,     \* milliseconds between two frames
  MaxFrames   \* bound: frames sent

ASSUME RttAssumption ==
  /\ Ring \in Nat \ {0} /\ RttSpace \in Nat /\ Ring < RttSpace
  /\ TimeSpace \in Nat \ {0} /\ Pauses \subseteq Nat
  /\ Isses \subseteq [{"a", "b"} -> 0 .. RttSpace - 1]

VARIABLES
  ring, head,  \* ci_rtt_pairing_t
  iss, sent, got,  \* per end: packets sent, packets of the other received in order
  frames, now,
  tape,        \* history: what was recorded at each value of head
  pairs        \* history: the pairs reported

rttVars == <<ring, head, iss, sent, got, frames, now, tape, pairs>>

Ends    == {"a", "b"}
Peer(e) == IF e = "a" THEN "b" ELSE "a"

Seq16(e, k) == (iss[e] + k) % RttSpace

\* The last packet received in order; a SYN acknowledges nothing and carries 0.
Ack(e) == IF got[e] = 0 THEN 0 ELSE Seq16(Peer(e), got[e] - 1)

RttInit ==
  /\ head = 0 /\ ring = [i \in 0 .. Ring - 1 |-> [seq |-> 0, t |-> 0, valid |-> FALSE]]
  /\ iss \in Isses /\ sent = [e \in Ends |-> 0] /\ got = [e \in Ends |-> 0]
  /\ frames = 0 /\ now = TimeSpace - 1
  /\ tape = <<>> /\ pairs = <<>>

ci_rtt_on_data(r, seq) == [r EXCEPT ![head % Ring] = [seq |-> seq, t |-> now % TimeSpace, valid |-> TRUE]]

\* Newest first: the values of head at which the ring's slots were written.
Matches(r, h, ack) ==
  {n \in (IF h > Ring THEN h - Ring ELSE 0) .. h - 1 : r[n % Ring].valid /\ r[n % Ring].seq = ack}
Newest(S) == CHOOSE n \in S : \A m \in S : m <= n

\* Faulty variant: the entry stays.
ConsumedNot(r, n) == r

Consumed(r, n) == [r EXCEPT ![n % Ring].valid = FALSE]

\* The tap sees packet k of e; a frame without payload has the number of the next.
Observe(e, k, payload) ==
  LET r == IF payload THEN ci_rtt_on_data(ring, Seq16(e, k)) ELSE ring
      h == IF payload THEN head + 1 ELSE head
      M == Matches(r, h, Ack(e))
  IN /\ head' = h
     /\ tape' = IF payload THEN Append(tape, [from |-> e, pkt |-> k, at |-> now]) ELSE tape
     /\ ring' = IF M = {} THEN r ELSE Consumed(r, Newest(M))
     /\ pairs' = IF M = {} THEN pairs
                 ELSE Append(pairs, [entry |-> Newest(M) + 1, by |-> e, acked |-> got[e] - 1, at |-> now,
                                     rtt |-> (now - r[Newest(M) % Ring].t) % TimeSpace])

\* e sends its next packet, or one that is not acknowledged yet again, or nothing
\* but an acknowledgement.  The answer to a SYN has no payload.
Frame(e, k, payload) ==
  /\ frames < MaxFrames
  /\ k > 0 \/ e = "b" => got[e] > 0
  /\ payload => ~(e = "b" /\ k = 0)
  /\ ~payload => IF k = 0 THEN e = "b" ELSE k = sent[e]
  /\ frames' = frames + 1
  /\ \E d \in Pauses : now' = now + d
  /\ sent' = IF k = sent[e] /\ (payload \/ k = 0) THEN [sent EXCEPT ![e] = k + 1] ELSE sent
  /\ \/ UNCHANGED got
     \/ (payload \/ k = 0) /\ k = got[Peer(e)] /\ got' = [got EXCEPT ![Peer(e)] = k + 1]
  /\ Observe(e, k, payload) \/ UNCHANGED <<ring, head, tape, pairs>>
  /\ UNCHANGED iss

RttNext == \E e \in Ends, payload \in BOOLEAN : \E k \in got[Peer(e)] .. sent[e] : Frame(e, k, payload)

-----------------------------------------------------------------------------
(* Properties                                                              *)

\* The numbers of the two directions do not meet, and no number is the 0 of a SYN
\* without an acknowledgement: the ring does not tell the directions apart.
NumbersApart ==
  /\ iss["a"] # 0
  /\ \A j \in 0 .. sent["a"] - 1, k \in 0 .. sent["b"] - 1 : Seq16("a", j) # Seq16("b", k)

\* A round-trip time is the time from the last tapped transmission of a packet to
\* an acknowledgement of that packet by the other end, also across the wraps of the
\* sequence number, of the clock and of the ring, and no transmission is taken for
\* two of them.  (After a repeat, a second acknowledgement is paired with the
\* transmission before.)
PairsAreGenuine ==
  NumbersApart =>
    \A i \in 1 .. Len(pairs) :
      LET p == pairs[i]
          d == tape[p.entry]
      IN /\ d.from = Peer(p.by) /\ d.pkt = p.acked
         /\ p.at - d.at < TimeSpace => p.rtt = p.at - d.at
         /\ \A j \in 1 .. i - 1 : pairs[j].entry # p.entry
         /\ \A n \in p.entry + 1 .. Len(tape) :
              tape[n].from = d.from /\ tape[n].pkt = d.pkt /\ tape[n].at < p.at
              => \E j \in 1 .. i - 1 : pairs[j].entry = n
=============================================================================

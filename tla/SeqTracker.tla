----------------------------- MODULE SeqTracker -----------------------------
(***************************************************************************)
(* The loss arithmetic of the monitor, lib/ci_meas.c: 16-bit sequence      *)
(* numbers are unwrapped into a growing space, and a circular bitmap tells *)
(* a repeat from a late packet that fills a hole.                          *)
(***************************************************************************)
EXTENDS Integers, FiniteSets

CONSTANTS
  Half,        \* 0x8000, half of the RDP sequence space
  Win,         \* CI_SEQ_WIN, bits of the circular bitmap
  MinSpan,     \* CI_LOSS_MIN_SPAN
  DensityDiv   \* CI_LOSS_DENSITY_DIV

ASSUME SeqAssumption ==
  /\ Half \in Nat \ {0}
  /\ Win \in Nat \ {0}
  /\ MinSpan \in Nat
  /\ DensityDiv \in Nat

SeqSpace == 2 * Half

ci_seq_tracker_init ==
  [have |-> FALSE, first |-> 0, max |-> 0, n_seen |-> 0, n_distinct |-> 0,
   n_dup |-> 0, n_reorder |-> 0, seen |-> {}]

\* The signed 16-bit distance of a sequence number from the highest one seen.
Distance(t, seq) ==
  LET d == (seq - t.max) % SeqSpace IN IF d < Half THEN d ELSE d - SeqSpace

\* The bitmap's bit of an unwrapped position.
Bit(pos) == pos % Win

\* Faulty variant: the bits of skipped positions keep their old values.
ExposedNone(max, pos) == {}

\* The bits cleared when the highest position moves from max to pos: those of the
\* positions in between, or all of them when more than a window is skipped.
Exposed(max, pos) ==
  LET from == IF pos - max > Win THEN pos - Win ELSE max + 1
  IN {Bit(q) : q \in from .. pos - 1}

FeedFirst(t, seq) ==
  [t EXCEPT !.have = TRUE, !.first = seq, !.max = seq, !.n_distinct = 1,
            !.seen = @ \cup {Bit(seq)}]

FeedForward(t, pos) ==
  [t EXCEPT !.seen       = (@ \ Exposed(t.max, pos)) \cup {Bit(pos)},
            !.max        = pos,
            !.n_distinct = @ + 1]

\* At or behind the highest one: a repeat, or a late packet.
FeedBehind(t, pos) ==
  IF Bit(pos) \in t.seen
  THEN [t EXCEPT !.n_dup = @ + 1]
  ELSE [t EXCEPT !.seen = @ \cup {Bit(pos)}, !.n_distinct = @ + 1, !.n_reorder = @ + 1]

ci_seq_tracker_feed(t, seq) ==
  LET u    == [t EXCEPT !.n_seen = @ + 1]
      diff == Distance(t, seq)
  IN IF ~t.have THEN FeedFirst(u, seq)
     ELSE IF diff > 0 THEN FeedForward(u, t.max + diff) ELSE FeedBehind(u, t.max + diff)

Spanned(t) == t.max - t.first + 1

ci_seq_tracker_loss(t) ==
  IF t.have /\ Spanned(t) > t.n_distinct THEN Spanned(t) - t.n_distinct ELSE 0

\* Too few packets for the range they span: a partial capture, or several
\* connections in one.
ci_loss_trustworthy(t) ==
  t.have /\ Spanned(t) >= MinSpan => t.n_distinct * DensityDiv >= Spanned(t)
=============================================================================

------------------------------ MODULE FlowIndex -----------------------------
(***************************************************************************)
(* The drop rule and the per-flow identity of a packet, lib/ci_rule.c and  *)
(* lib/ci_dtp.c: which frames are in scope, the index a frame is keyed by, *)
(* and whether the packet with that index is dropped.                      *)
(*                                                                         *)
(* A frame is the parsed view the injectors build (ci_frame_from_fields    *)
(* with the trailer or the offset): "parsed" says whether the payload was  *)
(* long enough to hold the field, "seq" is the RDP sequence number and     *)
(* "off" the DTP byte offset.                                              *)
(***************************************************************************)
EXTENDS Integers, Sequences

CONSTANTS
  Half,        \* 0x8000, half of the RDP sequence space
  Mtu,         \* dtp_mtu of the tracker
  Overhead,    \* dtp_overhead of the tracker
  Draw(_, _),  \* ci_draw(seed, index), a value below DrawSpace
  DrawSpace,   \* 2^64
  NoVector     \* replay_vector == NULL

ASSUME FlowAssumption ==
  /\ Half \in Nat \ {0, 1}
  /\ Mtu \in Nat
  /\ Overhead \in Nat
  /\ DrawSpace \in Nat \ {0}

\* The size of the RDP sequence space.
SeqSpace == 2 * Half

\* Forward progress whose raw value went down: it crossed the wrap.
ci_rdp_seq_is_wrap(prev_seq, new_seq) ==
  (new_seq - prev_seq) % SeqSpace < Half /\ new_seq < prev_seq

ci_flow_index_rdp(epoch, rdp_seq) == epoch * SeqSpace + rdp_seq

\* A degenerate MTU leaves the index at 0.
ci_dtp_fragment_index_ovh(offset) ==
  IF Mtu <= Overhead THEN 0 ELSE offset \div (Mtu - Overhead)

\* The tracker of one flow.
ci_flow_tracker_init == [last_seq |-> 0, have_last_seq |-> FALSE, epoch |-> 0]

\* Faulty variant: the epoch is bumped whenever the raw value goes down.
NextEpochOnDecrease(t, seq) ==
  IF t.have_last_seq /\ seq < t.last_seq THEN t.epoch + 1 ELSE t.epoch

NextEpoch(t, seq) ==
  IF t.have_last_seq /\ ci_rdp_seq_is_wrap(t.last_seq, seq) THEN t.epoch + 1 ELSE t.epoch

\* The index of a frame, and the tracker afterwards.  What cannot be parsed has
\* index 0.
ci_flow_index(t, f) ==
  LET epoch == NextEpoch(t, f.seq) IN
  IF f.is_rdp /\ f.parsed
  THEN [tracker |-> [last_seq |-> f.seq, have_last_seq |-> TRUE, epoch |-> epoch],
        index   |-> ci_flow_index_rdp(epoch, f.seq)]
  ELSE [tracker |-> t,
        index   |-> IF f.parsed THEN ci_dtp_fragment_index_ovh(f.off) ELSE 0]

-----------------------------------------------------------------------------
\* Whether a frame is in scope for a rule; -1 matches any port.  The SYN flag of
\* an RDP frame without a trailer reads as 0.
ci_rule_match(r, f) ==
  /\ r.match_dport >= 0 => f.dport = r.match_dport
  /\ r.match_rdp_syn => f.is_rdp /\ f.parsed /\ f.syn

\* The decision for an index: a replay vector wins and keeps what lies beyond its
\* end; otherwise one draw against the threshold p * 2^64, which is 0 for p <= 0
\* and DrawSpace for p >= 1.
ci_rule_decide(r, index) ==
  IF r.replay_vector # NoVector
  THEN index < Len(r.replay_vector) /\ r.replay_vector[index + 1]
  ELSE Draw(r.seed, index) < r.threshold
=============================================================================

--------------------------- MODULE MCInstruments ---------------------------
(***************************************************************************)
(* Small instances of the instruments, one per behaviour.                  *)
(***************************************************************************)
EXTENDS Instruments

LossOption(prob, dport, overhead, mtu, burst) ==
  [prob |-> prob, dport |-> dport, overhead |-> overhead, mtu |-> mtu, burst |-> burst]

\* Only the first is accepted: out of range, a header too short for the offset, and
\* two channels at a time.
MCLossOptions ==
  {LossOption(50, -1, 8, 1024, 0), LossOption(101, -1, 8, 1024, 0),
   LossOption(50, 9, 3, 1024, 0), LossOption(50, 9, 8, 1024, 2)}

\* Counters about to wrap, of 16 and of 32 values.
MCFarStarts   == {[tx |-> 3, rx |-> 14], [tx |-> 14, rx |-> 3]}
MCFirstCounts == {[tx |-> 5, rx |-> 30]}

LateIsses == {[a |-> 4, b |-> 2]}
=============================================================================

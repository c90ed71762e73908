------------------------------ MODULE DropShim ------------------------------
(***************************************************************************)
(* The in-path drop shim, inject/ci_drop_iface.c: a CSP interface whose    *)
(* nexthop decides for every in-scope frame whether it is dropped, logs    *)
(* the decision (oracle A) and hands kept frames to the real interface,    *)
(* which queues them and puts them on the bus (oracle B watches there).    *)
(*                                                                         *)
(* The flow that is sent through the shim is either an RDP connection,     *)
(* with new packets in sequence and repeats of the last Window ones, or a  *)
(* DTP upload, with fragments repeated in any order.  Frames of other      *)
(* traffic are sent in between.  The sender, the buffer pool and the real  *)
(* interface are libcsp's.                                                 *)
(***************************************************************************)
EXTENDS GilbertElliott, SequencesExt

CONSTANTS
  Rules,            \* the rules the shim may be set up with
  Flows,            \* the kinds of flow sent, of {"rdp", "dtp"}
  Isns,             \* initial RDP sequence numbers
  Stride,           \* payload bytes of a DTP fragment of the sender
  Window,           \* RDP packets that may be sent again
  ReorderAcrossWrap,\* whether a repeat may go back over a sequence wrap
  Thresholds,       \* <<t_g2b, t_b2g>> for ci_drop_iface_enable_ge
  MaxSends,         \* bound: transmissions
  PoolSize,         \* buffers in the CSP pool
  TxDepth           \* frames the real interface queues

ASSUME ShimAssumption ==
  /\ \A r \in Rules :
       /\ r.match_rdp_syn \in BOOLEAN
       /\ r.replay_vector # NoVector => r.replay_vector \in Seq(BOOLEAN)
  /\ Flows \subseteq {"rdp", "dtp"}
  /\ Isns \subseteq 0 .. SeqSpace - 1
  /\ Stride \in Nat \ {0}
  /\ Window \in Nat /\ Window < Half
  /\ ReorderAcrossWrap \in BOOLEAN
  /\ MaxSends \in Nat
  /\ PoolSize \in Nat
  /\ TxDepth \in Nat

VARIABLES
  rule, flow, isn,
  tracker, per_attempt, ge,
  injected_drops, forwarded, passthrough, nexthop_errors,
  drop_log,  \* the oracle CSV: packet, index and decision of each in-scope frame
  fresh,     \* packets of the flow sent so far; the next new one has this number
  lastNum,   \* the packet of the flow sent last
  pool,      \* free buffers
  txq,       \* frames queued at the real interface
  wire       \* packets that went onto the bus

shimVars   == <<tracker, per_attempt, ge, injected_drops, forwarded, passthrough,
                nexthop_errors, drop_log>>
senderVars == <<rule, flow, isn, fresh, lastNum>>
vars == <<rule, flow, isn, tracker, per_attempt, ge, injected_drops, forwarded,
          passthrough, nexthop_errors, drop_log, fresh, lastNum, pool, txq, wire>>

-----------------------------------------------------------------------------
(* What is sent                                                            *)

\* A packet that does not belong to the flow.
Other == -1

FlowPort  == 8
OtherPort == 1

\* The frame of packet n: the SYN of an RDP connection is its packet 0.
FrameOf(n) ==
  [dport  |-> IF n = Other THEN OtherPort ELSE FlowPort,
   is_rdp |-> n # Other /\ flow = "rdp",
   parsed |-> n # Other,
   syn    |-> n = 0,
   seq    |-> IF n = Other THEN 0 ELSE (isn + n) % SeqSpace,
   off    |-> IF n = Other THEN 0 ELSE n * Stride]

InScope(n) == ci_rule_match(rule, FrameOf(n))

\* What a packet's index should be: its place in the flow, whatever was sent
\* before it.
Identity(n) == IF flow = "rdp" THEN isn + n ELSE n

Init ==
  /\ rule \in Rules
  /\ flow \in Flows
  /\ isn \in Isns
  /\ tracker = ci_flow_tracker_init
  /\ per_attempt = FALSE
  /\ ge = ci_ge_state_init(rule.seed, 0, 0)
  /\ injected_drops = 0
  /\ forwarded = 0
  /\ passthrough = 0
  /\ nexthop_errors = 0
  /\ drop_log = <<>>
  /\ fresh = 0
  /\ lastNum = 0
  /\ pool = PoolSize
  /\ txq = <<>>
  /\ wire = <<>>

-----------------------------------------------------------------------------
(* ci_drop_iface_nexthop                                                   *)

\* The real interface's nexthop: it takes the frame, or refuses it when its
\* queue is full, and then csp_send_direct frees the buffer.
TargetAccepts(n) ==
  /\ Len(txq) < TxDepth
  /\ txq' = Append(txq, n)
  /\ pool' = pool - 1

TargetRefuses ==
  /\ Len(txq) >= TxDepth
  /\ UNCHANGED <<txq, pool>>

\* Out of scope: forwarded untouched and unlogged.
Passthrough(n) ==
  /\ ~InScope(n)
  /\ passthrough' = passthrough + 1
  /\ TargetAccepts(n) \/ TargetRefuses
  /\ UNCHANGED <<tracker, per_attempt, ge, injected_drops, forwarded, nexthop_errors,
                 drop_log>>

\* Faulty variant: a drop is reported as a transmit error, so that
\* csp_send_direct frees the buffer a second time.
DropPacketError ==
  /\ injected_drops' = injected_drops + 1
  /\ pool' = pool + 1
  /\ UNCHANGED <<forwarded, nexthop_errors, txq>>

\* The frame is dropped: its buffer is freed and no error is returned.
DropPacket ==
  /\ injected_drops' = injected_drops + 1
  /\ UNCHANGED <<forwarded, nexthop_errors, txq, pool>>

\* Faulty variant: a refusal is not counted.
KeepPacketUncounted(n) ==
  /\ forwarded' = forwarded + 1
  /\ \/ TargetAccepts(n) /\ UNCHANGED nexthop_errors
     \/ TargetRefuses /\ UNCHANGED nexthop_errors
  /\ UNCHANGED injected_drops

\* The frame is kept: handed on, and counted when it is refused.
KeepPacket(n) ==
  /\ forwarded' = forwarded + 1
  /\ \/ TargetAccepts(n) /\ UNCHANGED nexthop_errors
     \/ TargetRefuses /\ nexthop_errors' = nexthop_errors + 1
  /\ UNCHANGED injected_drops

\* In scope: the index is always computed; the decision is the chain's in
\* per-attempt mode and the rule's otherwise.
Decide(n) ==
  /\ InScope(n)
  /\ LET ix   == ci_flow_index(tracker, FrameOf(n))
         drop == IF per_attempt THEN ge.bad ELSE ci_rule_decide(rule, ix.index)
     IN /\ tracker' = ix.tracker
        /\ ge' = IF per_attempt THEN ci_ge_state_step(ge) ELSE ge
        /\ drop_log' = Append(drop_log, [pkt |-> n, index |-> ix.index, dropped |-> drop])
        /\ IF drop THEN DropPacket ELSE KeepPacket(n)
  /\ UNCHANGED <<per_attempt, passthrough>>

ci_drop_iface_nexthop(n) == (Passthrough(n) \/ Decide(n)) /\ UNCHANGED wire

-----------------------------------------------------------------------------
(* The sender                                                              *)

Sent == Len(drop_log) + passthrough

CanSend == pool > 0 /\ Sent < MaxSends

SendNew ==
  /\ CanSend
  /\ ci_drop_iface_nexthop(fresh)
  /\ fresh' = fresh + 1
  /\ lastNum' = fresh
  /\ UNCHANGED <<rule, flow, isn>>

\* A repeat does not go back over a sequence wrap: it is no older than the packet
\* sent last, or lies in the same turn of the sequence space.
SameTurn(n) ==
  n >= lastNum \/ (isn + n) \div SeqSpace = (isn + lastNum) \div SeqSpace

Resend ==
  /\ CanSend
  /\ \E n \in 0 .. fresh - 1 :
       /\ flow = "rdp" => n + Window >= fresh /\ (ReorderAcrossWrap \/ SameTurn(n))
       /\ ci_drop_iface_nexthop(n)
       /\ lastNum' = n
  /\ UNCHANGED <<rule, flow, isn, fresh>>

SendOther ==
  /\ CanSend
  /\ ci_drop_iface_nexthop(Other)
  /\ UNCHANGED senderVars

\* The real interface puts a frame onto the bus and frees its buffer.
Transmit ==
  /\ txq # <<>>
  /\ wire' = Append(wire, Head(txq))
  /\ txq' = Tail(txq)
  /\ pool' = pool + 1
  /\ UNCHANGED <<senderVars, shimVars>>

\* Switches to per-attempt mode; the programs do so while they set the shim up.
ci_drop_iface_enable_ge ==
  /\ Sent = 0
  /\ \E t \in Thresholds : ge' = ci_ge_state_init(rule.seed, t[1], t[2])
  /\ per_attempt' = TRUE
  /\ UNCHANGED <<tracker, injected_drops, forwarded, passthrough, nexthop_errors, drop_log,
                 senderVars, pool, txq, wire>>

\* The bounded run is over.
Stopped == Sent = MaxSends /\ txq = <<>> /\ UNCHANGED vars

Next == \/ SendNew \/ Resend \/ SendOther \/ Transmit \/ ci_drop_iface_enable_ge \/ Stopped

Spec == Init /\ [][Next]_vars

-----------------------------------------------------------------------------
(* Properties                                                              *)

Packet == Nat \cup {Other}

\* Type invariant of the shim.
TypeOK ==
  /\ rule \in Rules /\ flow \in Flows /\ isn \in Isns
  /\ tracker \in [last_seq : 0 .. SeqSpace - 1, have_last_seq : BOOLEAN, epoch : Nat]
  /\ per_attempt \in BOOLEAN
  /\ ge = [seed |-> ge.seed, step |-> ge.step, t_g2b |-> ge.t_g2b, t_b2g |-> ge.t_b2g,
           bad |-> ge.bad]
  /\ ge.step \in Nat /\ ge.bad \in BOOLEAN
  /\ {injected_drops, forwarded, passthrough, nexthop_errors} \subseteq Nat
  /\ drop_log \in Seq([pkt : Packet, index : Nat, dropped : BOOLEAN])
  /\ fresh \in Nat /\ lastNum \in 0 .. fresh
  /\ pool \in 0 .. PoolSize
  /\ txq \in Seq(Packet) /\ Len(txq) <= TxDepth
  /\ wire \in Seq(Packet)

\* The index a packet is logged and decided under is its place in the flow, the
\* same at every transmission and in every run, past any number of wraps of the
\* 16-bit sequence number (ci_rule.h: the index is "NOT a wire/arrival
\* position"; ci_drop_iface.h: identical identities give an identical drop set).
IndexIsIdentity ==
  \A i \in 1 .. Len(drop_log) :
    drop_log[i].pkt # Other => drop_log[i].index = Identity(drop_log[i].pkt)

\* What was or will be put onto the bus, in order.
Outgoing == wire \o txq

\* The entries of the log that were kept, and the frames the shim let through
\* that are in scope.
Kept == {i \in 1 .. Len(drop_log) : ~drop_log[i].dropped}
Delivered == {j \in 1 .. Len(Outgoing) : InScope(Outgoing[j])}

\* The place of position i among the positions in S.
Place(S, i) == Cardinality({k \in S : k <= i})

\* Oracle A against oracle B: as long as nexthop_errors is 0, the in-scope frames
\* on the bus or on their way to it are exactly the ones the log calls kept, in
\* the same order; and nexthop_errors is the number of kept frames that never
\* get there.
LogAccounts ==
  /\ Cardinality(Kept) = Cardinality(Delivered) + nexthop_errors
  /\ nexthop_errors = 0 =>
       \A i \in Kept, j \in Delivered :
         Place(Kept, i) = Place(Delivered, j) => drop_log[i].pkt = Outgoing[j]

\* The drop contract: no buffer is lost and none is freed twice, whichever way a
\* frame leaves the shim.
BuffersConserved == pool + Len(txq) = PoolSize

\* In per-attempt mode the decisions are, in the order they are taken, the vector
\* ci_ge_fill gives for the same seed: one entry per in-scope transmission, none
\* for the traffic in between (ci_ge.h: "BYTE-IDENTICAL").
ChannelReplays ==
  per_attempt =>
    [i \in 1 .. Len(drop_log) |-> drop_log[i].dropped]
      = ci_ge_fill(rule.seed, ge.t_g2b, ge.t_b2g, Len(drop_log))

\* In identity mode every transmission of a packet gets the same decision,
\* whatever order packets and repeats arrive in (ci_rule.h: keyed by protocol
\* identity and not by arrival "the decision vector is byte-identical across
\* runs").  It fails when a repeat goes back over a sequence wrap: the repeat is put in
\* the epoch of the packet seen last, and so has another index than the first time.
DecisionIsPure ==
  ~per_attempt =>
    \A i, j \in 1 .. Len(drop_log) :
      drop_log[i].pkt = drop_log[j].pkt /\ drop_log[i].pkt # Other =>
        drop_log[i].dropped = drop_log[j].dropped
=============================================================================

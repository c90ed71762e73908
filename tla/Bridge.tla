------------------------------- MODULE Bridge ------------------------------
(***************************************************************************)
(* The injection bridge of the end-to-end tests,                           *)
(* tests/e2e/ci_inject_bridge.c: one thread pumps frames between the       *)
(* uploader's bus (ingress) and the receiver's (egress), through the drop  *)
(* shim on the way out, and must not take the echo of what it has sent     *)
(* itself for traffic.                                                     *)
(*                                                                         *)
(* A frame is what libcsp's duplicate filter compares: a repeated packet   *)
(* is the same frame.  The pump's queue is libcsp's router queue.  The     *)
(* shim's decision is DropShim's subject; airtime and pacing are left out. *)
(***************************************************************************)
EXTENDS Integers, Sequences, FiniteSets

CONSTANTS
  UpFrames,    \* frames of the data source, src_addr
  DownFrames,  \* frames of any other node
  Echoing,     \* sides on which the bridge hears what it sends there
  QfifoLen,    \* length of the router queue
  DedupLen,    \* frames the duplicate filter remembers
  MaxArrivals  \* bound: frames sent by the two sides

ASSUME BridgeAssumption ==
  /\ UpFrames \cap DownFrames = {} /\ Echoing \subseteq {"in", "out"}
  /\ {QfifoLen, DedupLen, MaxArrivals} \subseteq Nat /\ DedupLen > 0

VARIABLES
  g_dedup_on,
  qfifo,       \* what the router queue holds: side, frame, and if it is an echo
  recent,      \* what the duplicate filter remembers
  g_echo_in, g_echo_out, g_dup_in, g_dup_out, g_reverse_frames,
  to_shim,     \* frames handed to the shim
  arrived,     \* history: frames of each side queued, without the echoes
  swallowed    \* history: of these, the ones the duplicate filter took

bridgeVars == <<g_dedup_on, qfifo, recent, g_echo_in, g_echo_out, g_dup_in, g_dup_out, g_reverse_frames,
                to_shim, arrived, swallowed>>

Sides == {"in", "out"}

BridgeInit ==
  /\ g_dedup_on \in BOOLEAN
  /\ qfifo = <<>> /\ recent = <<>>
  /\ g_echo_in = 0 /\ g_echo_out = 0 /\ g_dup_in = 0 /\ g_dup_out = 0
  /\ g_reverse_frames = 0 /\ to_shim = 0
  /\ arrived = [s \in Sides |-> 0] /\ swallowed = [s \in Sides |-> 0]

\* A node sends a frame, for the first time or again.
Arrive(s, f) ==
  /\ arrived["in"] + arrived["out"] < MaxArrivals /\ Len(qfifo) < QfifoLen
  /\ qfifo' = Append(qfifo, [side |-> s, frame |-> f, echo |-> FALSE])
  /\ arrived' = [arrived EXCEPT ![s] = @ + 1]
  /\ UNCHANGED <<g_dedup_on, recent, g_echo_in, g_echo_out, g_dup_in, g_dup_out, g_reverse_frames, to_shim, swallowed>>

\* The filter's 100 ms are over for the oldest frame.
Forget ==
  /\ recent # <<>> /\ recent' = Tail(recent)
  /\ UNCHANGED <<g_dedup_on, qfifo, g_echo_in, g_echo_out, g_dup_in, g_dup_out, g_reverse_frames, to_shim,
                 arrived, swallowed>>

csp_dedup_is_duplicate(f) == \E i \in 1 .. Len(recent) : recent[i] = f

Remembered(f) ==
  IF ~g_dedup_on THEN recent
  ELSE IF Len(recent) = DedupLen THEN Append(Tail(recent), f) ELSE Append(recent, f)

\* What is sent on side s may be heard there, if there is room in the queue.
Sent(s, f) == {Tail(qfifo)} \cup {Append(Tail(qfifo), [side |-> x, frame |-> f, echo |-> TRUE]) :
                                  x \in Echoing \cap {s}}

PumpDuplicate ==
  /\ qfifo # <<>> /\ g_dedup_on /\ csp_dedup_is_duplicate(Head(qfifo).frame)
  /\ LET e == Head(qfifo)
     IN /\ IF e.side = "in" THEN g_dup_in' = g_dup_in + 1 /\ UNCHANGED g_dup_out
           ELSE g_dup_out' = g_dup_out + 1 /\ UNCHANGED g_dup_in
        /\ swallowed' = IF e.echo THEN swallowed ELSE [swallowed EXCEPT ![e.side] = @ + 1]
  /\ qfifo' = Tail(qfifo)
  /\ UNCHANGED <<g_dedup_on, recent, g_echo_in, g_echo_out, g_reverse_frames, to_shim, arrived>>

\* Faulty variant: on the way back every frame is let through.
OursBlind(e) == e.side = "in" /\ e.frame \notin UpFrames

\* The source tells the direction: what comes from the wrong side is our own.
Ours(e) == IF e.side = "in" THEN e.frame \notin UpFrames ELSE e.frame \in UpFrames

PumpEcho ==
  /\ qfifo # <<>> /\ ~(g_dedup_on /\ csp_dedup_is_duplicate(Head(qfifo).frame))
  /\ Ours(Head(qfifo))
  /\ IF Head(qfifo).side = "in" THEN g_echo_in' = g_echo_in + 1 /\ UNCHANGED g_echo_out
     ELSE g_echo_out' = g_echo_out + 1 /\ UNCHANGED g_echo_in
  /\ qfifo' = Tail(qfifo) /\ recent' = Remembered(Head(qfifo).frame)
  /\ UNCHANGED <<g_dedup_on, g_dup_in, g_dup_out, g_reverse_frames, to_shim, arrived, swallowed>>

\* A frame that the shim drops is not heard again.
PumpForward ==
  /\ qfifo # <<>> /\ ~(g_dedup_on /\ csp_dedup_is_duplicate(Head(qfifo).frame))
  /\ ~Ours(Head(qfifo))
  /\ IF Head(qfifo).side = "in" THEN to_shim' = to_shim + 1 /\ UNCHANGED g_reverse_frames
     ELSE g_reverse_frames' = g_reverse_frames + 1 /\ UNCHANGED to_shim
  /\ qfifo' \in Sent(IF Head(qfifo).side = "in" THEN "out" ELSE "in", Head(qfifo).frame)
  /\ recent' = Remembered(Head(qfifo).frame)
  /\ UNCHANGED <<g_dedup_on, g_echo_in, g_echo_out, g_dup_in, g_dup_out, arrived, swallowed>>

BridgeNext ==
  \/ \E f \in UpFrames : Arrive("in", f)
  \/ \E f \in DownFrames : Arrive("out", f)
  \/ Forget \/ PumpDuplicate \/ PumpEcho \/ PumpForward

BridgeSpec == BridgeInit /\ [][BridgeNext]_bridgeVars

-----------------------------------------------------------------------------
(* Properties                                                              *)

Queued(s) == Cardinality({i \in 1 .. Len(qfifo) : qfifo[i].side = s /\ ~qfifo[i].echo})

\* Type invariant of the bridge.
BridgeTypeOK ==
  /\ Len(qfifo) <= QfifoLen /\ Len(recent) <= DedupLen
  /\ g_dedup_on \/ (recent = <<>> /\ g_dup_in = 0 /\ g_dup_out = 0)

\* No frame laps: whatever is heard again and whenever the filter forgets, each
\* frame of either side is passed on once, or was taken for a duplicate; and the
\* zeros the end-to-end tests ask for are evidence: with dup_in = 0 no frame of the
\* source was lost before the shim.
PassedOnOnce ==
  /\ arrived["in"] = to_shim + swallowed["in"] + Queued("in")
  /\ arrived["out"] = g_reverse_frames + swallowed["out"] + Queued("out")
  /\ g_dup_in = 0 => swallowed["in"] = 0
  /\ g_dup_out = 0 => swallowed["out"] = 0
=============================================================================

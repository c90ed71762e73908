------------------------------- MODULE Monitor ------------------------------
(***************************************************************************)
(* The capture side of the link monitor, apm/csp_monitor_apm.c: the start  *)
(* and stop commands, the drainer thread, and the promiscuous queue that   *)
(* libcsp's router clones packets into.                                    *)
(*                                                                         *)
(* What crosses the link is one RDP flow on the matched port, its packets  *)
(* lost, repeated or out of order, and noise on other ports.  A clone that *)
(* cannot be made or queued is instrument loss, and shows only in two      *)
(* counters that wrap.  The window timer may fire at any time.             *)
(***************************************************************************)
EXTENDS SeqTracker, Sequences

CONSTANTS
  Isns,          \* sequence number of packet 0 of the flow
  Reach,         \* how far behind the newest packet a late one may be
  MaxSkip,       \* how many packets the link loses in a row
  QueueLen,      \* CSP_CONN_RXQUEUE_LEN
  PoolSize,      \* buffers the clones and other users share
  LowWater,      \* mon_buffer_low_water
  CounterMod,    \* 256, the modulus of csp_dbg_conn_ovf and csp_dbg_buffer_out
  MaxPackets,    \* bound: packets that cross the link
  MaxStarts      \* bound: start commands

ASSUME MonitorAssumption ==
  /\ Isns \subseteq 0 .. SeqSpace - 1
  /\ Reach \in Nat /\ MaxSkip \in Nat
  /\ QueueLen \in Nat
  /\ PoolSize \in Nat
  /\ LowWater \in Int
  /\ CounterMod \in Nat \ {0}
  /\ MaxPackets \in Nat /\ MaxStarts \in Nat

VARIABLES
  \* the link
  isn,
  top,      \* newest packet of the flow that crossed the link; -1: none yet
  crossed,  \* packets that crossed, noise included
  \* libcsp
  promisc,  \* promiscuous mode is on
  queue,    \* the clones: packet, and the start command they came after
  busy,     \* buffers others hold
  conn_ovf, buffer_out,
  \* the commands
  cmd,      \* where the shell thread is in a command
  starts,   \* start commands so far
  mon_running,
  \* the drainer
  pc,
  mon_seq, prev_ovf, prev_bout,
  row,      \* the #WINDOW row just written: inferred_loss and the suspect flags
  \* history
  heard,    \* packets of the flow fed to mon_seq in this run
  origin,   \* the first of them
  owed,     \* clones lost while the counters are compared, less those the rows told of
  failed,   \* a start command has failed
  stale,    \* a drainer was handed a clone from before its start
  astray    \* a packet fed in this run was out of the tracker's reach

linkVars    == <<isn, top, crossed>>
cspVars     == <<promisc, queue, busy, conn_ovf, buffer_out>>
cmdVars     == <<cmd, starts, mon_running>>
drainVars   == <<pc, mon_seq, prev_ovf, prev_bout, row>>
historyVars == <<heard, origin, owed, failed, stale, astray>>
vars == <<isn, top, crossed, promisc, queue, busy, conn_ovf, buffer_out, cmd, starts,
          mon_running, pc, mon_seq, prev_ovf, prev_bout, row, heard, origin, owed,
          failed, stale, astray>>

Noise == -1

SeqOf(p) == (isn + p) % SeqSpace

CONN_OVF      == "CONN_OVF"
BUFFER_OUT    == "BUFFER_OUT"
BUFFER_LOW    == "BUFFER_LOW"
SPARSE_SEQ    == "SPARSE_SEQ"

NoRow == [loss |-> 0, flags |-> {}]

\* The two counters have been counting since the node came up: here they are about
\* to wrap.
Init ==
  /\ isn \in Isns
  /\ top = -1
  /\ crossed = 0
  /\ promisc = FALSE
  /\ queue = <<>>
  /\ busy = 0
  /\ conn_ovf = CounterMod - 1
  /\ buffer_out = CounterMod - 1
  /\ cmd = "idle"
  /\ starts = 0
  /\ mon_running = FALSE
  /\ pc = "off"
  /\ mon_seq = ci_seq_tracker_init
  /\ prev_ovf = 0
  /\ prev_bout = 0
  /\ row = NoRow
  /\ heard = {}
  /\ origin = 0
  /\ owed = 0
  /\ failed = FALSE
  /\ stale = FALSE
  /\ astray = FALSE

-----------------------------------------------------------------------------
(* libcsp                                                                  *)

Remaining == PoolSize - Len(queue) - busy

\* The counters are being compared: not before the drainer has first read them, not
\* between a row and their second reading, not once the drainer has left its loop.
Compared == pc \in {"loop", "read", "window"}

\* The clone of a packet is lost in the instrument.
CountLoss == owed' = IF Compared THEN owed + 1 ELSE owed

\* csp_promisc_add: clone the packet, queue the clone.  In libcsp these are steps, so
\* that a clone may be begun before stop turns the mode off and queued after it has
\* emptied the queue; here they are one.
Promisc(p) ==
  \/ /\ ~promisc
     /\ UNCHANGED <<queue, conn_ovf, buffer_out, owed>>
  \/ /\ promisc /\ Remaining = 0
     /\ buffer_out' = (buffer_out + 1) % CounterMod
     /\ CountLoss
     /\ UNCHANGED <<queue, conn_ovf>>
  \/ /\ promisc /\ Remaining > 0 /\ Len(queue) = QueueLen
     /\ conn_ovf' = (conn_ovf + 1) % CounterMod
     /\ CountLoss
     /\ UNCHANGED <<queue, buffer_out>>
  \/ /\ promisc /\ Remaining > 0 /\ Len(queue) < QueueLen
     /\ queue' = Append(queue, [pkt |-> p, after |-> starts])
     /\ UNCHANGED <<conn_ovf, buffer_out, owed>>

\* A packet crosses the link: the next one or a later one, or one that is late or
\* repeated.
Cross ==
  /\ crossed < MaxPackets
  /\ crossed' = crossed + 1
  /\ \/ \E p \in (IF top > Reach THEN top - Reach ELSE 0) .. top + 1 + MaxSkip :
          /\ top' = IF p > top THEN p ELSE top
          /\ Promisc(p)
     \/ Promisc(Noise) /\ UNCHANGED top
  /\ UNCHANGED <<isn, promisc, busy, cmdVars, drainVars, heard, origin, failed, stale, astray>>

\* Others take a buffer of the pool, or give it back.
Borrow ==
  /\ Remaining > 0
  /\ busy' = busy + 1
  /\ UNCHANGED <<linkVars, promisc, queue, conn_ovf, buffer_out, cmdVars, drainVars, historyVars>>

GiveBack ==
  /\ busy > 0
  /\ busy' = busy - 1
  /\ UNCHANGED <<linkVars, promisc, queue, conn_ovf, buffer_out, cmdVars, drainVars, historyVars>>

-----------------------------------------------------------------------------
(* The drainer                                                             *)

\* The thread starts: fresh trackers, and the counters as they are now.
DrainerInit ==
  /\ pc = "init"
  /\ pc' = "loop"
  /\ mon_seq' = ci_seq_tracker_init
  /\ prev_ovf' = conn_ovf
  /\ prev_bout' = buffer_out
  /\ heard' = {}
  /\ owed' = 0
  /\ astray' = FALSE
  /\ UNCHANGED <<linkVars, cspVars, cmdVars, row, origin, failed, stale>>

Newest(h) == CHOOSE p \in h : \A q \in h : q <= p

\* A packet the 16-bit difference places wrongly, half the sequence space or more from
\* the newest, or so late that its bit stands for another one by now.
OutOfReach(p) ==
  heard # {} /\ ~(p - Newest(heard) \in -Half .. Half - 1 /\ Newest(heard) - p < Win)

\* A packet of the matched port is fed to the tracker; any other is only freed.
Capture(e) ==
  \/ /\ e.pkt # Noise
     /\ mon_seq' = ci_seq_tracker_feed(mon_seq, SeqOf(e.pkt))
     /\ heard' = heard \cup {e.pkt}
     /\ origin' = IF heard = {} THEN e.pkt ELSE origin
     /\ astray' = (astray \/ OutOfReach(e.pkt))
  \/ /\ e.pkt = Noise
     /\ UNCHANGED <<mon_seq, heard, origin, astray>>

\* while (mon_running): the flag is looked at once per pass.
DrainCheck ==
  /\ pc = "loop"
  /\ pc' = IF mon_running THEN "read" ELSE "off"
  /\ UNCHANGED <<linkVars, cspVars, cmdVars, mon_seq, prev_ovf, prev_bout, row, historyVars>>

DrainRead ==
  /\ pc = "read"
  /\ queue # <<>>
  /\ queue' = Tail(queue)
  /\ Capture(Head(queue))
  /\ stale' = (stale \/ Head(queue).after < starts)
  /\ pc' = "window"
  /\ UNCHANGED <<linkVars, promisc, busy, conn_ovf, buffer_out, cmdVars, prev_ovf, prev_bout,
                 row, owed, failed>>

\* Faulty variant: the read has no time-out.
DrainTimeoutNever == FALSE /\ UNCHANGED vars

\* csp_promisc_read(100) ran out its time.
DrainTimeout ==
  /\ pc = "read"
  /\ queue = <<>>
  /\ pc' = "window"
  /\ UNCHANGED <<linkVars, cspVars, cmdVars, mon_seq, prev_ovf, prev_bout, row, historyVars>>

\* Faulty variant: a counter that wrapped reads as no loss.
ci_u8_delta_saturating(prev, cur) == IF cur > prev THEN cur - prev ELSE 0

ci_u8_delta(prev, cur) == (cur - prev) % CounterMod

\* The flags of a window: clones that found no room or no buffer, and a low pool.
ci_measurement_suspect(ovf_delta, bout_delta, remaining) ==
  {f \in {CONN_OVF} : ovf_delta > 0}
  \cup {f \in {BUFFER_OUT} : bout_delta > 0}
  \cup {f \in {BUFFER_LOW} : remaining < LowWater}

Suspect ==
  ci_measurement_suspect(ci_u8_delta(prev_ovf, conn_ovf), ci_u8_delta(prev_bout, buffer_out),
                         Remaining)
  \cup {f \in {SPARSE_SEQ} : ~ci_loss_trustworthy(mon_seq)}

\* The window is not over yet.
WindowOpen ==
  /\ pc = "window"
  /\ pc' = "loop"
  /\ UNCHANGED <<linkVars, cspVars, cmdVars, mon_seq, prev_ovf, prev_bout, row, historyVars>>

\* The window is over: its row is written.
WindowClose ==
  /\ pc = "window"
  /\ pc' = "reread"
  /\ row' = [loss |-> ci_seq_tracker_loss(mon_seq), flags |-> Suspect]
  /\ owed' = owed - (IF CONN_OVF \in Suspect THEN ci_u8_delta(prev_ovf, conn_ovf) ELSE 0)
                  - (IF BUFFER_OUT \in Suspect THEN ci_u8_delta(prev_bout, buffer_out) ELSE 0)
  /\ UNCHANGED <<linkVars, cspVars, cmdVars, mon_seq, prev_ovf, prev_bout, heard, origin,
                 failed, stale, astray>>

\* Faulty variant: the previous counts are advanced by the difference, in a type
\* wider than the counters.
WindowRereadWide ==
  /\ pc = "reread"
  /\ pc' = "loop"
  /\ prev_ovf' = prev_ovf + ci_u8_delta(prev_ovf, conn_ovf)
  /\ prev_bout' = prev_bout + ci_u8_delta(prev_bout, buffer_out)
  /\ row' = NoRow
  /\ UNCHANGED <<linkVars, cspVars, cmdVars, mon_seq, historyVars>>

\* The counters are read once more for the next window.
WindowReread ==
  /\ pc = "reread"
  /\ pc' = "loop"
  /\ prev_ovf' = conn_ovf
  /\ prev_bout' = buffer_out
  /\ row' = NoRow
  /\ UNCHANGED <<linkVars, cspVars, cmdVars, mon_seq, historyVars>>

-----------------------------------------------------------------------------
(* The commands                                                            *)

\* start turns promiscuous mode on first; the queue keeps what is in it.
StartEnable ==
  /\ cmd = "idle" /\ ~mon_running
  /\ starts < MaxStarts
  /\ starts' = starts + 1
  /\ promisc' = TRUE
  /\ cmd' = "start"
  /\ UNCHANGED <<linkVars, queue, busy, conn_ovf, buffer_out, mon_running, drainVars, historyVars>>

\* The CSV file cannot be opened: promiscuous mode stays on.
StartOpenFails ==
  /\ cmd = "start"
  /\ cmd' = "idle"
  /\ failed' = TRUE
  /\ UNCHANGED <<linkVars, cspVars, starts, mon_running, drainVars, heard, origin, owed, stale, astray>>

\* The drainer cannot be created: promiscuous mode is turned off again, what has
\* been queued in the meantime stays queued.
StartThreadFails ==
  /\ cmd = "start"
  /\ cmd' = "idle"
  /\ promisc' = FALSE
  /\ failed' = TRUE
  /\ UNCHANGED <<linkVars, queue, busy, conn_ovf, buffer_out, starts, mon_running, drainVars,
                 heard, origin, owed, stale, astray>>

StartSucceeds ==
  /\ cmd = "start"
  /\ cmd' = "idle"
  /\ mon_running' = TRUE
  /\ pc' = "init"
  /\ UNCHANGED <<linkVars, cspVars, starts, mon_seq, prev_ovf, prev_bout, row, historyVars>>

\* stop asks the drainer to end, and waits for it.
StopRequest ==
  /\ cmd = "idle" /\ mon_running
  /\ mon_running' = FALSE
  /\ cmd' = "join"
  /\ UNCHANGED <<linkVars, cspVars, starts, drainVars, historyVars>>

StopJoined ==
  /\ cmd = "join" /\ pc = "off"
  /\ promisc' = FALSE
  /\ cmd' = "drain"
  /\ UNCHANGED <<linkVars, queue, busy, conn_ovf, buffer_out, starts, mon_running, drainVars,
                 historyVars>>

\* Faulty variant: what the drainer left in the queue stays there.
mon_drain_residual_skipped == UNCHANGED queue

mon_drain_residual == queue' = <<>>

StopDrain ==
  /\ cmd = "drain"
  /\ mon_drain_residual
  /\ cmd' = "idle"
  /\ UNCHANGED <<linkVars, promisc, busy, conn_ovf, buffer_out, starts, mon_running, drainVars,
                 historyVars>>

-----------------------------------------------------------------------------
Drainer == \/ DrainerInit \/ DrainCheck \/ DrainRead \/ DrainTimeout \/ WindowOpen
           \/ WindowClose \/ WindowReread

Command == \/ StartEnable \/ StartOpenFails \/ StartThreadFails \/ StartSucceeds
           \/ StopRequest \/ StopJoined \/ StopDrain

Next == Cross \/ Borrow \/ GiveBack \/ Drainer \/ Command

Spec == Init /\ [][Next]_vars

\* The drainer thread keeps running, and a stop that has been given goes on.
FairSpec == Spec /\ WF_vars(Drainer) /\ WF_vars(StopJoined) /\ WF_vars(StopDrain)

-----------------------------------------------------------------------------
(* Properties                                                              *)

\* Type invariant of the monitor.
TypeOK ==
  /\ isn \in Isns /\ top \in Nat \cup {-1} /\ crossed \in 0 .. MaxPackets
  /\ promisc \in BOOLEAN
  /\ \A i \in 1 .. Len(queue) : queue[i].pkt \in Nat \cup {Noise} /\ queue[i].after \in 0 .. starts
  /\ Len(queue) <= QueueLen /\ busy \in Nat /\ Remaining >= 0
  /\ {conn_ovf, buffer_out, prev_ovf, prev_bout} \subseteq 0 .. CounterMod - 1
  /\ cmd \in {"idle", "start", "join", "drain"}
  /\ starts \in 0 .. MaxStarts
  /\ mon_running \in BOOLEAN
  /\ pc \in {"off", "init", "loop", "read", "window", "reread"}
  /\ owed \in Int /\ failed \in BOOLEAN /\ stale \in BOOLEAN /\ astray \in BOOLEAN

\* The loss of a run is what the packets say: the packets between the first one
\* captured and the newest that have not been captured, less the ones captured
\* late from before the first, which hide as many holes (ci_meas.h: a late packet
\* that fills a gap reduces the loss, a repeat does not).  It holds in a run of any
\* length, however often the sequence number and the bitmap wrap, as long as every
\* packet fed is within reach of the newest before it.
LossCounts ==
  heard # {} /\ ~astray =>
    LET holes == Cardinality((origin .. Newest(heard)) \ heard)
        early == Cardinality({p \in heard : p < origin})
    IN /\ mon_seq.n_distinct = Cardinality(heard)
       /\ mon_seq.n_seen = mon_seq.n_distinct + mon_seq.n_dup
       /\ ci_seq_tracker_loss(mon_seq) = IF holes > early THEN holes - early ELSE 0

\* Rows that carry CONN_OVF or BUFFER_OUT tell of every clone the instrument lost while
\* it compared the counters, less whole turns of an 8-bit counter, which a window it
\* goes round in does not show, and they never tell of more, however often the counters
\* wrap.  A clone lost before the drainer first reads the counters, between a row and
\* their second reading, or after the last row of a run is told of by no row.
InstrumentLossIsFlagged == pc = "reread" => owed >= 0 /\ owed % CounterMod = 0

\* What csp_monitor_apm.c says of the rows: each carries a flag "so instrument loss ...
\* is never mistaken for link loss".  On a link that loses nothing and is quiet until
\* the drainer has read the counters, a run without a flagged row shows no loss.
InstrumentLossIsNotLinkLoss ==
  MaxSkip = 0 /\ MaxStarts = 1 =>
    ([](row.flags = {} /\ (pc = "init" => crossed = 0)) => [](row.loss = 0))

\* As long as no start command fails, a capture never takes in a clone from before
\* its start, and no clone stays in the queue, and out of the shared pool, after a
\* stop.
StopLeavesNothing ==
  ~failed => /\ ~stale
             /\ cmd = "idle" /\ ~mon_running => queue = <<>>

\* The same without the condition, as mon_drain_residual's comment has it: no
\* capture takes in stale packets.
NothingStale == ~stale

\* A stop command returns: the drainer looks at mon_running again after at most
\* one read, however full or empty the queue is.
StopReturns == cmd = "join" ~> cmd = "idle"
=============================================================================

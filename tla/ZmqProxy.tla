------------------------------ MODULE ZmqProxy ------------------------------
(***************************************************************************)
(* The lossy ZMQ proxy, proxy/zmqproxy.c built with ZMQ_PROXY_LOSSY: the   *)
(* forwarding loop with its half-duplex, corruption, drop and delay steps, *)
(* the thread that sends delayed frames, the capture thread, and SIGINT.   *)
(*                                                                         *)
(* A frame is what the proxy tells apart: who sent it and to whom, whether *)
(* it fits the packet buffer or is too short for a header, whether the     *)
(* drop rule's scope takes it in, and what the rule decides for its flow   *)
(* index (FlowIndex and DropShim are about the index).  Time is counted in *)
(* ticks; the few instructions a thread spends on one frame take less than *)
(* a tick.                                                                 *)
(***************************************************************************)
EXTENDS Integers, Sequences, FiniteSets

CONSTANTS
  Options,      \* command lines, each with the frames publishers then send
  HdxNode,      \* hdx_node
  OffsetSize,   \* CI_DTP_OFFSET_SIZE
  QueueLen,     \* 1024, the length of the delay queue
  PowerUp,      \* hdx_powerup_delay
  PowerDown,    \* hdx_powerdown_delay
  Delay,        \* delay_ms
  MaxFrames,    \* bound: frames that arrive
  LastArrival,  \* bound: the time after which none arrives
  MaxTime       \* bound: ticks

ASSUME ProxyAssumption ==
  /\ \A o \in Options : \A f \in o.frames :
       /\ f.size \in {"runt", "ok", "big"} /\ f.scoped \in BOOLEAN /\ f.doomed \in BOOLEAN
       /\ f.src # f.dst
  /\ \A o \in Options : {o.hdx, o.delay, o.corr, o.capture} \subseteq BOOLEAN
  /\ QueueLen \in Nat \ {0}
  /\ {PowerUp, PowerDown, Delay, MaxFrames, LastArrival, MaxTime} \subseteq Nat
  /\ PowerUp <= PowerDown
  /\ PowerDown < MaxTime

VARIABLES
  mode,         \* the command line the proxy runs with
  \* the sockets
  subs,         \* a subscription waits at the backend
  subscribed,   \* it has been forwarded, and publishers send
  arrived,      \* frames published so far
  inbox,        \* frames waiting at the frontend
  wire,         \* frames sent to the backend
  capq,         \* frames waiting at the capture socket
  now,
  \* the forwarding loop
  pc, cur, packet, g_stop,
  g_kept, g_drops, g_delay_drops, g_malformed_frames,
  drop_log,
  hdx_powerup_start_ms, hdx_last_tx_ms,
  \* the delay queue and its thread
  delayq, wpc, wleft, wmsg,
  \* history
  deaf,         \* frames dropped because the half-duplex node was sending
  refused       \* frames the delay thread could not put back

sockVars == <<subs, subscribed, arrived, inbox>>
countVars == <<g_kept, g_drops, g_delay_drops, g_malformed_frames>>
hdxVars  == <<hdx_powerup_start_ms, hdx_last_tx_ms>>
workVars == <<wpc, wleft, wmsg>>
vars == <<mode, subs, subscribed, arrived, inbox, wire, capq, now, pc, cur, packet, g_stop,
          g_kept, g_drops, g_delay_drops, g_malformed_frames, drop_log,
          hdx_powerup_start_ms, hdx_last_tx_ms, delayq, wpc, wleft, wmsg, deaf, refused>>

None == [num |-> 0]

\* The command lines main and zmq_proxy_lossy accept.
Accepted ==
  {o \in Options : /\ o.match_dport \in -1 .. 63
                   /\ OffsetSize <= o.overhead /\ o.overhead < o.mtu}

Matching == mode.match_dport >= 0

\* Faulty variant: the thread is only created for -D.
HasWorkerForDelay == mode.delay

\* The delay thread is only created when a frame can be delayed.
HasWorker == mode.delay \/ mode.hdx

\* csp_get_ms has been counting since the machine came up: the half-duplex node's
\* transmitter is off.  The packet buffer holds whatever malloc returned.
Init ==
  /\ mode \in Accepted
  /\ subs = TRUE /\ subscribed = FALSE
  /\ arrived = 0
  /\ inbox = <<>> /\ wire = <<>> /\ capq = <<>>
  /\ now = PowerDown + 1
  /\ pc = "test"
  /\ cur = None
  /\ packet \in mode.frames
  /\ g_stop = FALSE
  /\ g_kept = 0 /\ g_drops = 0 /\ g_delay_drops = 0 /\ g_malformed_frames = 0
  /\ drop_log = <<>>
  /\ hdx_powerup_start_ms = 0 /\ hdx_last_tx_ms = 0
  /\ delayq = <<>>
  /\ wpc = IF HasWorker THEN "count" ELSE "none"
  /\ wleft = 0
  /\ wmsg = None
  /\ deaf = {} /\ refused = {}

Running == pc # "exit"

-----------------------------------------------------------------------------
(* The environment                                                         *)

\* A publisher sends a frame.
Publish ==
  /\ Running /\ subscribed
  /\ arrived < MaxFrames /\ now <= LastArrival
  /\ arrived' = arrived + 1
  /\ \E f \in mode.frames : inbox' = Append(inbox, [num |-> arrived + 1, frame |-> f])
  /\ UNCHANGED <<mode, subs, subscribed, wire, capq, now, pc, cur, packet, g_stop, countVars,
                 drop_log, hdxVars, delayq, workVars, deaf, refused>>

\* Time passes, but not while a frame is being handled, and not past LastArrival
\* while one waits, so that all that is delayed comes due.
Tick ==
  /\ Running /\ now < MaxTime
  /\ inbox # <<>> => now < LastArrival
  /\ pc \notin {"got", "hold"} /\ wpc # "mark"
  /\ now' = now + 1
  /\ UNCHANGED <<mode, sockVars, wire, capq, pc, cur, packet, g_stop, countVars, drop_log,
                 hdxVars, delayq, workVars, deaf, refused>>

\* Faulty variant: the handler is installed with SA_RESTART.
AfterSignalRestarted == pc

\* A poll that blocks is interrupted; one that has not been entered yet is not.
AfterSignal == IF pc = "poll" THEN "test" ELSE pc

\* The handler sets the flag.
proxy_on_sigint ==
  /\ Running /\ ~g_stop
  /\ g_stop' = TRUE
  /\ pc' = AfterSignal
  /\ UNCHANGED <<mode, sockVars, wire, capq, now, cur, packet, countVars, drop_log, hdxVars,
                 delayq, workVars, deaf, refused>>

-----------------------------------------------------------------------------
(* The forwarding loop                                                     *)

\* while (!g_stop); after it the log is closed and the process exits.
TestStop ==
  /\ pc = "test"
  /\ pc' = IF g_stop THEN "exit" ELSE "enter"
  /\ UNCHANGED <<mode, sockVars, wire, capq, now, cur, packet, g_stop, countVars, drop_log,
                 hdxVars, delayq, workVars, deaf, refused>>

\* zmq_poll without a timeout; "blind" is a poll entered with the flag already set.
EnterPoll ==
  /\ pc = "enter"
  /\ pc' = IF g_stop THEN "blind" ELSE "poll"
  /\ UNCHANGED <<mode, sockVars, wire, capq, now, cur, packet, g_stop, countVars, drop_log,
                 hdxVars, delayq, workVars, deaf, refused>>

\* The header csp_id_strip leaves in the reused packet: a frame too short for one
\* leaves the header before it.
Parsed(f) == IF f.size = "runt" THEN packet ELSE f

\* The poll returns.  A frame is received, and parsed if a step below needs it.
PollFrame ==
  /\ pc \in {"poll", "blind"} /\ inbox # <<>>
  /\ inbox' = Tail(inbox)
  /\ cur' = Head(inbox)
  /\ packet' = IF (mode.hdx \/ Matching) /\ Head(inbox).frame.size # "big"
               THEN Parsed(Head(inbox).frame) ELSE packet
  /\ pc' = "got"
  /\ UNCHANGED <<mode, subs, subscribed, arrived, wire, capq, now, g_stop, countVars, drop_log,
                 hdxVars, delayq, workVars, deaf, refused>>

\* The second poll item: a subscription goes on to the publishers.
PollSubscription ==
  /\ \/ pc \in {"poll", "blind"} /\ inbox = <<>> /\ subs
     \/ pc = "side"
  /\ subs' = FALSE
  /\ subscribed' = (subscribed \/ subs)
  /\ pc' = "test"
  /\ UNCHANGED <<mode, arrived, inbox, wire, capq, now, cur, packet, g_stop, countVars, drop_log,
                 hdxVars, delayq, workVars, deaf, refused>>

\* zmq_msg_send on the backend: subscribers, the capture thread among them, get it.
Send(m) ==
  /\ wire' = Append(wire, m)
  /\ capq' = IF mode.capture THEN Append(capq, m) ELSE capq

\* Faulty variant: the queue has no limit.
EnqueueUnbounded(e) == delayq' = Append(delayq, e) /\ UNCHANGED g_delay_drops

\* Faulty variant: the result of csp_queue_enqueue is not looked at.
EnqueueUncounted(e) ==
  /\ delayq' = IF Len(delayq) < QueueLen THEN Append(delayq, e) ELSE delayq
  /\ UNCHANGED g_delay_drops

\* A delayed copy of the frame is queued, or counted if there is no room.
Enqueue(e) ==
  IF Len(delayq) < QueueLen
  THEN delayq' = Append(delayq, e) /\ UNCHANGED g_delay_drops
  ELSE g_delay_drops' = g_delay_drops + 1 /\ UNCHANGED delayq

\* Faulty variant: only the half-duplex step checks the size.
FitsForHdx == ~(mode.hdx /\ cur.frame.size = "big")

\* A frame that is to be parsed fits the packet buffer.
Fits == ~((mode.hdx \/ Matching) /\ cur.frame.size = "big")

RejectBig ==
  /\ pc = "got" /\ ~Fits
  /\ g_malformed_frames' = g_malformed_frames + 1
  /\ pc' = "test" /\ cur' = None
  /\ UNCHANGED <<mode, sockVars, wire, capq, now, packet, g_stop, g_kept, g_drops, g_delay_drops,
                 drop_log, hdxVars, delayq, workVars, deaf, refused>>

FromHdx == mode.hdx /\ packet.src = HdxNode
ToHdx   == mode.hdx /\ packet.dst = HdxNode

\* The half-duplex node's transmitter has not been off for long.
Warm == now <= hdx_last_tx_ms + PowerDown

\* Faulty variant: the start of a power-up is not noted.
PowerUpStartForgotten == hdx_powerup_start_ms

PowerUpStart == IF hdx_powerup_start_ms = 0 THEN now ELSE hdx_powerup_start_ms

\* A frame of the half-duplex node while its transmitter is off starts the
\* power-up, unless one is under way.
HoldForPowerUp ==
  /\ pc = "got" /\ Fits /\ FromHdx /\ ~Warm
  /\ hdx_powerup_start_ms' = PowerUpStart
  /\ pc' = "hold"
  /\ UNCHANGED <<mode, sockVars, wire, capq, now, cur, packet, g_stop, countVars, drop_log,
                 hdx_last_tx_ms, delayq, workVars, deaf, refused>>

\* It is queued until the power-up that hdx_powerup_start_ms names by now is over;
\* the drop decision is skipped.
QueueForPowerUp ==
  /\ pc = "hold"
  /\ Enqueue([num |-> cur.num, frame |-> cur.frame, due |-> hdx_powerup_start_ms + PowerUp,
              hdx |-> TRUE, held |-> now])
  /\ pc' = "test" /\ cur' = None
  /\ UNCHANGED <<mode, sockVars, wire, capq, now, packet, g_stop, g_kept, g_drops,
                 g_malformed_frames, drop_log, hdxVars, workVars, deaf, refused>>

\* The half-duplex node does not hear while it sends.
HdxDeaf ==
  /\ pc = "got" /\ Fits /\ ~FromHdx /\ ToHdx /\ hdx_last_tx_ms + PowerDown > now
  /\ deaf' = deaf \cup {cur.num}
  /\ pc' = "test" /\ cur' = None
  /\ UNCHANGED <<mode, sockVars, wire, capq, now, packet, g_stop, countVars, drop_log, hdxVars,
                 delayq, workVars, refused>>

\* What is decided about a frame: the rule for the header of a frame in scope, after
\* a bit of it may have been flipped; without a match scope, a throw of rand().
Decisions ==
  IF ~Matching THEN {[header |-> packet, logged |-> FALSE, drop |-> d] : d \in BOOLEAN}
  ELSE {[header |-> g, logged |-> g.scoped, drop |-> g.scoped /\ g.doomed] :
          g \in {packet} \cup {f \in mode.frames : mode.corr /\ f.size = "ok" /\ cur.frame.size = "ok"}}

\* Faulty variant: the log is written before the decision.
LogEarly(d) ==
  drop_log' = IF d.logged THEN Append(drop_log, [num |-> cur.num, dropped |-> FALSE]) ELSE drop_log

Log(d) ==
  drop_log' = IF d.logged THEN Append(drop_log, [num |-> cur.num, dropped |-> d.drop])
              ELSE drop_log

\* A frame of the half-duplex node keeps its transmitter on.
NoteTransmission ==
  /\ hdx_last_tx_ms' = IF FromHdx THEN now ELSE hdx_last_tx_ms
  /\ UNCHANGED hdx_powerup_start_ms

\* The frame gets as far as the drop decision.
Judged(d) ==
  /\ Fits
  /\ FromHdx => Warm
  /\ ToHdx /\ ~FromHdx => hdx_last_tx_ms + PowerDown <= now
  /\ Log(d)
  /\ NoteTransmission
  /\ packet' = d.header
  /\ cur' = None
  /\ UNCHANGED <<mode, sockVars, now, g_stop, g_malformed_frames, workVars, deaf, refused>>

Forward ==
  /\ pc = "got" /\ pc' = "side"
  /\ \E d \in Decisions : Judged(d) /\ ~d.drop
  /\ Send(cur)
  /\ g_kept' = g_kept + 1
  /\ UNCHANGED <<g_drops, g_delay_drops, delayq>>

Drop ==
  /\ pc = "got" /\ pc' = "side"
  /\ \E d \in Decisions : Judged(d) /\ d.drop
  /\ g_drops' = g_drops + 1
  /\ UNCHANGED <<wire, capq, g_kept, g_delay_drops, delayq>>

\* A frame that is kept and delayed is logged before it is known whether the delay
\* queue has room, and counts as neither kept nor dropped.
DelayFrame ==
  /\ mode.delay /\ pc = "got" /\ pc' = "test"
  /\ \E d \in Decisions : Judged(d) /\ ~d.drop
  /\ Enqueue([num |-> cur.num, frame |-> cur.frame, due |-> now + Delay, hdx |-> FALSE,
              held |-> now])
  /\ UNCHANGED <<wire, capq, g_kept, g_drops>>

-----------------------------------------------------------------------------
(* The delay thread                                                        *)

mainVars == <<mode, sockVars, now, pc, cur, packet, g_stop, countVars, drop_log, deaf>>

\* A pass over as many frames as the queue holds now begins, at once after a frame
\* was sent and after a pause at the end of a pass.
CountDelayed ==
  /\ Running
  /\ wpc = "take" => wleft = 0
  /\ wpc \in {"count", "take"}
  /\ wleft' = Len(delayq)
  /\ wpc' = "take"
  /\ UNCHANGED <<mainVars, wire, capq, hdxVars, delayq, wmsg, refused>>

TakeDelayed ==
  /\ Running /\ wpc = "take" /\ wleft > 0
  /\ wmsg' = Head(delayq)
  /\ delayq' = Tail(delayq)
  /\ wleft' = wleft - 1
  /\ wpc' = "look"
  /\ UNCHANGED <<mainVars, wire, capq, hdxVars, refused>>

\* A frame that is due is sent; a new pass begins.
SendDelayed ==
  /\ Running /\ wpc = "look" /\ now > wmsg.due
  /\ Send([num |-> wmsg.num, frame |-> wmsg.frame])
  /\ wmsg' = None
  /\ wpc' = IF wmsg.hdx THEN "mark" ELSE "count"
  /\ UNCHANGED <<mainVars, hdxVars, delayq, wleft, refused>>

\* The half-duplex node has sent: its transmitter is on, and needs no power-up.
MarkTransmission ==
  /\ Running /\ wpc = "mark"
  /\ hdx_last_tx_ms' = now
  /\ hdx_powerup_start_ms' = 0
  /\ wpc' = "count"
  /\ UNCHANGED <<mainVars, wire, capq, delayq, wleft, wmsg, refused>>

\* A frame that is not due goes back to the end of the queue; if the queue has been
\* filled meanwhile, it is gone.
PutBackDelayed ==
  /\ Running /\ wpc = "look" /\ now <= wmsg.due
  /\ wmsg' = None
  /\ wpc' = "take"
  /\ IF Len(delayq) < QueueLen
     THEN delayq' = Append(delayq, wmsg) /\ UNCHANGED refused
     ELSE refused' = refused \cup {wmsg.num} /\ UNCHANGED delayq
  /\ UNCHANGED <<mainVars, wire, capq, hdxVars, wleft>>

-----------------------------------------------------------------------------
(* The capture thread                                                      *)

\* A frame is written to the log file; one that is too short empties the socket,
\* one that does not fit is counted.
Capture ==
  /\ Running /\ capq # <<>>
  /\ capq' = IF Head(capq).frame.size = "runt" THEN <<>> ELSE Tail(capq)
  /\ g_malformed_frames' =
       IF Head(capq).frame.size = "big" THEN g_malformed_frames + 1 ELSE g_malformed_frames
  /\ UNCHANGED <<mode, sockVars, wire, now, pc, cur, packet, g_stop, g_kept, g_drops,
                 g_delay_drops, drop_log, hdxVars, delayq, workVars, deaf, refused>>

-----------------------------------------------------------------------------
Main == \/ TestStop \/ EnterPoll \/ PollFrame \/ PollSubscription \/ RejectBig
        \/ HoldForPowerUp \/ QueueForPowerUp \/ HdxDeaf \/ Forward \/ Drop \/ DelayFrame

task_delay_send == \/ CountDelayed \/ TakeDelayed \/ SendDelayed
                   \/ MarkTransmission \/ PutBackDelayed

Next == Publish \/ Tick \/ proxy_on_sigint \/ Main \/ task_delay_send \/ Capture

Spec == Init /\ [][Next]_vars

\* Each thread keeps running, and time goes on.
FairSpec == Spec /\ WF_vars(Main) /\ WF_vars(task_delay_send) /\ WF_vars(Tick)

-----------------------------------------------------------------------------
(* Properties                                                              *)

\* Type invariant of the proxy.
TypeOK ==
  /\ mode \in Accepted
  /\ {subs, subscribed, g_stop} \subseteq BOOLEAN
  /\ arrived \in 0 .. MaxFrames
  /\ \A s \in {inbox, wire, capq} : \A i \in 1 .. Len(s) :
       s[i].num \in 1 .. arrived /\ s[i].frame \in mode.frames
  /\ now \in 0 .. MaxTime
  /\ pc \in {"test", "enter", "poll", "blind", "got", "hold", "side", "exit"}
  /\ cur # None <=> pc \in {"got", "hold"}
  /\ packet \in mode.frames
  /\ {g_kept, g_drops, g_delay_drops, g_malformed_frames} \subseteq Nat
  /\ {hdx_powerup_start_ms, hdx_last_tx_ms} \subseteq 0 .. MaxTime
  /\ Len(delayq) <= QueueLen
  /\ wpc \in {"none", "count", "take", "look", "mark"}
  /\ wleft \in 0 .. QueueLen
  /\ wmsg # None <=> wpc = "look"

Nums(s)  == {s[i].num : i \in 1 .. Len(s)}
InHand   == ({cur.num, wmsg.num} \ {0}) \cup Nums(delayq)

\* Every frame is in one place, whatever the two threads do to the delay queue: it
\* waits, is in a thread's hands or in the delay queue, has been sent, once, or has
\* been dropped for one of the reasons the counters name -- or for one of the two no
\* counter names: the half-duplex node was sending, or the frame was not due and
\* the queue had been filled when it was put back.  In the modes that parse frames
\* every frame counted as malformed was dropped, with a capture thread or without;
\* in the others none was.
FrameInOnePlace ==
  LET rejected == IF mode.hdx \/ Matching THEN g_malformed_frames ELSE 0 IN
  /\ Cardinality(Nums(wire)) = Len(wire)
  /\ Cardinality(Nums(delayq)) = Len(delayq)
  /\ Nums(wire) \cap InHand = {}
  /\ arrived = Len(inbox) + Cardinality(InHand) + Len(wire) + g_drops + g_delay_drops + rejected
               + Cardinality(deaf) + Cardinality(refused)

LogSays(dropped) == {drop_log[i].num : i \in {j \in 1 .. Len(drop_log) : drop_log[j].dropped = dropped}}

\* The drop log against what subscribers get: a frame it calls dropped is never
\* sent; one it calls kept is sent or still delayed, unless delayed frames have been
\* lost to a full queue, and then no more of them are missing than were lost; and
\* when nothing is delayed, the frames come out in the order of the log.
LogAgainstWire ==
  LET missing == LogSays(FALSE) \ (Nums(wire) \cup InHand) IN
  /\ LogSays(TRUE) \cap (Nums(wire) \cup InHand) = {}
  /\ Cardinality(missing) <= g_delay_drops + Cardinality(refused)
  /\ ~HasWorker => \A i, j \in 1 .. Len(wire) : i < j => wire[i].num < wire[j].num

\* A frame is counted as malformed once, by the forwarding loop or by the capture
\* thread, which share the counter without a lock; and in the modes that parse
\* frames such a frame never gets through.
MalformedOnce ==
  LET big == {i \in 1 .. Len(wire) : wire[i].frame.size = "big"} IN
  /\ mode.hdx \/ Matching => big = {}
  /\ ~mode.hdx /\ ~Matching => g_malformed_frames <= Cardinality(big)

\* A frame of the half-duplex node that found its transmitter off is sent when it is
\* on, or when it has been powering up for the time that takes since one of the
\* frames now waiting was held -- across the threads' unsynchronised use of the two
\* time stamps.  A frame lost to a full queue leaves a power-up behind that nothing
\* resets.
PowerUpRespected ==
  [][ Len(wire') > Len(wire) /\ wpc = "look" /\ wpc' = "mark" /\ ~Warm
      /\ g_delay_drops = 0 /\ refused = {}
      => \E e \in {wmsg} \cup {delayq[i] : i \in 1 .. Len(delayq)} :
           e.hdx /\ now > e.held + PowerUp ]_vars

\* SIGINT ends the run, also when the loop waits for a frame -- unless it comes
\* between the test of the flag and the poll: then the next frame does.
StopIsTaken ==
  /\ g_stop /\ pc \notin {"enter", "blind"} ~> pc = "exit"
  /\ g_stop /\ inbox # <<>> ~> pc = "exit"

\* The same without the exception, as proxy_on_sigint's comment has it: the loop
\* notices the flag on the next iteration, as "zmq_poll returns EINTR".
StopIsNoticed == g_stop ~> pc = "exit"

\* A frame in the delay queue leaves it, unless the run ends first.
DelayedFrameLeaves == \A n \in 1 .. MaxFrames : n \in Nums(delayq) ~> n \notin InHand \/ pc = "exit"
=============================================================================

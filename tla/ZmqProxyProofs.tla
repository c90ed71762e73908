--------------------------- MODULE ZmqProxyProofs ---------------------------
(***************************************************************************)
(* Proofs about ZmqProxy, for any set of command lines and frames, any     *)
(* length of the delay queue, any delays and any bounds.                   *)
(***************************************************************************)
EXTENDS ZmqProxy, FiniteSetTheorems, SequenceTheorems, TLAPS

-----------------------------------------------------------------------------
(* The inductive invariant                                                 *)

Msgs    == [num : Nat, frame : mode.frames]
Delayed == [num : Nat, frame : mode.frames, due : Nat, hdx : BOOLEAN, held : Nat]

\* The loop parses frames.
Parses == mode.hdx \/ Matching

InHands == pc \in {"got", "hold"}

Types ==
  /\ mode \in Accepted /\ packet \in mode.frames
  /\ subs \in BOOLEAN /\ subscribed \in BOOLEAN /\ g_stop \in BOOLEAN
  /\ arrived \in 0 .. MaxFrames
  /\ now \in 0 .. MaxTime /\ now # 0
  /\ hdx_powerup_start_ms \in 0 .. MaxTime /\ hdx_last_tx_ms \in 0 .. MaxTime
  /\ pc \in {"test", "enter", "poll", "blind", "got", "hold", "side", "exit"}
  /\ wpc \in {"none", "count", "take", "look", "mark"}
  /\ wleft \in 0 .. QueueLen /\ wleft <= Len(delayq)
  /\ g_kept \in Nat /\ g_drops \in Nat /\ g_delay_drops \in Nat /\ g_malformed_frames \in Nat
  /\ inbox \in Seq(Msgs) /\ wire \in Seq(Msgs) /\ capq \in Seq(Msgs)
  /\ delayq \in Seq(Delayed) /\ Len(delayq) <= QueueLen
  /\ IF InHands THEN cur \in Msgs ELSE cur = None
  /\ IF wpc = "look" THEN wmsg \in Delayed ELSE wmsg = None
  /\ drop_log \in Seq([num : Nat, dropped : BOOLEAN])
  /\ deaf \in SUBSET Nat /\ refused \in SUBSET Nat

\* Frames are numbered as they arrive: those before the inbox and the one the loop
\* holds are done with, or delayed.
Taken == arrived - Len(inbox)
Done  == IF InHands THEN Taken - 1 ELSE Taken

Numbers ==
  /\ \A i \in 1 .. Len(inbox) : inbox[i].num = Taken + i
  /\ InHands => cur.num = Taken
  /\ Done \in Nat
  /\ Nums(wire) \cup Nums(delayq) \cup Nums(drop_log) \cup deaf \cup refused \subseteq 1 .. Done
  /\ Nums(capq) \subseteq Nums(wire)
  /\ wpc = "look" => wmsg.num \in 1 .. Done

Distinct(s) ==
  /\ \A i, j \in 1 .. Len(s) : s[i].num = s[j].num => i = j
  /\ Cardinality(Nums(s)) = Len(s)

\* No frame is in two places.
Places ==
  /\ Distinct(wire) /\ Distinct(delayq)
  /\ wpc = "look" => wmsg.num \notin Nums(delayq) \cup Nums(wire) \cup refused
  /\ Nums(delayq) \cap (Nums(wire) \cup refused) = {}

Rejected == IF Parses THEN g_malformed_frames ELSE 0

Accounted ==
  arrived = Len(inbox) + Cardinality(InHand) + Len(wire) + g_drops + g_delay_drops + Rejected
            + Cardinality(deaf) + Cardinality(refused)

\* What subscribers have got or can still get of the frames taken.
Out == Nums(wire) \cup InHand

\* The drop log against it.
LogAgrees ==
  /\ LogSays(TRUE) \cap Out = {}
  /\ Cardinality(LogSays(FALSE) \ Out) <= g_delay_drops + Cardinality(refused)

IsBig(m) == m.frame.size = "big"

Items(s) == {s[i] : i \in 1 .. Len(s)}

\* The frames held back: in the delay queue, or taken from it by its thread.
Waiting == (IF wpc = "look" THEN {wmsg} ELSE {}) \cup Items(delayq)

Held == IF pc = "hold" THEN {cur} ELSE {}

\* Frames too big for the buffer stay out of the modes that parse.
SmallOnly ==
  Parses => \A m \in Items(wire) \cup Items(capq) \cup Waiting \cup Held : ~IsBig(m)

BigIn(s) == Cardinality({i \in 1 .. Len(s) : IsBig(s[i])})

\* The frames the capture thread has counted or has still to look at were sent.
CapturedOnce == ~Parses => g_malformed_frames + BigIn(capq) <= BigIn(wire)

\* Without its thread the delay queue is not used, and what is sent keeps its order.
NoWorker ==
  ~HasWorker =>
    /\ wpc = "none" /\ pc # "hold"
    /\ \A i, j \in 1 .. Len(wire) : i < j => wire[i].num < wire[j].num

Lossless == g_delay_drops = 0 /\ refused = {}

\* The power-up that hdx_powerup_start_ms names was started by a frame that still
\* waits, or has just been started, or is about to be ended.
Started ==
  \/ wpc = "mark"
  \/ pc = "hold" /\ hdx_powerup_start_ms = now
  \/ \E e \in Waiting : e.hdx /\ e.held <= hdx_powerup_start_ms

\* When the frame is due, the power-up that some waiting frame started is over, or
\* the transmitter has been on since the frame was held, or is being marked as on.
Covered(e) ==
  \/ \E f \in Waiting : f.hdx /\ f.held + PowerUp <= e.due
  \/ e.held <= hdx_last_tx_ms
  \/ wpc = "mark"

PowerUps ==
  /\ hdx_last_tx_ms <= now
  /\ \A e \in Waiting : e.hdx => e.held <= now
  /\ pc = "hold" /\ hdx_powerup_start_ms = 0 => hdx_last_tx_ms = now
  /\ Lossless /\ hdx_powerup_start_ms # 0 => Started
  /\ Lossless => \A e \in Waiting : e.hdx => Covered(e)

Inv ==
  /\ Types
  /\ Numbers
  /\ Places
  /\ Accounted
  /\ LogAgrees
  /\ SmallOnly
  /\ CapturedOnce
  /\ NoWorker
  /\ PowerUps

-----------------------------------------------------------------------------
(* Sequences of frames                                                     *)

LEMMA AppendFacts ==
  ASSUME NEW S, NEW s \in Seq(S), NEW x \in S
  PROVE  /\ Append(s, x) \in Seq(S)
         /\ Len(Append(s, x)) = Len(s) + 1 /\ Len(s) \in Nat
         /\ Append(s, x)[Len(s) + 1] = x
         /\ \A i \in 1 .. Len(s) : Append(s, x)[i] = s[i]
         /\ \A i \in 1 .. Len(Append(s, x)) : i \in 1 .. Len(s) \/ i = Len(s) + 1
  OBVIOUS

LEMMA TailFacts ==
  ASSUME NEW S, NEW s \in Seq(S), s # <<>>
  PROVE  /\ Tail(s) \in Seq(S)
         /\ Len(Tail(s)) = Len(s) - 1 /\ Len(s) >= 1 /\ Len(s) \in Nat
         /\ Head(s) = s[1] /\ Head(s) \in S
         /\ \A i \in 1 .. Len(Tail(s)) : i + 1 \in 2 .. Len(s) /\ Tail(s)[i] = s[i + 1]
         /\ \A i \in 2 .. Len(s) : i - 1 \in 1 .. Len(Tail(s)) /\ Tail(s)[i - 1] = s[i]
  OBVIOUS

LEMMA EmptyFacts ==
  ASSUME NEW S
  PROVE  <<>> \in Seq(S) /\ Len(<<>>) = 0 /\ 1 .. Len(<<>>) = {}
  OBVIOUS

LEMMA ItemsAppend ==
  ASSUME NEW S, NEW s \in Seq(S), NEW x \in S
  PROVE  Items(Append(s, x)) = Items(s) \cup {x}
<1> DEFINE t == Append(s, x)
<1>1. /\ Len(t) = Len(s) + 1 /\ Len(s) \in Nat /\ t[Len(s) + 1] = x
      /\ \A i \in 1 .. Len(s) : t[i] = s[i]
      /\ \A i \in 1 .. Len(t) : i \in 1 .. Len(s) \/ i = Len(s) + 1
  BY AppendFacts
<1> HIDE DEF t
<1>2. Len(s) + 1 \in 1 .. Len(t) /\ \A i \in 1 .. Len(s) : i \in 1 .. Len(t)
  BY <1>1
<1>3. Items(t) = Items(s) \cup {x}
  BY <1>1, <1>2 DEF Items
<1> QED
  BY <1>3 DEF t

LEMMA ItemsTail ==
  ASSUME NEW S, NEW s \in Seq(S), s # <<>>
  PROVE  Items(s) = Items(Tail(s)) \cup {Head(s)}
<1> DEFINE t == Tail(s)
<1>1. /\ Len(t) = Len(s) - 1 /\ Len(s) >= 1 /\ Len(s) \in Nat /\ Head(s) = s[1]
      /\ \A i \in 1 .. Len(t) : i + 1 \in 2 .. Len(s) /\ t[i] = s[i + 1]
      /\ \A i \in 2 .. Len(s) : i - 1 \in 1 .. Len(t) /\ t[i - 1] = s[i]
  BY TailFacts
<1> HIDE DEF t
<1>2. 1 \in 1 .. Len(s) /\ \A i \in 1 .. Len(s) : i = 1 \/ i \in 2 .. Len(s)
  BY <1>1
<1>3. \A i \in 2 .. Len(s) : i \in 1 .. Len(s)
  BY <1>1
<1>4. Items(s) \subseteq Items(t) \cup {Head(s)}
  BY <1>1, <1>2 DEF Items
<1>5. Items(t) \cup {Head(s)} \subseteq Items(s)
  BY <1>1, <1>2, <1>3 DEF Items
<1>6. Items(s) = Items(t) \cup {Head(s)}
  BY <1>4, <1>5
<1> QED
  BY <1>6 DEF t

LEMMA NumsItems ==
  ASSUME NEW s
  PROVE  Nums(s) = {m.num : m \in Items(s)}
  BY DEF Nums, Items

LEMMA NumsAppend ==
  ASSUME NEW S, NEW s \in Seq(S), NEW x \in S
  PROVE  Nums(Append(s, x)) = Nums(s) \cup {x.num}
<1>1. Items(Append(s, x)) = Items(s) \cup {x}
  BY ItemsAppend
<1> QED
  BY <1>1, NumsItems

LEMMA NumsTail ==
  ASSUME NEW S, NEW s \in Seq(S), s # <<>>
  PROVE  Nums(s) = Nums(Tail(s)) \cup {Head(s).num}
<1>1. Items(s) = Items(Tail(s)) \cup {Head(s)}
  BY ItemsTail
<1> QED
  BY <1>1, NumsItems

LEMMA NumsEmpty == Nums(<<>>) = {} /\ Items(<<>>) = {}
  BY EmptyFacts DEF Nums, Items

LEMMA DistinctAppend ==
  ASSUME NEW S, NEW s \in Seq(S), NEW x \in S, Distinct(s), IsFiniteSet(Nums(s)),
         x.num \notin Nums(s)
  PROVE  Distinct(Append(s, x))
<1> DEFINE t == Append(s, x)
<1>1. /\ Len(t) = Len(s) + 1 /\ Len(s) \in Nat /\ t[Len(s) + 1] = x
      /\ \A i \in 1 .. Len(s) : t[i] = s[i]
      /\ \A i \in 1 .. Len(t) : i \in 1 .. Len(s) \/ i = Len(s) + 1
  BY AppendFacts
<1>2. Nums(t) = Nums(s) \cup {x.num}
  BY NumsAppend
<1> HIDE DEF t
<1>3. Cardinality(Nums(t)) = Len(t)
  BY <1>1, <1>2, FS_AddElement DEF Distinct
<1>4. \A i \in 1 .. Len(s) : s[i].num # x.num
  BY DEF Nums
<1>5. \A i, j \in 1 .. Len(s) : s[i].num = s[j].num => i = j
  BY DEF Distinct
<1>6. \A i, j \in 1 .. Len(t) : t[i].num = t[j].num => i = j
  BY <1>1, <1>4, <1>5
<1> QED
  BY <1>3, <1>6 DEF Distinct, t

LEMMA DistinctTail ==
  ASSUME NEW S, NEW s \in Seq(S), s # <<>>, Distinct(s), IsFiniteSet(Nums(s))
  PROVE  /\ Nums(Tail(s)) = Nums(s) \ {Head(s).num} /\ Head(s).num \in Nums(s)
         /\ Distinct(Tail(s))
<1> DEFINE t == Tail(s)
<1>1. /\ Len(t) = Len(s) - 1 /\ Len(s) >= 1 /\ Len(s) \in Nat /\ Head(s) = s[1]
      /\ \A i \in 1 .. Len(t) : i + 1 \in 2 .. Len(s) /\ t[i] = s[i + 1]
      /\ \A i \in 2 .. Len(s) : i - 1 \in 1 .. Len(t) /\ t[i - 1] = s[i]
  BY TailFacts
<1>2. Nums(s) = Nums(t) \cup {Head(s).num}
  BY ItemsTail, NumsItems
<1> HIDE DEF t
<1>3. \A i \in 2 .. Len(s) : i \in 1 .. Len(s) /\ i # 1
  BY <1>1
<1>4. 1 \in 1 .. Len(s)
  BY <1>1
<1>5. \A i, j \in 1 .. Len(s) : s[i].num = s[j].num => i = j
  BY DEF Distinct
<1>6. Head(s).num \notin Nums(t)
  BY <1>1, <1>3, <1>4, <1>5 DEF Nums
<1>7. Nums(t) = Nums(s) \ {Head(s).num}
  BY <1>2, <1>6
<1>8. Cardinality(Nums(t)) = Len(t)
  BY <1>1, <1>2, <1>7, FS_RemoveElement DEF Distinct
<1>9. \A i, j \in 1 .. Len(t) : t[i].num = t[j].num => i = j
  <2> TAKE i, j \in 1 .. Len(t)
  <2> HAVE t[i].num = t[j].num
  <2>1. i + 1 = j + 1
    BY <1>1, <1>3, <1>5
  <2> QED
    BY <2>1
<1> QED
  BY <1>2, <1>7, <1>8, <1>9 DEF Distinct, t

LEMMA SmallSets ==
  ASSUME NEW n \in Nat, NEW A, A \subseteq 1 .. n
  PROVE  IsFiniteSet(A) /\ Cardinality(A) \in Nat
<1>1. IsFiniteSet(1 .. n)
  BY FS_Interval
<1> QED
  BY <1>1, FS_Subset, FS_CardinalityType

-----------------------------------------------------------------------------
(* Types                                                                   *)

LEMMA Constants ==
  /\ QueueLen \in Nat \ {0} /\ PowerUp \in Nat /\ PowerDown \in Nat /\ Delay \in Nat
  /\ MaxFrames \in Nat /\ LastArrival \in Nat /\ MaxTime \in Nat
  /\ PowerUp <= PowerDown /\ PowerDown < MaxTime
  BY ProxyAssumption

LEMMA ModeFacts ==
  ASSUME mode \in Accepted
  PROVE  /\ mode.hdx \in BOOLEAN /\ mode.delay \in BOOLEAN /\ mode.capture \in BOOLEAN
         /\ mode.match_dport \in Int
  BY ProxyAssumption DEF Accepted

\* What the loop decides about a frame.
LEMMA DecisionFacts ==
  ASSUME Types, NEW d \in Decisions
  PROVE  d.header \in mode.frames
<1>1. CASE ~Matching
  BY <1>1 DEF Decisions, Types
<1>2. CASE Matching
  BY <1>2 DEF Decisions, Types
<1> QED
  BY <1>1, <1>2

\* What the environment and the steps that hold no frame leave alone.
LEMMA QuietMode ==
  ASSUME \/ Tick \/ proxy_on_sigint \/ TestStop \/ EnterPoll \/ PollSubscription
         \/ UNCHANGED vars
  PROVE  UNCHANGED mode /\ Msgs' = Msgs /\ Delayed' = Delayed
<1>1. UNCHANGED mode
  BY DEF Tick, proxy_on_sigint, TestStop, EnterPoll, PollSubscription, vars
<1> QED
  BY <1>1 DEF Msgs, Delayed

LEMMA QuietTypes ==
  ASSUME Types, \/ Tick \/ proxy_on_sigint \/ TestStop \/ EnterPoll \/ PollSubscription
                \/ UNCHANGED vars
  PROVE  Types'
<1> USE DEF Types, sockVars, countVars, hdxVars, workVars, InHands
<1>0. Msgs' = Msgs /\ Delayed' = Delayed
  BY QuietMode
<1>1. CASE Tick
  BY <1>0, <1>1, Constants DEF Tick
<1>2. CASE proxy_on_sigint
  BY <1>0, <1>2 DEF proxy_on_sigint, AfterSignal
<1>3. CASE TestStop
  BY <1>0, <1>3 DEF TestStop
<1>4. CASE EnterPoll
  BY <1>0, <1>4 DEF EnterPoll
<1>5. CASE PollSubscription
  BY <1>0, <1>5 DEF PollSubscription
<1>6. CASE UNCHANGED vars
  BY <1>0, <1>6 DEF vars
<1> QED
  BY <1>1, <1>2, <1>3, <1>4, <1>5, <1>6

LEMMA SocketTypes ==
  ASSUME Types, Publish \/ PollFrame \/ Capture
  PROVE  Types'
<1> USE DEF Types, sockVars, countVars, hdxVars, workVars, InHands
<1>1. CASE Publish
  <2>1. PICK f \in mode.frames : inbox' = Append(inbox, [num |-> arrived + 1, frame |-> f])
    BY <1>1 DEF Publish
  <2>2. arrived + 1 \in 0 .. MaxFrames /\ arrived + 1 \in Nat
    BY <1>1, Constants DEF Publish
  <2>3. [num |-> arrived + 1, frame |-> f] \in Msgs
    BY <2>2 DEF Msgs
  <2>4. inbox' \in Seq(Msgs)
    BY <2>1, <2>3, AppendFacts
  <2>5. Msgs' = Msgs /\ Delayed' = Delayed
    BY <1>1 DEF Publish, Msgs, Delayed
  <2> QED
    BY <1>1, <2>2, <2>4, <2>5 DEF Publish
<1>2. CASE PollFrame
  <2>1. inbox' \in Seq(Msgs) /\ cur' \in Msgs
    BY <1>2, TailFacts DEF PollFrame
  <2>2. packet' \in mode.frames
    <3>0. Head(inbox) \in Msgs
      BY <1>2, TailFacts DEF PollFrame
    <3>1. Head(inbox).frame \in mode.frames
      BY <3>0 DEF Msgs
    <3> QED
      BY <1>2, <3>1 DEF PollFrame, Parsed
  <2>3. Msgs' = Msgs /\ Delayed' = Delayed
    BY <1>2 DEF PollFrame, Msgs, Delayed
  <2> QED
    BY <1>2, <2>1, <2>2, <2>3 DEF PollFrame
<1>3. CASE Capture
  <2>1. capq' \in Seq(Msgs)
    BY <1>3, TailFacts, EmptyFacts DEF Capture
  <2>2. g_malformed_frames' \in Nat
    BY <1>3 DEF Capture
  <2>3. Msgs' = Msgs /\ Delayed' = Delayed
    BY <1>3 DEF Capture, Msgs, Delayed
  <2> QED
    BY <1>3, <2>1, <2>2, <2>3 DEF Capture
<1> QED
  BY <1>1, <1>2, <1>3

LEMMA EnqueueTypes ==
  ASSUME Types, NEW e \in Delayed, Enqueue(e)
  PROVE  /\ delayq' \in Seq(Delayed) /\ Len(delayq') <= QueueLen /\ wleft <= Len(delayq')
         /\ g_delay_drops' \in Nat
<1>1. CASE Len(delayq) < QueueLen
  <2>1. delayq' = Append(delayq, e) /\ g_delay_drops' = g_delay_drops
    BY <1>1 DEF Enqueue
  <2>2. delayq' \in Seq(Delayed) /\ Len(delayq') = Len(delayq) + 1 /\ Len(delayq) \in Nat
    BY <2>1, AppendFacts DEF Types
  <2> QED
    BY <1>1, <2>1, <2>2, Constants DEF Types
<1>2. CASE ~(Len(delayq) < QueueLen)
  BY <1>2 DEF Enqueue, Types
<1> QED
  BY <1>1, <1>2

LEMMA HandTypes ==
  ASSUME Types, RejectBig \/ HoldForPowerUp \/ QueueForPowerUp \/ HdxDeaf
  PROVE  Types'
<1> USE DEF Types, sockVars, countVars, hdxVars, workVars, InHands
<1>1. CASE RejectBig
  <2>1. Msgs' = Msgs /\ Delayed' = Delayed
    BY <1>1 DEF RejectBig, Msgs, Delayed
  <2> QED
    BY <1>1, <2>1 DEF RejectBig
<1>2. CASE HoldForPowerUp
  <2>1. Msgs' = Msgs /\ Delayed' = Delayed
    BY <1>2 DEF HoldForPowerUp, Msgs, Delayed
  <2> QED
    BY <1>2, <2>1 DEF HoldForPowerUp, PowerUpStart
<1>3. CASE QueueForPowerUp
  <2> DEFINE e == [num |-> cur.num, frame |-> cur.frame, due |-> hdx_powerup_start_ms + PowerUp,
                   hdx |-> TRUE, held |-> now]
  <2>1. e \in Delayed
    <3>1. cur.num \in Nat /\ cur.frame \in mode.frames
      BY <1>3 DEF QueueForPowerUp, Msgs
    <3>2. hdx_powerup_start_ms + PowerUp \in Nat /\ now \in Nat
      BY Constants
    <3> QED
      BY <3>1, <3>2 DEF Delayed
  <2>2. Enqueue(e)
    BY <1>3 DEF QueueForPowerUp
  <2> HIDE DEF e
  <2>3. /\ delayq' \in Seq(Delayed) /\ Len(delayq') <= QueueLen /\ wleft <= Len(delayq')
        /\ g_delay_drops' \in Nat
    BY <2>1, <2>2, EnqueueTypes
  <2>4. Msgs' = Msgs /\ Delayed' = Delayed
    BY <1>3 DEF QueueForPowerUp, Msgs, Delayed
  <2> QED
    BY <1>3, <2>3, <2>4 DEF QueueForPowerUp
<1>4. CASE HdxDeaf
  <2>1. cur.num \in Nat
    BY <1>4 DEF HdxDeaf, Msgs
  <2>2. Msgs' = Msgs /\ Delayed' = Delayed
    BY <1>4 DEF HdxDeaf, Msgs, Delayed
  <2> QED
    BY <1>4, <2>1, <2>2 DEF HdxDeaf
<1> QED
  BY <1>1, <1>2, <1>3, <1>4

\* A frame that gets as far as the decision: what Forward, Drop and DelayFrame share.
LEMMA JudgedFacts ==
  ASSUME Types, NEW d \in Decisions, Judged(d), pc = "got"
  PROVE  /\ drop_log' = IF d.logged THEN Append(drop_log, [num |-> cur.num, dropped |-> d.drop])
                        ELSE drop_log
         /\ drop_log' \in Seq([num : Nat, dropped : BOOLEAN])
         /\ packet' \in mode.frames /\ cur' = None
         /\ hdx_last_tx_ms' \in 0 .. MaxTime
         /\ UNCHANGED <<mode, subs, subscribed, arrived, inbox, now, g_stop, g_malformed_frames,
                        wpc, wleft, wmsg, deaf, refused, hdx_powerup_start_ms>>
<1>1. d.header \in mode.frames
  BY DecisionFacts
<1>2. /\ drop_log' = IF d.logged THEN Append(drop_log, [num |-> cur.num, dropped |-> d.drop])
                     ELSE drop_log
      /\ packet' = d.header /\ cur' = None
      /\ hdx_last_tx_ms' = IF FromHdx THEN now ELSE hdx_last_tx_ms
      /\ UNCHANGED <<mode, subs, subscribed, arrived, inbox, now, g_stop, g_malformed_frames,
                     wpc, wleft, wmsg, deaf, refused, hdx_powerup_start_ms>>
  BY DEF Judged, Log, NoteTransmission, sockVars, workVars
<1>3. drop_log' \in Seq([num : Nat, dropped : BOOLEAN])
  <2>1. d.logged => d.drop \in BOOLEAN
    <3>1. \A o \in Options : \A f \in o.frames : f.scoped \in BOOLEAN /\ f.doomed \in BOOLEAN
      BY ProxyAssumption
    <3>2. CASE ~Matching
      BY <3>2 DEF Decisions
    <3>3. CASE Matching
      <4>1. PICK g \in mode.frames : d = [header |-> g, logged |-> g.scoped,
                                         drop |-> g.scoped /\ g.doomed]
        BY <3>3 DEF Decisions, Types
      <4>2. g.scoped \in BOOLEAN /\ g.doomed \in BOOLEAN
        BY <3>1 DEF Types, Accepted
      <4> QED
        BY <4>1, <4>2
    <3> QED
      BY <3>2, <3>3
  <2>2. cur.num \in Nat
    BY DEF Types, InHands, Msgs
  <2>3. d.logged => [num |-> cur.num, dropped |-> d.drop] \in [num : Nat, dropped : BOOLEAN]
    BY <2>1, <2>2
  <2> HIDE DEF Decisions
  <2>4. drop_log \in Seq([num : Nat, dropped : BOOLEAN])
    BY DEF Types
  <2> QED
    BY <1>2, <2>3, <2>4, AppendFacts
<1> QED
  BY <1>1, <1>2, <1>3 DEF Types

LEMMA JudgedTypes ==
  ASSUME Types, Forward \/ Drop \/ DelayFrame
  PROVE  Types'
<1> USE DEF Types, InHands
<1>1. pc = "got" /\ cur \in Msgs
  BY DEF Forward, Drop, DelayFrame
<1>2. PICK d \in Decisions : Judged(d)
  BY DEF Forward, Drop, DelayFrame
<1>3. /\ drop_log' \in Seq([num : Nat, dropped : BOOLEAN])
      /\ packet' \in mode.frames /\ cur' = None
      /\ hdx_last_tx_ms' \in 0 .. MaxTime
      /\ UNCHANGED <<mode, subs, subscribed, arrived, inbox, now, g_stop, g_malformed_frames,
                     wpc, wleft, wmsg, deaf, refused, hdx_powerup_start_ms>>
  BY <1>1, <1>2, JudgedFacts
<1>4. Msgs' = Msgs /\ Delayed' = Delayed
  BY <1>3 DEF Msgs, Delayed
<1>5. CASE Forward
  <2>1. wire' \in Seq(Msgs) /\ capq' \in Seq(Msgs)
    BY <1>1, <1>5, AppendFacts DEF Forward, Send
  <2>2. g_kept' \in Nat /\ UNCHANGED <<g_drops, g_delay_drops, delayq>> /\ pc' = "side"
    BY <1>5 DEF Forward
  <2> QED
    BY <1>3, <1>4, <2>1, <2>2
<1>6. CASE Drop
  <2>1. /\ g_drops' \in Nat /\ UNCHANGED <<wire, capq, g_kept, g_delay_drops, delayq>>
        /\ pc' = "side"
    BY <1>6 DEF Drop
  <2> QED
    BY <1>3, <1>4, <2>1
<1>7. CASE DelayFrame
  <2> DEFINE e == [num |-> cur.num, frame |-> cur.frame, due |-> now + Delay, hdx |-> FALSE,
                   held |-> now]
  <2>1. e \in Delayed
    <3>1. cur.num \in Nat /\ cur.frame \in mode.frames /\ now + Delay \in Nat /\ now \in Nat
      BY <1>1, Constants DEF Msgs
    <3> QED
      BY <3>1 DEF Delayed
  <2>2. Enqueue(e) /\ UNCHANGED <<wire, capq, g_kept, g_drops>> /\ pc' = "test"
    BY <1>7 DEF DelayFrame
  <2> HIDE DEF e
  <2>3. /\ delayq' \in Seq(Delayed) /\ Len(delayq') <= QueueLen /\ wleft <= Len(delayq')
        /\ g_delay_drops' \in Nat
    BY <2>1, <2>2, EnqueueTypes
  <2> QED
    BY <1>3, <1>4, <2>2, <2>3
<1> QED
  BY <1>5, <1>6, <1>7

LEMMA WorkerTypes ==
  ASSUME Types, task_delay_send
  PROVE  Types'
<1> USE DEF Types, mainVars, sockVars, countVars, hdxVars, InHands
<1>1. CASE CountDelayed
  <2>1. Len(delayq) \in 0 .. QueueLen
    BY Constants
  <2>2. Msgs' = Msgs /\ Delayed' = Delayed
    BY <1>1 DEF CountDelayed, Msgs, Delayed
  <2> QED
    BY <1>1, <2>1, <2>2 DEF CountDelayed
<1>2. CASE TakeDelayed
  <2>1. delayq # <<>> /\ delayq \in Seq(Delayed)
    BY <1>2, EmptyFacts DEF TakeDelayed
  <2>2. delayq' \in Seq(Delayed) /\ wmsg' \in Delayed /\ Len(delayq') = Len(delayq) - 1
        /\ Len(delayq) \in Nat
    BY <1>2, <2>1, TailFacts DEF TakeDelayed
  <2>3. Msgs' = Msgs /\ Delayed' = Delayed
    BY <1>2 DEF TakeDelayed, Msgs, Delayed
  <2>4. wleft' \in 0 .. QueueLen /\ wleft' <= Len(delayq') /\ Len(delayq') <= QueueLen
    BY <1>2, <2>2, Constants DEF TakeDelayed
  <2> QED
    BY <1>2, <2>2, <2>3, <2>4 DEF TakeDelayed
<1>3. CASE SendDelayed
  <2>1. wmsg \in Delayed
    BY <1>3 DEF SendDelayed
  <2>2. [num |-> wmsg.num, frame |-> wmsg.frame] \in Msgs
    BY <2>1 DEF Delayed, Msgs
  <2>3. wire' \in Seq(Msgs) /\ capq' \in Seq(Msgs)
    BY <1>3, <2>2, AppendFacts DEF SendDelayed, Send
  <2>4. Msgs' = Msgs /\ Delayed' = Delayed
    BY <1>3 DEF SendDelayed, Msgs, Delayed
  <2> QED
    BY <1>3, <2>3, <2>4 DEF SendDelayed
<1>4. CASE MarkTransmission
  <2>1. Msgs' = Msgs /\ Delayed' = Delayed
    BY <1>4 DEF MarkTransmission, Msgs, Delayed
  <2> QED
    BY <1>4, <2>1, Constants DEF MarkTransmission
<1>5. CASE PutBackDelayed
  <2>1. wmsg \in Delayed /\ wmsg.num \in Nat
    BY <1>5 DEF PutBackDelayed, Delayed
  <2>2. /\ delayq' \in Seq(Delayed) /\ Len(delayq') <= QueueLen /\ wleft <= Len(delayq')
        /\ refused' \in SUBSET Nat
    <3>1. CASE Len(delayq) < QueueLen
      <4>1. delayq' = Append(delayq, wmsg) /\ delayq \in Seq(Delayed) /\ refused' = refused
        BY <1>5, <3>1 DEF PutBackDelayed
      <4>2. delayq' \in Seq(Delayed) /\ Len(delayq') = Len(delayq) + 1 /\ Len(delayq) \in Nat
        BY <2>1, <4>1, AppendFacts
      <4> QED
        BY <3>1, <4>1, <4>2, Constants
    <3>2. CASE ~(Len(delayq) < QueueLen)
      BY <1>5, <2>1, <3>2 DEF PutBackDelayed
    <3> QED
      BY <3>1, <3>2
  <2>3. Msgs' = Msgs /\ Delayed' = Delayed
    BY <1>5 DEF PutBackDelayed, Msgs, Delayed
  <2> QED
    BY <1>5, <2>2, <2>3 DEF PutBackDelayed
<1> QED
  BY <1>1, <1>2, <1>3, <1>4, <1>5 DEF task_delay_send

-----------------------------------------------------------------------------
(* What the steps do to the frames                                         *)

\* The steps that move no frame.
Still == \/ Tick \/ proxy_on_sigint \/ TestStop \/ EnterPoll \/ PollSubscription
         \/ HoldForPowerUp \/ CountDelayed \/ MarkTransmission \/ UNCHANGED vars

\* The steps by which the loop is done with the frame it holds.
Finish == RejectBig \/ HdxDeaf \/ Drop \/ Forward \/ DelayFrame \/ QueueForPowerUp

LEMMA NextCases ==
  ASSUME [Next]_vars
  PROVE  \/ Still \/ Publish \/ PollFrame \/ Capture \/ Finish
         \/ TakeDelayed \/ SendDelayed \/ PutBackDelayed
  BY DEF Next, Main, task_delay_send, Still, Finish

LEMMA StillFacts ==
  ASSUME Still
  PROVE  /\ UNCHANGED <<mode, arrived, inbox, wire, capq, cur, drop_log, delayq, wmsg, deaf,
                        refused, g_drops, g_delay_drops, g_malformed_frames>>
         /\ InHands' = InHands /\ (wpc' = "look") = (wpc = "look")
         /\ wpc = "none" => wpc' = "none"
<1> USE DEF mainVars, sockVars, countVars, hdxVars, workVars, InHands
<1>1. CASE Tick \/ proxy_on_sigint
  BY <1>1 DEF Tick, proxy_on_sigint, AfterSignal
<1>2. CASE TestStop \/ EnterPoll \/ PollSubscription
  BY <1>2 DEF TestStop, EnterPoll, PollSubscription
<1>3. CASE HoldForPowerUp
  BY <1>3 DEF HoldForPowerUp
<1>4. CASE CountDelayed \/ MarkTransmission
  BY <1>4 DEF CountDelayed, MarkTransmission
<1>5. CASE UNCHANGED vars
  BY <1>5 DEF vars
<1> QED
  BY <1>1, <1>2, <1>3, <1>4, <1>5 DEF Still

LEMMA FinishFacts ==
  ASSUME Types, Finish
  PROVE  /\ InHands /\ ~InHands' /\ cur \in Msgs /\ cur' = None
         /\ UNCHANGED <<mode, arrived, inbox, wpc, wmsg, refused, now>>
<1> USE DEF sockVars, countVars, hdxVars, workVars, InHands
<1>1. CASE RejectBig \/ HdxDeaf \/ QueueForPowerUp
  BY <1>1 DEF RejectBig, HdxDeaf, QueueForPowerUp, Types
<1>2. CASE Drop \/ Forward \/ DelayFrame
  <2>1. pc = "got" /\ pc' \in {"side", "test"}
    BY <1>2 DEF Drop, Forward, DelayFrame
  <2>2. PICK d \in Decisions : Judged(d)
    BY <1>2 DEF Drop, Forward, DelayFrame
  <2> QED
    BY <2>1, <2>2, JudgedFacts DEF Types
<1> QED
  BY <1>1, <1>2 DEF Finish

LogGrows(b) ==
  \/ drop_log' = drop_log
  \/ drop_log' = Append(drop_log, [num |-> cur.num, dropped |-> b])

LEMMA JudgedLog ==
  ASSUME Types, NEW d \in Decisions, Judged(d), pc = "got"
  PROVE  /\ d.drop => LogGrows(TRUE)
         /\ ~d.drop => LogGrows(FALSE)
<1>1. /\ drop_log' = IF d.logged THEN Append(drop_log, [num |-> cur.num, dropped |-> d.drop])
                     ELSE drop_log
      /\ drop_log' \in Seq([num : Nat, dropped : BOOLEAN])
  BY JudgedFacts
<1>2. drop_log \in Seq([num : Nat, dropped : BOOLEAN])
  BY DEF Types
<1>3. CASE ~d.logged
  BY <1>1, <1>3 DEF LogGrows
<1>4. CASE d.logged
  <2>1. Matching
    BY <1>4 DEF Decisions
  <2>2. PICK g \in mode.frames : d = [header |-> g, logged |-> g.scoped,
                                     drop |-> g.scoped /\ g.doomed]
    BY <2>1 DEF Decisions, Types
  <2>3. d.drop \in BOOLEAN
    BY <2>2
  <2> QED
    BY <1>1, <1>4, <2>3 DEF LogGrows
<1> QED
  BY <1>3, <1>4

LEMMA ForwardFacts ==
  ASSUME Types, Forward
  PROVE  /\ wire' = Append(wire, cur)
         /\ capq' = capq \/ capq' = Append(capq, cur)
         /\ LogGrows(FALSE) /\ Fits
         /\ UNCHANGED <<delayq, deaf, g_drops, g_delay_drops, g_malformed_frames>>
<1>1. PICK d \in Decisions : Judged(d) /\ ~d.drop
  BY DEF Forward
<1>2. LogGrows(FALSE)
  BY <1>1, JudgedLog DEF Forward
<1>3. Fits /\ UNCHANGED <<deaf, g_malformed_frames>>
  BY <1>1 DEF Judged
<1> QED
  BY <1>2, <1>3 DEF Forward, Send

LEMMA DropFacts ==
  ASSUME Types, Drop
  PROVE  /\ LogGrows(TRUE) /\ g_drops' = g_drops + 1
         /\ UNCHANGED <<wire, capq, delayq, deaf, g_delay_drops, g_malformed_frames>>
<1>1. PICK d \in Decisions : Judged(d) /\ d.drop
  BY DEF Drop
<1>2. LogGrows(TRUE)
  BY <1>1, JudgedLog DEF Drop
<1>3. UNCHANGED <<deaf, g_malformed_frames>>
  BY <1>1 DEF Judged
<1> QED
  BY <1>2, <1>3 DEF Drop

Queued(e) ==
  \/ delayq' = Append(delayq, e) /\ UNCHANGED g_delay_drops
  \/ delayq' = delayq /\ g_delay_drops' = g_delay_drops + 1

DelayEntry == [num |-> cur.num, frame |-> cur.frame, due |-> now + Delay, hdx |-> FALSE,
               held |-> now]

HeldEntry == [num |-> cur.num, frame |-> cur.frame, due |-> hdx_powerup_start_ms + PowerUp,
              hdx |-> TRUE, held |-> now]

LEMMA DelayFacts ==
  ASSUME Types, DelayFrame
  PROVE  /\ DelayEntry \in Delayed /\ Queued(DelayEntry)
         /\ DelayEntry.num = cur.num /\ DelayEntry.frame = cur.frame
         /\ DelayEntry.hdx = FALSE
         /\ mode.delay /\ LogGrows(FALSE) /\ Fits
         /\ UNCHANGED <<wire, capq, deaf, g_drops, g_malformed_frames>>
<1>1. pc = "got" /\ cur \in Msgs /\ now \in Nat
  BY DEF DelayFrame, Types, InHands
<1>2. cur.num \in Nat /\ cur.frame \in mode.frames /\ now + Delay \in Nat
  BY <1>1, Constants DEF Msgs
<1>3. DelayEntry \in Delayed
  BY <1>1, <1>2 DEF Delayed, DelayEntry
<1>4. Enqueue(DelayEntry) /\ mode.delay /\ UNCHANGED <<wire, capq, g_drops>>
  BY DEF DelayFrame, DelayEntry
<1>5. PICK d \in Decisions : Judged(d) /\ ~d.drop
  BY DEF DelayFrame
<1>6. LogGrows(FALSE) /\ Fits /\ UNCHANGED <<deaf, g_malformed_frames>>
  BY <1>1, <1>5, JudgedLog DEF Judged
<1>7. Queued(DelayEntry)
  BY <1>4 DEF Enqueue, Queued
<1>8. /\ DelayEntry.num = cur.num /\ DelayEntry.frame = cur.frame
      /\ DelayEntry.hdx = FALSE
  BY DEF DelayEntry
<1> QED
  BY <1>3, <1>4, <1>6, <1>7, <1>8

LEMMA HeldFacts ==
  ASSUME Types, QueueForPowerUp
  PROVE  /\ HeldEntry \in Delayed /\ Queued(HeldEntry)
         /\ HeldEntry.num = cur.num /\ HeldEntry.frame = cur.frame /\ HeldEntry.held = now
         /\ HeldEntry.hdx = TRUE /\ HeldEntry.due = hdx_powerup_start_ms + PowerUp
         /\ pc = "hold"
         /\ UNCHANGED <<drop_log, wire, capq, deaf, g_drops, g_malformed_frames, hdxVars, wpc,
                        wmsg>>
<1>1. pc = "hold" /\ cur \in Msgs /\ now \in Nat /\ hdx_powerup_start_ms \in Nat
  BY Constants DEF QueueForPowerUp, Types, InHands
<1>2. cur.num \in Nat /\ cur.frame \in mode.frames /\ hdx_powerup_start_ms + PowerUp \in Nat
  BY <1>1, Constants DEF Msgs
<1>3. HeldEntry \in Delayed
  BY <1>1, <1>2 DEF Delayed, HeldEntry
<1>4. /\ Enqueue(HeldEntry)
      /\ UNCHANGED <<drop_log, wire, capq, deaf, g_drops, g_malformed_frames, hdxVars, wpc, wmsg>>
  BY DEF QueueForPowerUp, HeldEntry, workVars
<1>5. Queued(HeldEntry)
  BY <1>4 DEF Enqueue, Queued
<1>6. /\ HeldEntry.num = cur.num /\ HeldEntry.frame = cur.frame /\ HeldEntry.held = now
      /\ HeldEntry.hdx = TRUE /\ HeldEntry.due = hdx_powerup_start_ms + PowerUp
  BY DEF HeldEntry
<1> QED
  BY <1>1, <1>3, <1>4, <1>5, <1>6

\* What the two have in common.
LEMMA EntryFacts ==
  ASSUME Types, DelayFrame \/ QueueForPowerUp
  PROVE  \E e \in Delayed :
           /\ e.num = cur.num /\ e.frame = cur.frame
           /\ Queued(e) /\ LogGrows(FALSE)
           /\ UNCHANGED <<wire, capq, deaf, g_drops, g_malformed_frames>>
<1>1. CASE DelayFrame
  BY <1>1, DelayFacts
<1>2. CASE QueueForPowerUp
  BY <1>2, HeldFacts DEF LogGrows
<1> QED
  BY <1>1, <1>2

LEMMA TakeFacts ==
  ASSUME Types, TakeDelayed
  PROVE  /\ delayq # <<>> /\ delayq' = Tail(delayq) /\ wmsg' = Head(delayq) /\ wmsg' \in Delayed
         /\ wpc = "take" /\ wpc' = "look" /\ wmsg = None /\ InHands' = InHands
         /\ UNCHANGED <<mode, arrived, inbox, wire, capq, cur, pc, now, drop_log, deaf, refused,
                        g_drops, g_delay_drops, g_malformed_frames, hdxVars>>
<1>1. delayq # <<>> /\ delayq \in Seq(Delayed)
  BY EmptyFacts DEF TakeDelayed, Types
<1>2. wmsg' = Head(delayq) /\ wmsg' \in Delayed
  BY <1>1, TailFacts DEF TakeDelayed
<1> QED
  BY <1>1, <1>2 DEF TakeDelayed, Types, mainVars, sockVars, countVars, InHands

LEMMA SendFacts ==
  ASSUME Types, SendDelayed
  PROVE  LET m == [num |-> wmsg.num, frame |-> wmsg.frame] IN
         /\ wmsg \in Delayed /\ m \in Msgs
         /\ wire' = Append(wire, m)
         /\ capq' = capq \/ capq' = Append(capq, m)
         /\ wpc = "look" /\ wpc' \in {"mark", "count"} /\ wmsg' = None
         /\ InHands' = InHands
         /\ UNCHANGED <<mode, arrived, inbox, delayq, cur, pc, now, drop_log, deaf, refused,
                        g_drops, g_delay_drops, g_malformed_frames, hdxVars>>
<1>1. wmsg \in Delayed
  BY DEF SendDelayed, Types
<1>2. [num |-> wmsg.num, frame |-> wmsg.frame] \in Msgs
  BY <1>1 DEF Delayed, Msgs
<1> QED
  BY <1>1, <1>2 DEF SendDelayed, Send, mainVars, sockVars, countVars, InHands

LEMMA PutBackFacts ==
  ASSUME Types, PutBackDelayed
  PROVE  /\ wmsg \in Delayed /\ wpc = "look" /\ wpc' = "take" /\ wmsg' = None
         /\ InHands' = InHands
         /\ \/ delayq' = Append(delayq, wmsg) /\ refused' = refused
            \/ delayq' = delayq /\ refused' = refused \cup {wmsg.num}
         /\ UNCHANGED <<mode, arrived, inbox, wire, capq, cur, pc, now, drop_log, deaf,
                        g_drops, g_delay_drops, g_malformed_frames, hdxVars>>
<1>1. wmsg \in Delayed
  BY DEF PutBackDelayed, Types
<1> QED
  BY <1>1 DEF PutBackDelayed, mainVars, sockVars, countVars, InHands

LEMMA TypesStep ==
  ASSUME Types, [Next]_vars
  PROVE  Types'
<1>1. \/ Tick \/ proxy_on_sigint \/ TestStop \/ EnterPoll \/ PollSubscription \/ UNCHANGED vars
      \/ Publish \/ PollFrame \/ Capture
      \/ RejectBig \/ HoldForPowerUp \/ QueueForPowerUp \/ HdxDeaf
      \/ Forward \/ Drop \/ DelayFrame
      \/ task_delay_send
  BY DEF Next, Main
<1> QED
  BY <1>1, QuietTypes, SocketTypes, HandTypes, JudgedTypes, WorkerTypes

-----------------------------------------------------------------------------
(* The numbers of the frames                                               *)

\* The frame the loop was done with is the only one it can have moved.
LEMMA FinishNums ==
  ASSUME Types, Finish
  PROVE  /\ Nums(wire') \subseteq Nums(wire) \cup {cur.num}
         /\ Nums(delayq') \subseteq Nums(delayq) \cup {cur.num}
         /\ Nums(drop_log') \subseteq Nums(drop_log) \cup {cur.num}
         /\ deaf' \subseteq deaf \cup {cur.num}
         /\ Nums(capq) \subseteq Nums(wire) => Nums(capq') \subseteq Nums(wire')
<1> USE DEF sockVars, countVars, hdxVars, workVars
<1>1. cur \in Msgs /\ wire \in Seq(Msgs) /\ capq \in Seq(Msgs) /\ delayq \in Seq(Delayed)
  BY FinishFacts DEF Types
<1>2. LogGrows(TRUE) \/ LogGrows(FALSE) => Nums(drop_log') \subseteq Nums(drop_log) \cup {cur.num}
  <2> DEFINE S == [num : Nat, dropped : BOOLEAN]
  <2>1. drop_log \in Seq(S) /\ cur.num \in Nat
    BY <1>1 DEF Types, Msgs
  <2>2. \A b \in BOOLEAN : [num |-> cur.num, dropped |-> b] \in S
    BY <2>1
  <2> HIDE DEF S
  <2>3. \A b \in BOOLEAN : Nums(Append(drop_log, [num |-> cur.num, dropped |-> b]))
                             = Nums(drop_log) \cup {[num |-> cur.num, dropped |-> b].num}
    BY <2>1, <2>2, NumsAppend
  <2> QED
    BY <2>3 DEF LogGrows
<1>3. CASE RejectBig \/ HdxDeaf
  BY <1>3 DEF RejectBig, HdxDeaf
<1>4. CASE Drop
  BY <1>2, <1>4, DropFacts
<1>5. CASE Forward
  <2>1. wire' = Append(wire, cur)
    BY <1>5, ForwardFacts
  <2>5. capq' = capq \/ capq' = Append(capq, cur)
    BY <1>5, ForwardFacts
  <2>2. LogGrows(FALSE) /\ UNCHANGED <<delayq, deaf>>
    BY <1>5, ForwardFacts
  <2>3. Nums(Append(wire, cur)) = Nums(wire) \cup {cur.num}
    BY <1>1, NumsAppend
  <2>4. Nums(Append(capq, cur)) = Nums(capq) \cup {cur.num}
    BY <1>1, NumsAppend
  <2>6. Nums(wire') = Nums(wire) \cup {cur.num}
    BY <2>1, <2>3
  <2>7. Nums(capq') \subseteq Nums(capq) \cup {cur.num}
    BY <2>4, <2>5
  <2>8. Nums(delayq') = Nums(delayq) /\ deaf' = deaf
    BY <2>2
  <2>9. Nums(drop_log') \subseteq Nums(drop_log) \cup {cur.num}
    BY <1>2, <2>2
  <2> QED
    BY <2>6, <2>7, <2>8, <2>9
<1>6. CASE DelayFrame \/ QueueForPowerUp
  <2>1. PICK e \in Delayed :
           /\ e.num = cur.num /\ e.frame = cur.frame
           /\ Queued(e) /\ LogGrows(FALSE)
           /\ UNCHANGED <<wire, capq, deaf, g_drops, g_malformed_frames>>
    BY <1>6, EntryFacts
  <2>2. Nums(Append(delayq, e)) = Nums(delayq) \cup {e.num}
    BY <1>1, NumsAppend
  <2>3. Nums(delayq') \subseteq Nums(delayq) \cup {cur.num}
    BY <2>1, <2>2 DEF Queued
  <2> QED
    BY <1>2, <2>1, <2>3
<1> QED
  BY <1>3, <1>4, <1>5, <1>6 DEF Finish

LEMMA NumbersStep ==
  ASSUME Types, Numbers, [Next]_vars
  PROVE  Numbers'
<1>0. arrived \in Nat /\ Len(inbox) \in Nat /\ inbox \in Seq(Msgs) /\ Taken \in Int
  BY DEF Types, Taken
<1> DEFINE all == Nums(wire) \cup Nums(delayq) \cup Nums(drop_log) \cup deaf \cup refused
<1>1. CASE Still
  BY <1>1, StillFacts DEF Numbers, Taken, Done
<1>2. CASE Publish
  <2>1. PICK f \in mode.frames : inbox' = Append(inbox, [num |-> arrived + 1, frame |-> f])
    BY <1>2 DEF Publish
  <2>2. /\ arrived' = arrived + 1
        /\ UNCHANGED <<wire, capq, pc, cur, drop_log, delayq, deaf, refused, wpc, wmsg>>
    BY <1>2 DEF Publish, workVars
  <2>3. [num |-> arrived + 1, frame |-> f] \in Msgs
    BY <1>0 DEF Msgs
  <2>4. /\ Len(inbox') = Len(inbox) + 1 /\ inbox'[Len(inbox) + 1].num = arrived + 1
        /\ \A i \in 1 .. Len(inbox) : inbox'[i] = inbox[i]
        /\ \A i \in 1 .. Len(inbox') : i \in 1 .. Len(inbox) \/ i = Len(inbox) + 1
    BY <1>0, <2>1, <2>3, AppendFacts
  <2>5. Taken' = Taken /\ Taken + (Len(inbox) + 1) = arrived + 1
    BY <1>0, <2>2, <2>4 DEF Taken
  <2>6. Done' = Done
    BY <2>2, <2>5 DEF Done, InHands
  <2>7. \A i \in 1 .. Len(inbox) : inbox'[i].num = Taken' + i
    BY <2>4, <2>5 DEF Numbers
  <2>8. \A i \in 1 .. Len(inbox') : inbox'[i].num = Taken' + i
    BY <2>4, <2>5, <2>7
  <2> QED
    BY <2>2, <2>5, <2>6, <2>8 DEF Numbers, InHands
<1>3. CASE PollFrame
  <2>1. /\ inbox # <<>> /\ inbox' = Tail(inbox) /\ cur' = Head(inbox) /\ ~InHands /\ InHands'
        /\ UNCHANGED <<arrived, wire, capq, drop_log, delayq, deaf, refused, wpc, wmsg>>
    BY <1>3 DEF PollFrame, workVars, InHands
  <2>2. /\ Len(inbox') = Len(inbox) - 1 /\ Len(inbox) >= 1 /\ cur' = inbox[1]
        /\ \A i \in 1 .. Len(inbox') : i + 1 \in 2 .. Len(inbox) /\ inbox'[i] = inbox[i + 1]
    BY <1>0, <2>1, TailFacts
  <2>3. Taken' = Taken + 1
    BY <1>0, <2>1, <2>2 DEF Taken
  <2>4. Done' = Done
    BY <1>0, <2>1, <2>3 DEF Done
  <2>5. cur'.num = Taken'
    BY <1>0, <2>2, <2>3 DEF Numbers
  <2>6. \A i \in 1 .. Len(inbox') : inbox'[i].num = Taken' + i
    <3> TAKE i \in 1 .. Len(inbox')
    <3>1. i + 1 \in 1 .. Len(inbox) /\ inbox'[i] = inbox[i + 1] /\ i \in Int
      BY <1>0, <2>2
    <3>2. inbox[i + 1].num = Taken + (i + 1)
      BY <3>1 DEF Numbers
    <3> QED
      BY <1>0, <2>3, <3>1, <3>2
  <2> QED
    BY <2>1, <2>4, <2>5, <2>6 DEF Numbers
<1>4. CASE Capture
  <2>1. /\ capq # <<>> /\ capq \in Seq(Msgs)
        /\ capq' = <<>> \/ capq' = Tail(capq)
        /\ UNCHANGED <<arrived, inbox, wire, pc, cur, drop_log, delayq, deaf, refused, wpc, wmsg>>
    BY <1>4 DEF Capture, workVars, sockVars, Types
  <2>2. Nums(Tail(capq)) \subseteq Nums(capq)
    BY <2>1, NumsTail
  <2>3. Nums(capq') \subseteq Nums(capq)
    BY <2>1, <2>2, NumsEmpty
  <2> QED
    BY <2>1, <2>3 DEF Numbers, Taken, Done, InHands
<1>5. CASE Finish
  <2>1. InHands /\ ~InHands' /\ UNCHANGED <<arrived, inbox, wpc, wmsg, refused>>
    BY <1>5, FinishFacts
  <2>2. Taken' = Taken /\ Done = Taken - 1 /\ Done' = Taken /\ cur.num = Taken
    BY <2>1 DEF Taken, Done, Numbers
  <2>3. Done \in Nat /\ Done' = Done + 1 /\ Done' \in Nat
    BY <1>0, <2>2 DEF Numbers
  <2>4. 1 .. Done \subseteq 1 .. Done' /\ Taken \in 1 .. Done'
    BY <1>0, <2>2, <2>3
  <2>5. all' \subseteq all \cup {cur.num}
    BY <1>5, <2>1, FinishNums
  <2>6. all' \subseteq 1 .. Done'
    BY <2>2, <2>4, <2>5 DEF Numbers
  <2>7. Nums(capq') \subseteq Nums(wire')
    BY <1>5, FinishNums DEF Numbers
  <2>8. wpc' = "look" => wmsg'.num \in 1 .. Done'
    BY <2>1, <2>4 DEF Numbers
  <2>9. \A i \in 1 .. Len(inbox') : inbox'[i].num = Taken' + i
    BY <2>1, <2>2 DEF Numbers
  <2> QED
    BY <2>1, <2>3, <2>6, <2>7, <2>8, <2>9 DEF Numbers
<1>6. CASE TakeDelayed \/ SendDelayed \/ PutBackDelayed
  <2>1. UNCHANGED <<arrived, inbox, cur, pc, drop_log, deaf>> /\ InHands' = InHands
    BY <1>6, TakeFacts, SendFacts, PutBackFacts
  <2>2. Taken' = Taken /\ Done' = Done
    BY <2>1 DEF Taken, Done
  <2>3. wire \in Seq(Msgs) /\ capq \in Seq(Msgs) /\ delayq \in Seq(Delayed)
    BY DEF Types
  <2>4. CASE TakeDelayed
    <3>1. /\ delayq # <<>> /\ delayq' = Tail(delayq) /\ wmsg' = Head(delayq)
          /\ UNCHANGED <<wire, capq, refused>>
      BY <2>4, TakeFacts
    <3>2. Nums(delayq) = Nums(delayq') \cup {wmsg'.num}
      BY <2>3, <3>1, NumsTail
    <3> QED
      BY <2>1, <2>2, <3>1, <3>2 DEF Numbers
  <2>5. CASE SendDelayed
    <3> DEFINE m == [num |-> wmsg.num, frame |-> wmsg.frame]
    <3>1. /\ m \in Msgs /\ wire' = Append(wire, m)
          /\ capq' = capq \/ capq' = Append(capq, m)
          /\ wpc = "look" /\ wpc' # "look" /\ UNCHANGED <<delayq, refused>>
      BY <2>5, SendFacts
    <3>2. m.num = wmsg.num
      OBVIOUS
    <3> HIDE DEF m
    <3>3. Nums(Append(wire, m)) = Nums(wire) \cup {m.num}
      BY <2>3, <3>1, NumsAppend
    <3>4. Nums(Append(capq, m)) = Nums(capq) \cup {m.num}
      BY <2>3, <3>1, NumsAppend
    <3>5. Nums(wire') = Nums(wire) \cup {wmsg.num}
      BY <3>1, <3>2, <3>3
    <3>6. Nums(capq') \subseteq Nums(capq) \cup {wmsg.num}
      BY <3>1, <3>2, <3>4
    <3> QED
      BY <2>1, <2>2, <3>1, <3>5, <3>6 DEF Numbers
  <2>6. CASE PutBackDelayed
    <3>1. /\ wmsg \in Delayed /\ wpc = "look" /\ wpc' # "look" /\ UNCHANGED <<wire, capq>>
          /\ \/ delayq' = Append(delayq, wmsg) /\ refused' = refused
             \/ delayq' = delayq /\ refused' = refused \cup {wmsg.num}
      BY <2>6, PutBackFacts
    <3>2. Nums(Append(delayq, wmsg)) = Nums(delayq) \cup {wmsg.num}
      BY <2>3, <3>1, NumsAppend
    <3>3. all' \subseteq all \cup {wmsg.num}
      BY <2>1, <3>1, <3>2
    <3>4. all' \subseteq 1 .. Done
      BY <3>1, <3>3 DEF Numbers
    <3> QED
      BY <2>1, <2>2, <3>1, <3>4 DEF Numbers
  <2> QED
    BY <1>6, <2>4, <2>5, <2>6
<1> QED
  BY <1>1, <1>2, <1>3, <1>4, <1>5, <1>6, NextCases

-----------------------------------------------------------------------------
(* Every frame is in one place                                             *)

LEMMA FrameSets ==
  ASSUME Types, Numbers
  PROVE  /\ IsFiniteSet(Nums(wire)) /\ IsFiniteSet(Nums(delayq)) /\ IsFiniteSet(Nums(drop_log))
         /\ IsFiniteSet(deaf) /\ IsFiniteSet(refused) /\ IsFiniteSet(InHand)
         /\ Cardinality(deaf) \in Nat /\ Cardinality(refused) \in Nat
         /\ Cardinality(InHand) \in Nat
<1>1. Done \in Nat
  BY DEF Numbers
<1>2. /\ Nums(wire) \subseteq 1 .. Done /\ Nums(delayq) \subseteq 1 .. Done
      /\ Nums(drop_log) \subseteq 1 .. Done
      /\ deaf \subseteq 1 .. Done /\ refused \subseteq 1 .. Done
  BY DEF Numbers
<1>3. /\ IsFiniteSet(Nums(wire)) /\ IsFiniteSet(Nums(delayq)) /\ IsFiniteSet(Nums(drop_log))
      /\ IsFiniteSet(deaf) /\ IsFiniteSet(refused)
      /\ Cardinality(deaf) \in Nat /\ Cardinality(refused) \in Nat
  BY <1>1, <1>2, SmallSets
<1>4. IsFiniteSet({cur.num, wmsg.num} \ {0})
  <2>1. IsFiniteSet({cur.num, wmsg.num})
    <3>1. IsFiniteSet({cur.num})
      BY FS_Singleton
    <3>2. IsFiniteSet({cur.num} \cup {wmsg.num})
      BY <3>1, FS_AddElement
    <3>3. {cur.num} \cup {wmsg.num} = {cur.num, wmsg.num}
      OBVIOUS
    <3> QED
      BY <3>2, <3>3
  <2> QED
    BY <2>1, FS_RemoveElement
<1>5. IsFiniteSet(InHand)
  BY <1>3, <1>4, FS_Union DEF InHand
<1> QED
  BY <1>3, <1>5, FS_CardinalityType

\* The frame in the loop's hand is newer than all that it was done with.
LEMMA NewestInHand ==
  ASSUME Types, Numbers, InHands
  PROVE  /\ cur.num \in Nat \ {0}
         /\ cur.num \notin Nums(wire) \cup Nums(delayq) \cup Nums(drop_log) \cup deaf \cup refused
         /\ wpc = "look" => wmsg.num # cur.num
         /\ cur.num # wmsg.num
         /\ Done < cur.num
<1>1. Done \in Nat /\ cur.num = Done + 1
  <2>1. arrived \in Nat /\ Len(inbox) \in Nat
    BY DEF Types
  <2>2. Taken \in Int /\ Done = Taken - 1 /\ cur.num = Taken /\ Done \in Nat
    BY <2>1 DEF Numbers, Done, Taken
  <2> QED
    BY <2>2
<1>2. cur.num \notin 1 .. Done /\ cur.num # 0
  BY <1>1
<1>3. wpc = "look" => wmsg.num # cur.num
  BY <1>2 DEF Numbers
<1>4. wpc # "look" => wmsg.num = 0
  BY DEF Types, None
<1> QED
  BY <1>1, <1>2, <1>3, <1>4 DEF Numbers

LEMMA PlacesStep ==
  ASSUME Types, Numbers, Places, [Next]_vars
  PROVE  Places'
<1>0. /\ wire \in Seq(Msgs) /\ delayq \in Seq(Delayed)
      /\ IsFiniteSet(Nums(wire)) /\ IsFiniteSet(Nums(delayq))
  BY FrameSets DEF Types
<1>1. CASE Still
  BY <1>1, StillFacts DEF Places
<1>2. CASE Publish \/ PollFrame \/ Capture
  BY <1>2 DEF Publish, PollFrame, Capture, workVars, Places
<1>3. CASE Finish
  <2>1. InHands /\ cur \in Msgs /\ UNCHANGED <<wpc, wmsg, refused>>
    BY <1>3, FinishFacts
  <2>2. /\ cur.num \notin Nums(wire) \cup Nums(delayq) \cup refused
        /\ wpc = "look" => wmsg.num # cur.num
    BY <2>1, NewestInHand
  <2>3. CASE RejectBig \/ HdxDeaf \/ Drop
    <3>1. UNCHANGED <<wire, delayq>>
      BY <2>3, DropFacts DEF RejectBig, HdxDeaf
    <3> QED
      BY <2>1, <3>1 DEF Places
  <2>4. CASE Forward
    <3>1. wire' = Append(wire, cur) /\ delayq' = delayq
      BY <2>4, ForwardFacts
    <3>2. Distinct(Append(wire, cur)) /\ Nums(Append(wire, cur)) = Nums(wire) \cup {cur.num}
      BY <1>0, <2>1, <2>2, DistinctAppend, NumsAppend DEF Places
    <3> QED
      BY <2>1, <2>2, <3>1, <3>2 DEF Places
  <2>5. CASE DelayFrame \/ QueueForPowerUp
    <3>1. PICK e \in Delayed : e.num = cur.num /\ Queued(e) /\ wire' = wire
      BY <2>5, EntryFacts
    <3>2. Distinct(Append(delayq, e)) /\ Nums(Append(delayq, e)) = Nums(delayq) \cup {cur.num}
      <4>1. e.num \notin Nums(delayq) /\ Distinct(delayq)
        BY <2>2, <3>1 DEF Places
      <4>2. Distinct(Append(delayq, e))
        BY <1>0, <4>1, DistinctAppend
      <4>3. Nums(Append(delayq, e)) = Nums(delayq) \cup {e.num}
        BY <1>0, NumsAppend
      <4> QED
        BY <3>1, <4>2, <4>3
    <3> QED
      BY <2>1, <2>2, <3>1, <3>2 DEF Places, Queued
  <2> QED
    BY <1>3, <2>3, <2>4, <2>5 DEF Finish
<1>4. CASE TakeDelayed
  <2>1. /\ delayq # <<>> /\ delayq' = Tail(delayq) /\ wmsg' = Head(delayq)
        /\ UNCHANGED <<wire, refused>>
    BY <1>4, TakeFacts
  <2>2. /\ Nums(Tail(delayq)) = Nums(delayq) \ {Head(delayq).num}
        /\ Head(delayq).num \in Nums(delayq)
        /\ Distinct(Tail(delayq))
    BY <1>0, <2>1, DistinctTail DEF Places
  <2> QED
    BY <2>1, <2>2 DEF Places
<1>5. CASE SendDelayed
  <2> DEFINE m == [num |-> wmsg.num, frame |-> wmsg.frame]
  <2>1. /\ m \in Msgs /\ wire' = Append(wire, m) /\ m.num = wmsg.num
        /\ wpc = "look" /\ wpc' # "look" /\ UNCHANGED <<delayq, refused>>
    BY <1>5, SendFacts
  <2> HIDE DEF m
  <2>2. m.num \notin Nums(wire) /\ m.num \notin Nums(delayq)
    BY <2>1 DEF Places
  <2>3. Distinct(Append(wire, m)) /\ Nums(Append(wire, m)) = Nums(wire) \cup {m.num}
    BY <1>0, <2>1, <2>2, DistinctAppend, NumsAppend DEF Places
  <2> QED
    BY <2>1, <2>2, <2>3 DEF Places
<1>6. CASE PutBackDelayed
  <2>1. /\ wmsg \in Delayed /\ wpc = "look" /\ wpc' # "look" /\ wire' = wire
        /\ \/ delayq' = Append(delayq, wmsg) /\ refused' = refused
           \/ delayq' = delayq /\ refused' = refused \cup {wmsg.num}
    BY <1>6, PutBackFacts
  <2>2. wmsg.num \notin Nums(wire) /\ wmsg.num \notin Nums(delayq) /\ wmsg.num \notin refused
    BY <2>1 DEF Places
  <2>3. Distinct(Append(delayq, wmsg)) /\ Nums(Append(delayq, wmsg)) = Nums(delayq) \cup {wmsg.num}
    BY <1>0, <2>1, <2>2, DistinctAppend, NumsAppend DEF Places
  <2> QED
    BY <2>1, <2>2, <2>3 DEF Places
<1> QED
  BY <1>1, <1>2, <1>3, <1>4, <1>5, <1>6, NextCases

\* The frame leaves the threads' hands.
LEMMA HandEmptied ==
  ASSUME Types, Numbers, Places
  PROVE  /\ InHands => Cardinality(InHand \ {cur.num}) = Cardinality(InHand) - 1
         /\ wpc = "look" => Cardinality(InHand \ {wmsg.num}) = Cardinality(InHand) - 1
<1>1. IsFiniteSet(InHand)
  BY FrameSets
<1>2. InHands => cur.num \in InHand
  BY NewestInHand DEF InHand
<1>3. wpc = "look" => wmsg.num \in InHand
  <2>1. wpc = "look" => wmsg.num \in 1 .. Done /\ Done \in Nat
    BY DEF Numbers
  <2> QED
    BY <2>1 DEF InHand
<1> QED
  BY <1>1, <1>2, <1>3, FS_RemoveElement

LEMMA AccountedStep ==
  ASSUME Types, Numbers, Places, Accounted, SmallOnly, [Next]_vars
  PROVE  Accounted'
<1> DEFINE nd == Cardinality(deaf)  nr == Cardinality(refused)  nh == Cardinality(InHand)
           nw == Len(wire)  ni == Len(inbox)
<1>0. /\ wire \in Seq(Msgs) /\ inbox \in Seq(Msgs) /\ nw \in Nat /\ ni \in Nat
      /\ arrived \in Nat /\ nd \in Nat /\ nr \in Nat /\ nh \in Nat
      /\ g_drops \in Nat /\ g_delay_drops \in Nat /\ g_malformed_frames \in Nat /\ Rejected \in Nat
      /\ IsFiniteSet(deaf) /\ IsFiniteSet(refused) /\ IsFiniteSet(InHand)
  BY FrameSets DEF Types, Rejected
<1>00. arrived = ni + nh + nw + g_drops + g_delay_drops + Rejected + nd + nr
  BY DEF Accounted
<1>sum. SUFFICES arrived' = ni' + nh' + nw' + g_drops' + g_delay_drops' + Rejected' + nd' + nr'
  BY DEF Accounted
<1> HIDE DEF nd, nr, nh, nw, ni
<1>1. CASE Still
  <2>1. UNCHANGED <<arrived, ni, nh, nw, g_drops, g_delay_drops, Rejected, nd, nr>>
    BY <1>1, StillFacts DEF nd, nr, nh, nw, ni, InHand, Rejected, Parses, Matching
  <2> QED
    BY <1>00, <2>1
<1>2. CASE Publish
  <2>1. PICK f \in mode.frames : inbox' = Append(inbox, [num |-> arrived + 1, frame |-> f])
    BY <1>2 DEF Publish
  <2>2. [num |-> arrived + 1, frame |-> f] \in Msgs
    BY <1>0 DEF Msgs
  <2>3. ni' = ni + 1
    BY <1>0, <2>1, <2>2, AppendFacts DEF ni
  <2>4. /\ arrived' = arrived + 1
        /\ UNCHANGED <<nh, nw, g_drops, g_delay_drops, Rejected, nd, nr>>
    BY <1>2 DEF Publish, workVars, countVars, nd, nr, nh, nw, InHand, Rejected, Parses, Matching
  <2> QED
    BY <1>0, <1>00, <2>3, <2>4
<1>3. CASE PollFrame
  <2>1. /\ inbox # <<>> /\ inbox' = Tail(inbox) /\ cur' = Head(inbox) /\ ~InHands /\ cur' \in Msgs
        /\ UNCHANGED <<wmsg, delayq>>
    BY <1>0, <1>3, TailFacts DEF PollFrame, workVars, InHands
  <2>2. ni' = ni - 1
    BY <1>0, <2>1, TailFacts DEF ni
  <2>3. nh' = nh + 1
    <3>1. cur = None
      BY <2>1 DEF Types
    <3>2. InHands'
      BY <1>3 DEF PollFrame, InHands
    <3>3. Types' /\ Numbers'
      BY TypesStep, NumbersStep
    <3>4. Done' = Done /\ Done \in Nat /\ cur'.num = Done + 1
      <4>1. Len(inbox) >= 1 /\ Len(inbox') = Len(inbox) - 1 /\ arrived' = arrived
        BY <1>0, <1>3, <2>1, TailFacts DEF PollFrame
      <4>2. Taken' = Taken + 1 /\ Taken \in Int
        BY <1>0, <4>1 DEF Taken, ni
      <4>3. Done' = Done /\ Done = Taken
        BY <2>1, <3>2, <4>2 DEF Done
      <4> QED
        BY <3>2, <3>3, <4>2, <4>3 DEF Numbers
    <3>5. cur'.num # 0 /\ cur'.num \notin 1 .. Done
      BY <3>4
    <3>6. cur'.num \notin InHand
      <4>1. cur.num = 0
        BY <3>1 DEF None
      <4>2. wmsg.num = 0 \/ wmsg.num \in 1 .. Done
        BY DEF Numbers, Types, None
      <4>3. Nums(delayq) \subseteq 1 .. Done
        BY DEF Numbers
      <4> QED
        BY <3>5, <4>1, <4>2, <4>3 DEF InHand
    <3>7. InHand' = InHand \cup {cur'.num}
      BY <2>1, <3>1, <3>5 DEF InHand, None
    <3> DEFINE x == cur'.num
    <3>8. Cardinality(InHand \cup {x}) = nh + 1
      <4> HIDE DEF x
      <4> QED
        BY <1>0, <3>6, FS_AddElement DEF nh, x
    <3> QED
      BY <3>7, <3>8 DEF nh
  <2>4. UNCHANGED <<arrived, nw, g_drops, g_delay_drops, Rejected, nd, nr>>
    BY <1>3 DEF PollFrame, countVars, nd, nr, nw, Rejected, Parses, Matching
  <2> QED
    BY <1>0, <1>00, <2>2, <2>3, <2>4
<1>4. CASE Capture
  <2>1. UNCHANGED <<arrived, ni, nh, nw, g_drops, g_delay_drops, mode, nd, nr>>
    BY <1>4 DEF Capture, sockVars, workVars, nd, nr, nh, nw, ni, InHand
  <2>2. Parses => g_malformed_frames' = g_malformed_frames
    <3>1. capq # <<>> /\ capq \in Seq(Msgs)
      BY <1>4 DEF Capture, Types
    <3>2. Head(capq) = capq[1] /\ 1 \in 1 .. Len(capq)
      BY <3>1, TailFacts
    <3> QED
      BY <1>4, <3>2 DEF Capture, SmallOnly, IsBig, Items
  <2>3. Rejected' = Rejected
    BY <2>1, <2>2 DEF Rejected, Parses, Matching
  <2> QED
    BY <1>00, <2>1, <2>3
<1>5. CASE Finish
  <2>1. InHands /\ cur \in Msgs /\ cur' = None /\ UNCHANGED <<mode, arrived, inbox, wmsg, refused>>
    BY <1>5, FinishFacts
  <2>2. cur.num # 0 /\ cur.num # wmsg.num /\ cur.num \notin Nums(delayq) /\ cur.num \notin deaf
    BY <2>1, NewestInHand
  <2>3. ni' = ni /\ nr' = nr /\ arrived' = arrived
    BY <2>1 DEF ni, nr
  <2>4. delayq' = delayq => nh' = nh - 1
    <3>1. delayq' = delayq => InHand' = InHand \ {cur.num}
      BY <2>1, <2>2 DEF InHand, None
    <3> QED
      BY <2>1, <3>1, HandEmptied DEF nh
  <2>5. wire' = wire /\ deaf' = deaf => nw' = nw /\ nd' = nd
    BY DEF nw, nd
  <2>6. CASE RejectBig
    <3>1. UNCHANGED <<wire, delayq, g_drops, g_delay_drops, deaf>> /\ Rejected' = Rejected + 1
      BY <2>1, <2>6 DEF RejectBig, Fits, Rejected, Parses, Matching
    <3> QED
      BY <1>0, <1>00, <2>3, <2>4, <2>5, <3>1
  <2>7. CASE HdxDeaf
    <3>1. UNCHANGED <<wire, delayq, g_drops, g_delay_drops, g_malformed_frames>>
          /\ deaf' = deaf \cup {cur.num}
      BY <2>7 DEF HdxDeaf, countVars
    <3>2. nd' = nd + 1 /\ nw' = nw
      BY <1>0, <2>2, <3>1, FS_AddElement DEF nd, nw
    <3>3. Rejected' = Rejected
      BY <2>1, <3>1 DEF Rejected, Parses, Matching
    <3> QED
      BY <1>0, <1>00, <2>3, <2>4, <3>1, <3>2, <3>3
  <2>8. CASE Drop
    <3>1. UNCHANGED <<wire, delayq, deaf, g_delay_drops, g_malformed_frames>>
          /\ g_drops' = g_drops + 1
      BY <2>8, DropFacts
    <3>2. Rejected' = Rejected
      BY <2>1, <3>1 DEF Rejected, Parses, Matching
    <3> QED
      BY <1>0, <1>00, <2>3, <2>4, <2>5, <3>1, <3>2
  <2>9. CASE Forward
    <3>1. /\ wire' = Append(wire, cur)
          /\ UNCHANGED <<delayq, deaf, g_drops, g_delay_drops, g_malformed_frames>>
      BY <2>9, ForwardFacts
    <3>2. nw' = nw + 1 /\ nd' = nd
      BY <1>0, <2>1, <3>1, AppendFacts DEF nw, nd
    <3>3. Rejected' = Rejected
      BY <2>1, <3>1 DEF Rejected, Parses, Matching
    <3> QED
      BY <1>0, <1>00, <2>3, <2>4, <3>1, <3>2, <3>3
  <2>10. CASE DelayFrame \/ QueueForPowerUp
    <3>1. PICK e \in Delayed : /\ e.num = cur.num /\ Queued(e)
                              /\ UNCHANGED <<wire, deaf, g_drops, g_malformed_frames>>
      BY <2>10, EntryFacts
    <3>2. Rejected' = Rejected
      BY <2>1, <3>1 DEF Rejected, Parses, Matching
    <3>3. CASE delayq' = Append(delayq, e) /\ UNCHANGED g_delay_drops
      <4>1. Nums(Append(delayq, e)) = Nums(delayq) \cup {e.num}
        BY NumsAppend DEF Types
      <4>2. InHand' = InHand
        BY <2>1, <2>2, <3>1, <3>3, <4>1 DEF InHand, None
      <4> QED
        BY <1>00, <2>3, <2>5, <3>1, <3>2, <3>3, <4>2 DEF nh
    <3>4. CASE delayq' = delayq /\ g_delay_drops' = g_delay_drops + 1
      <4>1. nh' = nh - 1 /\ nw' = nw /\ nd' = nd /\ g_drops' = g_drops
        BY <2>4, <2>5, <3>1, <3>4
      <4> QED
        BY <1>0, <1>00, <2>3, <3>2, <3>4, <4>1
    <3> QED
      BY <3>1, <3>3, <3>4 DEF Queued
  <2> QED
    BY <1>5, <2>6, <2>7, <2>8, <2>9, <2>10 DEF Finish
<1>6. CASE TakeDelayed \/ SendDelayed \/ PutBackDelayed
  <2>1. UNCHANGED <<mode, arrived, inbox, cur, deaf, g_drops, g_delay_drops, g_malformed_frames>>
    BY <1>6, TakeFacts, SendFacts, PutBackFacts
  <2>2. ni' = ni /\ nd' = nd /\ Rejected' = Rejected
    BY <2>1 DEF ni, nd, Rejected, Parses, Matching
  <2>3. CASE TakeDelayed
    <3>1. /\ delayq # <<>> /\ delayq' = Tail(delayq) /\ wmsg' = Head(delayq)
          /\ wmsg = None /\ UNCHANGED <<wire, refused>>
      BY <2>3, TakeFacts
    <3>2. Nums(delayq) = Nums(delayq') \cup {wmsg'.num}
      BY <3>1, NumsTail DEF Types
    <3>3. 0 \notin Nums(delayq)
      <4>1. Nums(delayq) \subseteq 1 .. Done /\ Done \in Nat
        BY DEF Numbers
      <4> QED
        BY <4>1
    <3>4. InHand' = InHand
      BY <2>1, <3>1, <3>2, <3>3 DEF InHand, None
    <3> QED
      BY <1>00, <2>1, <2>2, <3>1, <3>4 DEF nh, nw, nr
  <2>4. CASE SendDelayed \/ PutBackDelayed
    <3>1. wpc = "look" /\ wmsg \in Delayed /\ wmsg' = None
      BY <2>4, SendFacts, PutBackFacts
    <3>2. /\ wmsg.num # 0 /\ wmsg.num # cur.num
          /\ wmsg.num \notin Nums(delayq) /\ wmsg.num \notin refused
      <4>1. wmsg.num \in 1 .. Done /\ Done \in Nat
        BY <3>1 DEF Numbers
      <4>2. ~InHands => cur.num = 0
        BY DEF Types, None
      <4> QED
        BY <3>1, <4>1, <4>2, NewestInHand DEF Places
    <3>3. delayq' = delayq => nh' = nh - 1
      <4>1. delayq' = delayq => InHand' = InHand \ {wmsg.num}
        BY <2>1, <3>1, <3>2 DEF InHand, None
      <4> QED
        BY <3>1, <4>1, HandEmptied DEF nh
    <3>4. CASE SendDelayed
      <4> DEFINE m == [num |-> wmsg.num, frame |-> wmsg.frame]
      <4>1. m \in Msgs /\ wire' = Append(wire, m) /\ UNCHANGED <<delayq, refused>>
        BY <3>4, SendFacts
      <4> HIDE DEF m
      <4>2. nw' = nw + 1 /\ nr' = nr
        BY <1>0, <4>1, AppendFacts DEF nw, nr
      <4> QED
        BY <1>0, <1>00, <2>1, <2>2, <3>3, <4>1, <4>2
    <3>5. CASE PutBackDelayed
      <4>1. /\ wire' = wire
            /\ \/ delayq' = Append(delayq, wmsg) /\ refused' = refused
               \/ delayq' = delayq /\ refused' = refused \cup {wmsg.num}
        BY <3>5, PutBackFacts
      <4>2. CASE delayq' = Append(delayq, wmsg) /\ refused' = refused
        <5>1. Nums(Append(delayq, wmsg)) = Nums(delayq) \cup {wmsg.num}
          BY <3>1, NumsAppend DEF Types
        <5>2. InHand' = InHand
          BY <2>1, <3>1, <3>2, <4>2, <5>1 DEF InHand, None
        <5> QED
          BY <1>00, <2>1, <2>2, <4>1, <4>2, <5>2 DEF nh, nw, nr
      <4>3. CASE delayq' = delayq /\ refused' = refused \cup {wmsg.num}
        <5>1. nr' = nr + 1 /\ nw' = nw
          BY <1>0, <3>2, <4>1, <4>3, FS_AddElement DEF nr, nw
        <5> QED
          BY <1>0, <1>00, <2>1, <2>2, <3>3, <4>3, <5>1
      <4> QED
        BY <4>1, <4>2, <4>3
    <3> QED
      BY <2>4, <3>4, <3>5
  <2> QED
    BY <1>6, <2>3, <2>4
<1> QED
  BY <1>1, <1>2, <1>3, <1>4, <1>5, <1>6, NextCases

LEMMA OnePlace ==
  ASSUME Types, Numbers, Places, Accounted
  PROVE  FrameInOnePlace
<1>1. Nums(wire) \cap InHand = {}
  <2>1. InHands => cur.num \notin Nums(wire)
    BY NewestInHand
  <2>2. ~InHands => cur.num = 0
    BY DEF Types, None
  <2>3. wpc # "look" => wmsg.num = 0
    BY DEF Types, None
  <2> QED
    BY <2>1, <2>2, <2>3 DEF Places, InHand
<1>2. arrived = Len(inbox) + Cardinality(InHand) + Len(wire) + g_drops + g_delay_drops
                + (IF mode.hdx \/ Matching THEN g_malformed_frames ELSE 0)
                + Cardinality(deaf) + Cardinality(refused)
  BY DEF Accounted, Rejected, Parses
<1> QED
  BY <1>1, <1>2 DEF FrameInOnePlace, Places, Distinct

-----------------------------------------------------------------------------
(* The drop log                                                            *)

Says(s, b) == {s[i].num : i \in {j \in 1 .. Len(s) : s[j].dropped = b}}

LEMMA SaysAppend ==
  ASSUME NEW S, NEW s \in Seq(S), NEW x \in S, NEW b
  PROVE  Says(Append(s, x), b) = Says(s, b) \cup (IF x.dropped = b THEN {x.num} ELSE {})
<1> DEFINE t == Append(s, x)
<1>1. /\ Len(t) = Len(s) + 1 /\ Len(s) \in Nat /\ t[Len(s) + 1] = x
      /\ \A i \in 1 .. Len(s) : t[i] = s[i]
      /\ \A i \in 1 .. Len(t) : i \in 1 .. Len(s) \/ i = Len(s) + 1
  BY AppendFacts
<1> HIDE DEF t
<1>2. Len(s) + 1 \in 1 .. Len(t) /\ \A i \in 1 .. Len(s) : i \in 1 .. Len(t)
  BY <1>1
<1>3. Says(t, b) \subseteq Says(s, b) \cup (IF x.dropped = b THEN {x.num} ELSE {})
  BY <1>1, <1>2 DEF Says
<1>4. Says(s, b) \subseteq Says(t, b)
  BY <1>1, <1>2 DEF Says
<1>5. x.dropped = b => x.num \in Says(t, b)
  BY <1>1, <1>2 DEF Says
<1>6. Says(t, b) = Says(s, b) \cup (IF x.dropped = b THEN {x.num} ELSE {})
  BY <1>3, <1>4, <1>5
<1> QED
  BY <1>6 DEF t

\* An entry for the frame in hand.
LEMMA LogGrowth ==
  ASSUME Types, cur \in Msgs, NEW b \in BOOLEAN, LogGrows(b)
  PROVE  /\ LogSays(b) \subseteq LogSays(b)' /\ LogSays(b)' \subseteq LogSays(b) \cup {cur.num}
         /\ LogSays(~b)' = LogSays(~b)
<1> DEFINE S == [num : Nat, dropped : BOOLEAN]  x == [num |-> cur.num, dropped |-> b]
<1>1. drop_log \in Seq(S) /\ x \in S /\ x.num = cur.num /\ x.dropped = b
  BY DEF Types, Msgs
<1> HIDE DEF S
<1>2. drop_log' = drop_log \/ drop_log' = Append(drop_log, x)
  BY DEF LogGrows
<1> HIDE DEF x
<1>3. \A c \in BOOLEAN : Says(Append(drop_log, x), c)
                           = Says(drop_log, c) \cup (IF x.dropped = c THEN {x.num} ELSE {})
  BY <1>1, SaysAppend
<1>4. \A c \in BOOLEAN : LogSays(c) = Says(drop_log, c) /\ LogSays(c)' = Says(drop_log', c)
  BY DEF LogSays, Says
<1>5. /\ Says(Append(drop_log, x), b) = Says(drop_log, b) \cup {cur.num}
      /\ Says(Append(drop_log, x), ~b) = Says(drop_log, ~b)
  BY <1>1, <1>3
<1> QED
  BY <1>2, <1>4, <1>5

LEMMA LogIsOld ==
  ASSUME Types, Numbers
  PROVE  \A b \in BOOLEAN : LogSays(b) \subseteq Nums(drop_log) /\ IsFiniteSet(LogSays(b))
<1>1. \A b \in BOOLEAN : LogSays(b) \subseteq Nums(drop_log)
  BY DEF LogSays, Nums
<1> QED
  BY <1>1, FrameSets, FS_Subset

LEMMA PollFacts ==
  ASSUME Types, Numbers, PollFrame
  PROVE  /\ cur = None /\ cur' \in Msgs /\ cur'.num \in Nat \ {0} /\ cur'.num \notin 1 .. Done
         /\ UNCHANGED <<wire, wmsg, delayq, drop_log, refused, g_delay_drops>>
<1>1. /\ inbox # <<>> /\ inbox \in Seq(Msgs) /\ cur' = Head(inbox) /\ ~InHands
      /\ UNCHANGED <<wire, wmsg, delayq, drop_log, refused, g_delay_drops>>
  BY DEF PollFrame, InHands, workVars, countVars, Types
<1>2. cur' = inbox[1] /\ cur' \in Msgs /\ 1 \in 1 .. Len(inbox)
  BY <1>1, TailFacts
<1>3. cur'.num = Done + 1 /\ Done \in Nat
  <2>1. arrived \in Nat /\ Len(inbox) \in Nat
    BY DEF Types
  <2>2. Done = Taken /\ Done \in Nat
    BY <1>1, <2>1 DEF Done, Numbers
  <2>3. inbox[1].num = Taken + 1
    BY <1>2 DEF Numbers
  <2> QED
    BY <1>2, <2>2, <2>3
<1>4. cur = None
  BY <1>1 DEF Types
<1>5. cur'.num \in Nat \ {0} /\ cur'.num \notin 1 .. Done
  <2> DEFINE n == cur'.num
  <2>1. n = Done + 1
    BY <1>3
  <2> HIDE DEF n
  <2>2. n \in Nat \ {0} /\ n \notin 1 .. Done
    BY <1>3, <2>1
  <2> QED
    BY <2>2 DEF n
<1> QED
  BY <1>1, <1>2, <1>4, <1>5

LEMMA OutPolled ==
  ASSUME Types, Numbers, PollFrame
  PROVE  Out' = Out \cup {cur'.num} /\ cur'.num \notin Nums(drop_log)
<1>1. /\ cur = None /\ cur'.num # 0 /\ cur'.num \notin 1 .. Done
      /\ UNCHANGED <<wire, wmsg, delayq, drop_log>>
  BY PollFacts
<1>2. cur.num = 0
  BY <1>1 DEF None
<1> QED
  BY <1>1, <1>2 DEF Out, InHand, Numbers

LEMMA OutKept ==
  ASSUME Types, Numbers, Places, Still \/ Publish \/ Capture \/ TakeDelayed \/ SendDelayed
  PROVE  Out' = Out
<1>0. wire \in Seq(Msgs) /\ delayq \in Seq(Delayed)
  BY DEF Types
<1>1. CASE Still
  BY <1>1, StillFacts DEF Out, InHand
<1>2. CASE Publish \/ Capture
  <2>1. UNCHANGED <<wire, cur, wmsg, delayq>>
    BY <1>2 DEF Publish, Capture, workVars
  <2> QED
    BY <2>1 DEF Out, InHand
<1>3. CASE TakeDelayed
  <2>1. /\ delayq # <<>> /\ delayq' = Tail(delayq) /\ wmsg' = Head(delayq)
        /\ wmsg = None /\ UNCHANGED <<wire, cur>>
    BY <1>3, TakeFacts
  <2>2. Nums(delayq) = Nums(Tail(delayq)) \cup {Head(delayq).num}
    BY <1>0, <2>1, NumsTail
  <2>3. 0 \notin Nums(delayq)
    <3>1. Nums(delayq) \subseteq 1 .. Done /\ Done \in Nat
      BY DEF Numbers
    <3> QED
      BY <3>1
  <2>4. InHand' = InHand
    BY <2>1, <2>2, <2>3 DEF InHand, None
  <2> QED
    BY <2>1, <2>4 DEF Out
<1>4. CASE SendDelayed
  <2> DEFINE m == [num |-> wmsg.num, frame |-> wmsg.frame]
  <2>1. /\ m \in Msgs /\ wire' = Append(wire, m) /\ m.num = wmsg.num /\ wmsg' = None
        /\ wpc = "look" /\ UNCHANGED <<delayq, cur>>
    BY <1>4, SendFacts
  <2> HIDE DEF m
  <2>2. Nums(Append(wire, m)) = Nums(wire) \cup {m.num}
    BY <1>0, <2>1, NumsAppend
  <2>3. wmsg.num # 0
    <3>1. wmsg.num \in 1 .. Done /\ Done \in Nat
      BY <2>1 DEF Numbers
    <3> QED
      BY <3>1
  <2> QED
    BY <2>1, <2>2, <2>3 DEF Out, InHand, None
<1> QED
  BY <1>1, <1>2, <1>3, <1>4

LEMMA OutFinished ==
  ASSUME Types, Numbers, Places, Finish
  PROVE  /\ RejectBig \/ HdxDeaf \/ Drop => Out' = Out \ {cur.num}
         /\ Forward => Out' = Out
         /\ DelayFrame \/ QueueForPowerUp =>
              \/ Out' = Out /\ g_delay_drops' = g_delay_drops
              \/ Out' = Out \ {cur.num} /\ g_delay_drops' = g_delay_drops + 1
<1>1. InHands /\ cur \in Msgs /\ cur' = None /\ wmsg' = wmsg
  BY FinishFacts
<1>2. cur.num # 0 /\ cur.num # wmsg.num /\ cur.num \notin Nums(delayq) \cup Nums(wire)
  BY <1>1, NewestInHand
<1>3. wire' = wire /\ delayq' = delayq => Out' = Out \ {cur.num}
  BY <1>1, <1>2 DEF Out, InHand, None
<1>4. RejectBig \/ HdxDeaf \/ Drop => wire' = wire /\ delayq' = delayq
  BY DropFacts DEF RejectBig, HdxDeaf
<1>5. ASSUME Forward PROVE Out' = Out
  <2>1. wire' = Append(wire, cur) /\ delayq' = delayq
    BY <1>5, ForwardFacts
  <2>2. Nums(Append(wire, cur)) = Nums(wire) \cup {cur.num}
    BY <1>1, NumsAppend DEF Types
  <2> QED
    BY <1>1, <1>2, <2>1, <2>2 DEF Out, InHand, None
<1>6. ASSUME DelayFrame \/ QueueForPowerUp
      PROVE  \/ Out' = Out /\ g_delay_drops' = g_delay_drops
             \/ Out' = Out \ {cur.num} /\ g_delay_drops' = g_delay_drops + 1
  <2>1. PICK e \in Delayed : e.num = cur.num /\ Queued(e) /\ wire' = wire
    BY <1>6, EntryFacts
  <2>2. Nums(Append(delayq, e)) = Nums(delayq) \cup {e.num}
    BY NumsAppend DEF Types
  <2>3. CASE delayq' = Append(delayq, e) /\ g_delay_drops' = g_delay_drops
    BY <1>1, <1>2, <2>1, <2>2, <2>3 DEF Out, InHand, None
  <2>4. CASE delayq' = delayq /\ g_delay_drops' = g_delay_drops + 1
    BY <1>3, <2>1, <2>4
  <2> QED
    BY <2>1, <2>3, <2>4 DEF Queued
<1> QED
  BY <1>3, <1>4, <1>5, <1>6

LEMMA OutPutBack ==
  ASSUME Types, Numbers, Places, PutBackDelayed
  PROVE  \/ Out' = Out /\ refused' = refused
         \/ /\ Out' = Out \ {wmsg.num} /\ refused' = refused \cup {wmsg.num}
            /\ wmsg.num \notin refused
<1>1. /\ wmsg \in Delayed /\ wpc = "look" /\ wmsg' = None /\ UNCHANGED <<wire, cur>>
      /\ \/ delayq' = Append(delayq, wmsg) /\ refused' = refused
         \/ delayq' = delayq /\ refused' = refused \cup {wmsg.num}
  BY PutBackFacts
<1>2. wmsg.num \notin Nums(wire) \cup Nums(delayq) \cup refused
  BY <1>1 DEF Places
<1>3. wmsg.num # 0 /\ wmsg.num # cur.num
  <2>1. wmsg.num \in 1 .. Done /\ Done \in Nat
    BY <1>1 DEF Numbers
  <2>2. ~InHands => cur.num = 0
    BY DEF Types, None
  <2> QED
    BY <1>1, <2>1, <2>2, NewestInHand
<1>4. CASE delayq' = Append(delayq, wmsg) /\ refused' = refused
  <2>1. Nums(Append(delayq, wmsg)) = Nums(delayq) \cup {wmsg.num}
    BY <1>1, NumsAppend DEF Types
  <2> QED
    BY <1>1, <1>3, <1>4, <2>1 DEF Out, InHand, None
<1>5. CASE delayq' = delayq /\ refused' = refused \cup {wmsg.num}
  BY <1>1, <1>2, <1>3, <1>5 DEF Out, InHand, None
<1> QED
  BY <1>1, <1>4, <1>5

LEMMA LogStep ==
  ASSUME Types, Numbers, Places, LogAgrees, [Next]_vars
  PROVE  LogAgrees'
<1> DEFINE kept == LogSays(FALSE)  lost == LogSays(TRUE)  missing == kept \ Out
           bound == g_delay_drops + Cardinality(refused)
<1>0. /\ kept \subseteq Nums(drop_log) /\ lost \subseteq Nums(drop_log)
      /\ IsFiniteSet(kept) /\ IsFiniteSet(missing)
      /\ IsFiniteSet(refused) /\ Cardinality(refused) \in Nat /\ g_delay_drops \in Nat
  <2>1. /\ kept \subseteq Nums(drop_log) /\ lost \subseteq Nums(drop_log) /\ IsFiniteSet(kept)
    BY LogIsOld
  <2>2. IsFiniteSet(missing)
    BY <2>1, FS_Subset
  <2> QED
    BY <2>1, <2>2, FrameSets DEF Types
<1>00. lost \cap Out = {} /\ Cardinality(missing) <= bound
  BY DEF LogAgrees
<1>goal. SUFFICES lost' \cap Out' = {} /\ Cardinality(missing') <= bound'
  BY DEF LogAgrees
<1>size. Cardinality(missing) \in Nat /\ bound \in Nat
  BY <1>0, FS_CardinalityType
\* Nothing new is missing, or one frame that a full queue cost.
<1>same. ASSUME missing' \subseteq missing, bound' = bound PROVE Cardinality(missing') <= bound'
  <2> DEFINE M == missing  N == missing'
  <2>1. IsFiniteSet(M) /\ N \subseteq M
    BY <1>0, <1>same
  <2> HIDE DEF M, N
  <2>2. Cardinality(N) <= Cardinality(M) /\ Cardinality(N) \in Nat /\ Cardinality(M) \in Nat
    BY <2>1, FS_Subset, FS_CardinalityType
  <2>3. Cardinality(missing') <= Cardinality(missing) /\ Cardinality(missing') \in Nat
    BY <2>2 DEF M, N
  <2> HIDE DEF missing, bound
  <2> QED
    BY <1>00, <1>size, <1>same, <2>3
<1>more. ASSUME NEW x, missing' \subseteq missing \cup {x}, bound' = bound + 1
         PROVE  Cardinality(missing') <= bound'
  <2> DEFINE M == missing  N == missing'
  <2>1. IsFiniteSet(M) /\ N \subseteq M \cup {x}
    BY <1>0, <1>more
  <2> HIDE DEF M, N
  <2>2. IsFiniteSet(M \cup {x}) /\ Cardinality(M \cup {x}) <= Cardinality(M) + 1
    <3>1. Cardinality(M) \in Nat
      BY <2>1, FS_CardinalityType
    <3> QED
      BY <2>1, <3>1, FS_AddElement
  <2>3. /\ Cardinality(N) <= Cardinality(M \cup {x}) /\ Cardinality(N) \in Nat
        /\ Cardinality(M \cup {x}) \in Nat /\ Cardinality(M) \in Nat
    BY <2>1, <2>2, FS_Subset, FS_CardinalityType
  <2>4. Cardinality(missing') <= Cardinality(missing) + 1 /\ Cardinality(missing') \in Nat
    BY <2>2, <2>3 DEF M, N
  <2> HIDE DEF missing, bound
  <2> QED
    BY <1>00, <1>size, <1>more, <2>4
<1>1. CASE Still \/ Publish \/ Capture \/ TakeDelayed \/ SendDelayed
  <2>1. Out' = Out
    BY <1>1, OutKept
  <2>3. drop_log' = drop_log /\ g_delay_drops' = g_delay_drops /\ refused' = refused
    <3>1. CASE Publish \/ Capture
      BY <3>1 DEF Publish, Capture, countVars
    <3> QED
      BY <1>1, <3>1, StillFacts, TakeFacts, SendFacts
  <2>4. kept' = kept /\ lost' = lost
    BY <2>3 DEF LogSays
  <2> QED
    BY <1>00, <2>1, <2>3, <2>4, <1>same
<1>2. CASE PollFrame
  <2>1. Out' = Out \cup {cur'.num} /\ cur'.num \notin Nums(drop_log)
    BY <1>2, OutPolled
  <2>2. drop_log' = drop_log /\ g_delay_drops' = g_delay_drops /\ refused' = refused
    BY <1>2, PollFacts
  <2>3. kept' = kept /\ lost' = lost
    BY <2>2 DEF LogSays
  <2>4. missing' \subseteq missing /\ lost' \cap Out' = {}
    BY <1>0, <1>00, <2>1, <2>3
  <2> QED
    BY <2>2, <2>4, <1>same
<1>3. CASE Finish
  <2>0. InHands /\ cur \in Msgs /\ cur' = None /\ refused' = refused
    BY <1>3, FinishFacts
  <2>1. cur.num \notin Nums(drop_log)
    BY <2>0, NewestInHand
  <2>2. CASE RejectBig \/ HdxDeaf
    <3>1. drop_log' = drop_log /\ g_delay_drops' = g_delay_drops /\ Out' = Out \ {cur.num}
      BY <1>3, <2>2, OutFinished DEF RejectBig, HdxDeaf, countVars
    <3>2. kept' = kept /\ lost' = lost
      BY <3>1 DEF LogSays
    <3>3. missing' \subseteq missing /\ lost' \cap Out' = {}
      BY <1>0, <1>00, <2>1, <3>1, <3>2
    <3> QED
      BY <2>0, <3>1, <3>3, <1>same
  <2>3. CASE Drop
    <3>1. LogGrows(TRUE) /\ g_delay_drops' = g_delay_drops /\ Out' = Out \ {cur.num}
      BY <1>3, <2>3, OutFinished, DropFacts
    <3>2. kept' = kept /\ lost' \subseteq lost \cup {cur.num}
      <4>1. /\ LogSays(TRUE)' \subseteq LogSays(TRUE) \cup {cur.num}
            /\ LogSays(~TRUE)' = LogSays(~TRUE)
        BY <2>0, <3>1, LogGrowth
      <4>2. (~TRUE) = FALSE
        OBVIOUS
      <4> QED
        BY <4>1, <4>2
    <3>3. missing' \subseteq missing /\ lost' \cap Out' = {}
      BY <1>0, <1>00, <2>1, <3>1, <3>2
    <3> QED
      BY <2>0, <3>1, <3>3, <1>same
  <2>4. CASE Forward \/ DelayFrame \/ QueueForPowerUp
    <3>1. LogGrows(FALSE)
      BY <2>4, ForwardFacts, EntryFacts
    <3>2. kept' \subseteq kept \cup {cur.num} /\ lost' = lost
      <4>1. LogSays(FALSE)' \subseteq LogSays(FALSE) \cup {cur.num}
            /\ LogSays(~FALSE)' = LogSays(~FALSE)
        BY <2>0, <3>1, LogGrowth
      <4>2. (~FALSE) = TRUE
        OBVIOUS
      <4> QED
        BY <4>1, <4>2
    <3>3. cur.num \in Out
      BY <2>0, NewestInHand DEF Out, InHand
    <3>4. CASE Out' = Out /\ g_delay_drops' = g_delay_drops
      <4>1. missing' \subseteq missing /\ lost' \cap Out' = {}
        BY <1>00, <3>2, <3>3, <3>4
      <4> QED
        BY <2>0, <3>4, <4>1, <1>same
    <3>5. CASE Out' = Out \ {cur.num} /\ g_delay_drops' = g_delay_drops + 1
      <4>1. missing' \subseteq missing \cup {cur.num} /\ lost' \cap Out' = {}
        BY <1>00, <3>2, <3>5
      <4>2. bound' = bound + 1
        <5>1. g_delay_drops' + Cardinality(refused) = (g_delay_drops + Cardinality(refused)) + 1
          BY <1>0, <3>5
        <5> QED
          BY <2>0, <5>1
      <4> HIDE DEF missing, bound
      <4> QED
        BY <4>1, <4>2, <1>more
    <3>6. Forward => g_delay_drops' = g_delay_drops
      BY ForwardFacts
    <3> QED
      BY <1>3, <2>4, <3>4, <3>5, <3>6, OutFinished
  <2> QED
    BY <1>3, <2>2, <2>3, <2>4 DEF Finish
<1>4. CASE PutBackDelayed
  <2>1. drop_log' = drop_log /\ g_delay_drops' = g_delay_drops
    BY <1>4 DEF PutBackDelayed, mainVars, countVars
  <2>2. kept' = kept /\ lost' = lost
    BY <2>1 DEF LogSays
  <2>3. CASE Out' = Out /\ refused' = refused
    BY <1>00, <2>1, <2>2, <2>3, <1>same
  <2>4. CASE /\ Out' = Out \ {wmsg.num} /\ refused' = refused \cup {wmsg.num}
             /\ wmsg.num \notin refused
    <3>1. missing' \subseteq missing \cup {wmsg.num} /\ lost' \cap Out' = {}
      BY <1>00, <2>2, <2>4
    <3>2. Cardinality(refused') = Cardinality(refused) + 1
      BY <1>0, <2>4, FS_AddElement
    <3>3. bound' = bound + 1
      BY <1>0, <2>1, <3>2
    <3> HIDE DEF missing, bound
    <3> QED
      BY <3>1, <3>3, <1>more
  <2> QED
    BY <1>4, <2>3, <2>4, OutPutBack
<1> QED
  BY <1>1, <1>2, <1>3, <1>4, NextCases

-----------------------------------------------------------------------------
(* Frames too big for the buffer                                           *)

LEMMA SmallOnlyStep ==
  ASSUME Types, SmallOnly, [Next]_vars
  PROVE  SmallOnly'
<1> DEFINE all == Items(wire) \cup Items(capq) \cup Waiting \cup Held
<1>0. wire \in Seq(Msgs) /\ capq \in Seq(Msgs) /\ delayq \in Seq(Delayed)
  BY DEF Types
<1>00. mode' = mode => Parses' = Parses
  BY DEF Parses, Matching
<1>all. SUFFICES ASSUME Parses, Parses'
                 PROVE  \A m \in all' : ~IsBig(m)
  <2>1. mode' = mode
    <3>1. CASE Publish \/ PollFrame \/ Capture
      BY <3>1 DEF Publish, PollFrame, Capture
    <3> QED
      BY <3>1, NextCases, StillFacts, FinishFacts, TakeFacts, SendFacts, PutBackFacts
  <2> QED
    BY <1>00, <2>1 DEF SmallOnly
<1>small. \A m \in all : ~IsBig(m)
  BY <1>all DEF SmallOnly
<1> HIDE DEF all
<1>same. ASSUME all' \subseteq all PROVE \A m \in all' : ~IsBig(m)
  BY <1>small, <1>same
<1>more. ASSUME NEW x, ~IsBig(x), all' \subseteq all \cup {x} PROVE \A m \in all' : ~IsBig(m)
  BY <1>small, <1>more
<1>1. CASE HoldForPowerUp
  <2>1. Fits /\ cur' = cur /\ UNCHANGED <<wire, capq, delayq, wpc, wmsg>>
    BY <1>1 DEF HoldForPowerUp, workVars
  <2>2. ~IsBig(cur)
    BY <1>all, <2>1 DEF Fits, Parses, IsBig
  <2>3. all' \subseteq all \cup {cur}
    BY <2>1 DEF all, Waiting, Held
  <2> QED
    BY <2>2, <2>3, <1>more
<1>2. CASE Still /\ ~HoldForPowerUp
  <2>1. UNCHANGED <<wire, capq, delayq, wmsg, cur>> /\ (wpc' = "look") = (wpc = "look")
    BY <1>2, StillFacts
  <2>2. pc' = "hold" => pc = "hold"
    BY <1>2 DEF Still, Tick, proxy_on_sigint, AfterSignal, TestStop, EnterPoll, PollSubscription,
       CountDelayed, MarkTransmission, mainVars, vars
  <2> QED
    BY <2>1, <2>2, <1>same DEF all, Waiting, Held
<1>3. CASE Publish \/ PollFrame
  <2>1. UNCHANGED <<wire, capq, delayq, wpc, wmsg>> /\ (pc' = "hold" => pc = "hold" /\ cur' = cur)
    BY <1>3 DEF Publish, PollFrame, workVars
  <2> QED
    BY <2>1, <1>same DEF all, Waiting, Held
<1>4. CASE Capture
  <2>1. /\ capq # <<>> /\ UNCHANGED <<wire, delayq, wpc, wmsg, pc, cur>>
        /\ capq' = <<>> \/ capq' = Tail(capq)
    BY <1>4 DEF Capture, workVars
  <2>2. Items(capq) = Items(Tail(capq)) \cup {Head(capq)} /\ Items(<<>>) = {}
    BY <1>0, <2>1, ItemsTail, NumsEmpty
  <2> QED
    BY <2>1, <2>2, <1>same DEF all, Waiting, Held
<1>5. CASE Finish
  <2>1. cur \in Msgs /\ Held' = {} /\ UNCHANGED <<wpc, wmsg>>
    BY <1>5, FinishFacts DEF Held, InHands
  <2>2. CASE RejectBig \/ HdxDeaf \/ Drop
    <3>1. UNCHANGED <<wire, capq, delayq>>
      BY <2>2, DropFacts DEF RejectBig, HdxDeaf
    <3> QED
      BY <2>1, <3>1, <1>same DEF all, Waiting
  <2>3. CASE Forward
    <3>1. /\ wire' = Append(wire, cur) /\ Fits /\ delayq' = delayq
          /\ capq' = capq \/ capq' = Append(capq, cur)
      BY <2>3, ForwardFacts
    <3>2. Items(Append(wire, cur)) = Items(wire) \cup {cur}
          /\ Items(Append(capq, cur)) = Items(capq) \cup {cur}
      BY <1>0, <2>1, ItemsAppend
    <3>3. ~IsBig(cur)
      BY <1>all, <3>1 DEF Fits, Parses, IsBig
    <3>4. all' \subseteq all \cup {cur}
      BY <2>1, <3>1, <3>2 DEF all, Waiting
    <3> QED
      BY <3>3, <3>4, <1>more
  <2>4. CASE DelayFrame \/ QueueForPowerUp
    <3>1. PICK e \in Delayed : /\ e.frame = cur.frame /\ Queued(e) /\ UNCHANGED <<wire, capq>>
      BY <2>4, EntryFacts
    <3>2. Items(Append(delayq, e)) = Items(delayq) \cup {e}
      BY <1>0, ItemsAppend
    <3>3. ~IsBig(e)
      <4>1. CASE DelayFrame
        BY <1>all, <3>1, <4>1, DelayFacts DEF Fits, Parses, IsBig
      <4>2. CASE QueueForPowerUp
        <5>1. cur \in all
          BY <4>2 DEF QueueForPowerUp, Held, all
        <5> QED
          BY <1>small, <3>1, <5>1 DEF IsBig
      <4> QED
        BY <2>4, <4>1, <4>2
    <3>4. all' \subseteq all \cup {e}
      BY <2>1, <3>1, <3>2 DEF all, Waiting, Queued
    <3> QED
      BY <3>3, <3>4, <1>more
  <2> QED
    BY <1>5, <2>2, <2>3, <2>4 DEF Finish
<1>6. CASE TakeDelayed
  <2>1. /\ delayq # <<>> /\ delayq' = Tail(delayq) /\ wmsg' = Head(delayq)
        /\ UNCHANGED <<wire, capq, pc, cur>>
    BY <1>6, TakeFacts
  <2>2. Items(delayq) = Items(Tail(delayq)) \cup {Head(delayq)}
    BY <1>0, <2>1, ItemsTail
  <2> QED
    BY <2>1, <2>2, <1>same DEF all, Waiting, Held
<1>7. CASE SendDelayed
  <2> DEFINE m == [num |-> wmsg.num, frame |-> wmsg.frame]
  <2>1. /\ m \in Msgs /\ wire' = Append(wire, m) /\ m.frame = wmsg.frame
        /\ capq' = capq \/ capq' = Append(capq, m)
        /\ wpc = "look" /\ wpc' # "look" /\ UNCHANGED <<delayq, pc, cur>>
    BY <1>7, SendFacts
  <2> HIDE DEF m
  <2>2. /\ Items(Append(wire, m)) = Items(wire) \cup {m}
        /\ Items(Append(capq, m)) = Items(capq) \cup {m}
    BY <1>0, <2>1, ItemsAppend
  <2>3. ~IsBig(m)
    <3>1. wmsg \in all
      BY <2>1 DEF all, Waiting
    <3> QED
      BY <1>small, <2>1, <3>1 DEF IsBig
  <2>4. all' \subseteq all \cup {m}
    BY <2>1, <2>2 DEF all, Waiting, Held
  <2> QED
    BY <2>3, <2>4, <1>more
<1>8. CASE PutBackDelayed
  <2>1. /\ wmsg \in Delayed /\ wpc = "look" /\ UNCHANGED <<wire, capq, pc, cur>> /\ wpc' # "look"
        /\ delayq' = Append(delayq, wmsg) \/ delayq' = delayq
    BY <1>8, PutBackFacts
  <2>2. Items(Append(delayq, wmsg)) = Items(delayq) \cup {wmsg}
    BY <1>0, <2>1, ItemsAppend
  <2> QED
    BY <2>1, <2>2, <1>same DEF all, Waiting, Held
<1> QED
  BY <1>1, <1>2, <1>3, <1>4, <1>5, <1>6, <1>7, <1>8, NextCases

\* Where in a sequence the big frames are.
BigAt(s) == {i \in 1 .. Len(s) : IsBig(s[i])}

LEMMA BigAtFinite ==
  ASSUME NEW S, NEW s \in Seq(S)
  PROVE  IsFiniteSet(BigAt(s)) /\ BigIn(s) \in Nat /\ BigIn(s) = Cardinality(BigAt(s))
<1>1. BigAt(s) \subseteq 1 .. Len(s) /\ Len(s) \in Nat
  BY DEF BigAt
<1>2. IsFiniteSet(BigAt(s)) /\ Cardinality(BigAt(s)) \in Nat
  BY <1>1, SmallSets
<1> QED
  BY <1>2 DEF BigIn, BigAt

LEMMA BigAppend ==
  ASSUME NEW S, NEW s \in Seq(S), NEW x \in S
  PROVE  BigIn(Append(s, x)) = BigIn(s) + (IF IsBig(x) THEN 1 ELSE 0)
<1> DEFINE t == Append(s, x)
<1>1. /\ t \in Seq(S) /\ Len(t) = Len(s) + 1 /\ Len(s) \in Nat /\ t[Len(s) + 1] = x
      /\ \A i \in 1 .. Len(s) : t[i] = s[i]
      /\ \A i \in 1 .. Len(t) : i \in 1 .. Len(s) \/ i = Len(s) + 1
  BY AppendFacts
<1> HIDE DEF t
<1>2. /\ Len(s) + 1 \in 1 .. Len(t) /\ Len(s) + 1 \notin 1 .. Len(s)
      /\ \A i \in 1 .. Len(s) : i \in 1 .. Len(t)
  BY <1>1
<1>3. BigAt(t) = BigAt(s) \cup (IF IsBig(x) THEN {Len(s) + 1} ELSE {})
  BY <1>1, <1>2 DEF BigAt
<1>4. Len(s) + 1 \notin BigAt(s)
  BY <1>2 DEF BigAt
<1>5. /\ IsFiniteSet(BigAt(s)) /\ BigIn(s) \in Nat /\ BigIn(s) = Cardinality(BigAt(s))
      /\ BigIn(t) = Cardinality(BigAt(t))
  BY <1>1, BigAtFinite
<1>6. BigIn(t) = BigIn(s) + (IF IsBig(x) THEN 1 ELSE 0)
  <2>1. CASE IsBig(x)
    <3>1. BigAt(t) = BigAt(s) \cup {Len(s) + 1}
      BY <1>3, <2>1
    <3> DEFINE n == Len(s) + 1
    <3>2. BigAt(t) = BigAt(s) \cup {n} /\ n \notin BigAt(s)
      BY <1>4, <3>1
    <3> HIDE DEF n
    <3>3. Cardinality(BigAt(t)) = Cardinality(BigAt(s)) + 1
      BY <1>5, <3>2, FS_AddElement
    <3> QED
      BY <1>5, <2>1, <3>3
  <2>2. CASE ~IsBig(x)
    BY <1>3, <1>5, <2>2
  <2> QED
    BY <2>1, <2>2
<1> QED
  BY <1>6 DEF t

LEMMA BigTail ==
  ASSUME NEW S, NEW s \in Seq(S), s # <<>>
  PROVE  BigIn(Tail(s)) + (IF IsBig(Head(s)) THEN 1 ELSE 0) <= BigIn(s)
<1> DEFINE t == Tail(s)
<1>1. /\ t \in Seq(S)
      /\ Len(t) = Len(s) - 1 /\ Len(s) >= 1 /\ Len(s) \in Nat /\ Head(s) = s[1]
      /\ \A i \in 1 .. Len(t) : i + 1 \in 2 .. Len(s) /\ t[i] = s[i + 1]
  BY TailFacts
<1> HIDE DEF t
<1>2. /\ IsFiniteSet(BigAt(s)) /\ BigIn(s) \in Nat /\ BigIn(s) = Cardinality(BigAt(s))
      /\ BigIn(t) = Cardinality(BigAt(t)) /\ BigIn(t) \in Nat
  BY <1>1, BigAtFinite
<1> DEFINE f == [i \in BigAt(t) |-> i + 1]
<1>3. \A i \in BigAt(t) : i \in Int /\ i + 1 \in BigAt(s) \ {1}
  <2> TAKE i \in BigAt(t)
  <2>1. i \in 1 .. Len(t) /\ IsBig(t[i])
    BY DEF BigAt
  <2>2. i \in Int /\ i + 1 \in 2 .. Len(s) /\ t[i] = s[i + 1]
    BY <1>1, <2>1
  <2>3. i + 1 \in 1 .. Len(s) /\ i + 1 # 1
    BY <1>1, <2>2
  <2> QED
    BY <2>1, <2>2, <2>3 DEF BigAt
<1>4. f \in Injection(BigAt(t), BigAt(s) \ {1})
  BY <1>3 DEF Injection, IsInjective
<1>5. IsFiniteSet(BigAt(s) \ {1})
  BY <1>2, FS_RemoveElement
<1>6. BigIn(t) <= Cardinality(BigAt(s) \ {1})
  BY <1>2, <1>4, <1>5, FS_Injection
<1>7. IsBig(Head(s)) => 1 \in BigAt(s)
  BY <1>1 DEF BigAt
<1>8. BigIn(t) + (IF IsBig(Head(s)) THEN 1 ELSE 0) <= BigIn(s)
  <2>1. CASE IsBig(Head(s))
    <3>1. Cardinality(BigAt(s) \ {1}) = BigIn(s) - 1
      BY <1>2, <1>7, <2>1, FS_RemoveElement
    <3> QED
      BY <1>2, <1>6, <2>1, <3>1
  <2>2. CASE ~IsBig(Head(s))
    <3>1. Cardinality(BigAt(s) \ {1}) <= BigIn(s) /\ Cardinality(BigAt(s) \ {1}) \in Nat
      <4>1. BigAt(s) \ {1} \subseteq BigAt(s)
        OBVIOUS
      <4>2. Cardinality(BigAt(s) \ {1}) <= Cardinality(BigAt(s))
        BY <1>2, <4>1, FS_Subset
      <4> QED
        BY <1>2, <1>5, <4>2, FS_CardinalityType
    <3> QED
      BY <1>2, <1>6, <2>2, <3>1
  <2> QED
    BY <2>1, <2>2
<1> QED
  BY <1>8 DEF t

LEMMA CapturedOnceStep ==
  ASSUME Types, CapturedOnce, [Next]_vars
  PROVE  CapturedOnce'
<1>0. wire \in Seq(Msgs) /\ capq \in Seq(Msgs) /\ g_malformed_frames \in Nat
  BY DEF Types
<1>00. BigIn(wire) \in Nat /\ BigIn(capq) \in Nat
  BY <1>0, BigAtFinite
<1>000. mode' = mode => Parses' = Parses
  BY DEF Parses, Matching
<1>same. ASSUME mode' = mode, ~Parses => UNCHANGED <<wire, capq, g_malformed_frames>>
         PROVE  CapturedOnce'
  BY <1>000, <1>same DEF CapturedOnce
<1>sent. ASSUME mode' = mode, NEW m \in Msgs, wire' = Append(wire, m),
                capq' = capq \/ capq' = Append(capq, m), UNCHANGED g_malformed_frames
         PROVE  CapturedOnce'
  <2>1. /\ BigIn(Append(wire, m)) = BigIn(wire) + (IF IsBig(m) THEN 1 ELSE 0)
        /\ BigIn(Append(capq, m)) = BigIn(capq) + (IF IsBig(m) THEN 1 ELSE 0)
    BY <1>0, BigAppend
  <2>2. BigIn(wire') = BigIn(wire) + (IF IsBig(m) THEN 1 ELSE 0)
    BY <1>sent, <2>1
  <2>3. BigIn(capq') = BigIn(capq) \/ BigIn(capq') = BigIn(capq) + (IF IsBig(m) THEN 1 ELSE 0)
    BY <1>sent, <2>1
  <2>4. ~Parses => g_malformed_frames + BigIn(capq') <= BigIn(wire')
    BY <1>0, <1>00, <2>2, <2>3 DEF CapturedOnce
  <2> QED
    BY <1>000, <1>sent, <2>4 DEF CapturedOnce
<1>1. CASE Still \/ Publish \/ PollFrame \/ TakeDelayed \/ PutBackDelayed
  <2>1. CASE Publish \/ PollFrame
    BY <2>1, <1>same DEF Publish, PollFrame, countVars
  <2> QED
    BY <1>1, <2>1, <1>same, StillFacts, TakeFacts, PutBackFacts
<1>2. CASE Capture
  <2> DEFINE b == IF IsBig(Head(capq)) THEN 1 ELSE 0
  <2>1. /\ capq # <<>> /\ mode' = mode /\ wire' = wire
        /\ capq' = Tail(capq) \/ (capq' = <<>> /\ ~IsBig(Head(capq)))
        /\ g_malformed_frames' = g_malformed_frames + b
    BY <1>0, <1>2 DEF Capture, IsBig
  <2>2. BigIn(Tail(capq)) + b <= BigIn(capq) /\ BigIn(Tail(capq)) \in Nat
    BY <1>0, <2>1, BigTail, BigAtFinite, TailFacts
  <2>3. BigIn(<<>>) = 0
    BY EmptyFacts, FS_EmptySet DEF BigIn
  <2>4. capq' = <<>> /\ ~IsBig(Head(capq)) => BigIn(capq') + b <= BigIn(capq)
    BY <1>00, <2>3
  <2>5. BigIn(capq') + b <= BigIn(capq) /\ BigIn(capq') \in Nat /\ b \in Nat
    <3>1. b \in Nat
      OBVIOUS
    <3>2. CASE capq' = Tail(capq)
      BY <2>2, <3>1, <3>2
    <3>3. CASE capq' = <<>> /\ ~IsBig(Head(capq))
      BY <2>3, <2>4, <3>1, <3>3
    <3> QED
      BY <2>1, <3>2, <3>3
  <2> HIDE DEF b
  <2>6. ~Parses => g_malformed_frames' + BigIn(capq') <= BigIn(wire)
    BY <1>0, <1>00, <2>1, <2>5 DEF CapturedOnce
  <2> QED
    BY <1>000, <2>1, <2>6 DEF CapturedOnce
<1>3. CASE Finish
  <2>1. cur \in Msgs /\ mode' = mode
    BY <1>3, FinishFacts
  <2>2. CASE RejectBig
    <3>1. Parses
      BY <2>2 DEF RejectBig, Fits, Parses
    <3> QED
      BY <2>1, <3>1, <1>same
  <2>3. CASE HdxDeaf \/ Drop
    <3>1. UNCHANGED <<wire, capq, g_malformed_frames>>
      BY <2>3, DropFacts DEF HdxDeaf, countVars
    <3> QED
      BY <2>1, <3>1, <1>same
  <2>4. CASE Forward
    BY <2>1, <2>4, <1>sent, ForwardFacts
  <2>5. CASE DelayFrame \/ QueueForPowerUp
    <3>1. UNCHANGED <<wire, capq, g_malformed_frames>>
      BY <2>5, EntryFacts
    <3> QED
      BY <2>1, <3>1, <1>same
  <2> QED
    BY <1>3, <2>2, <2>3, <2>4, <2>5 DEF Finish
<1>4. CASE SendDelayed
  <2> DEFINE m == [num |-> wmsg.num, frame |-> wmsg.frame]
  <2>1. m \in Msgs /\ wire' = Append(wire, m) /\ UNCHANGED <<mode, g_malformed_frames>>
    BY <1>4, SendFacts
  <2>2. capq' = capq \/ capq' = Append(capq, m)
    BY <1>4, SendFacts
  <2> HIDE DEF m
  <2> QED
    BY <2>1, <2>2, <1>sent
<1> QED
  BY <1>1, <1>2, <1>3, <1>4, NextCases

-----------------------------------------------------------------------------
(* Without a delay queue                                                   *)

LEMMA NoWorkerStep ==
  ASSUME Types, Numbers, NoWorker, [Next]_vars
  PROVE  NoWorker'
<1> DEFINE ordered(s) == \A i, j \in 1 .. Len(s) : i < j => s[i].num < s[j].num
<1>0. mode' = mode => HasWorker' = HasWorker
  BY DEF HasWorker
<1>same. ASSUME mode' = mode, wire' = wire, wpc = "none" => wpc' = "none",
                pc' = "hold" => pc = "hold" \/ HasWorker
         PROVE  NoWorker'
  BY <1>0, <1>same DEF NoWorker
<1>1. CASE HoldForPowerUp
  <2>1. mode' = mode /\ HasWorker
    BY <1>1 DEF HoldForPowerUp, FromHdx, HasWorker
  <2> QED
    BY <1>0, <2>1 DEF NoWorker
<1>2. CASE Still /\ ~HoldForPowerUp
  <2>1. pc' = "hold" => pc = "hold"
    BY <1>2 DEF Still, Tick, proxy_on_sigint, AfterSignal, TestStop, EnterPoll, PollSubscription,
       CountDelayed, MarkTransmission, mainVars, vars
  <2> QED
    BY <1>2, <2>1, <1>same, StillFacts
<1>3. CASE Publish \/ PollFrame \/ Capture
  BY <1>3, <1>same DEF Publish, PollFrame, Capture, workVars
<1>4. CASE Finish
  <2>1. /\ InHands /\ ~InHands' /\ cur \in Msgs /\ UNCHANGED <<mode, wpc>>
    BY <1>4, FinishFacts
  <2>2. CASE wire' = wire
    BY <2>1, <2>2, <1>same DEF InHands
  <2>3. CASE Forward
    <3>1. wire' = Append(wire, cur) /\ wire \in Seq(Msgs)
      BY <2>3, ForwardFacts DEF Types
    <3>2. /\ Len(wire') = Len(wire) + 1 /\ Len(wire) \in Nat /\ wire'[Len(wire) + 1] = cur
          /\ \A i \in 1 .. Len(wire) : wire'[i] = wire[i]
          /\ \A i \in 1 .. Len(wire') : i \in 1 .. Len(wire) \/ i = Len(wire) + 1
      BY <2>1, <3>1, AppendFacts
    <3>3. \A i \in 1 .. Len(wire) : wire[i].num < cur.num
      <4>1. Nums(wire) \subseteq 1 .. Done /\ Done \in Nat /\ Done < cur.num /\ cur.num \in Nat
        BY <2>1, NewestInHand DEF Numbers
      <4>2. \A n \in Nums(wire) : n < cur.num
        BY <4>1
      <4> QED
        BY <4>2 DEF Nums
    <3>4. ordered(wire) => ordered(wire')
      BY <3>2, <3>3
    <3>5. ~InHands' => pc' # "hold"
      BY DEF InHands
    <3> QED
      BY <1>0, <2>1, <3>4, <3>5 DEF NoWorker
  <2>4. ~Forward => wire' = wire
    BY <1>4, DropFacts, EntryFacts DEF Finish, RejectBig, HdxDeaf
  <2> QED
    BY <2>2, <2>3, <2>4
<1>5. CASE TakeDelayed \/ SendDelayed \/ PutBackDelayed
  <2>1. wpc # "none" /\ UNCHANGED <<mode, pc>>
    BY <1>5, TakeFacts, SendFacts, PutBackFacts
  <2>2. HasWorker
    BY <2>1 DEF NoWorker
  <2> QED
    BY <1>0, <2>1, <2>2 DEF NoWorker
<1> QED
  BY <1>1, <1>2, <1>3, <1>4, <1>5, NextCases

-----------------------------------------------------------------------------
(* Power-ups                                                               *)

LEMMA WaitingTypes ==
  ASSUME Types
  PROVE  /\ now \in Nat /\ now # 0 /\ hdx_last_tx_ms \in Nat /\ hdx_powerup_start_ms \in Nat
         /\ PowerUp \in Nat /\ g_delay_drops \in Nat
         /\ \A e \in Waiting : e.held \in Nat /\ e.due \in Nat /\ e.hdx \in BOOLEAN
<1>1. delayq \in Seq(Delayed) /\ (wpc = "look" => wmsg \in Delayed)
  BY DEF Types
<1>2. \A e \in Waiting : e \in Delayed
  BY <1>1 DEF Waiting, Items
<1>3. \A e \in Waiting : e.held \in Nat /\ e.due \in Nat /\ e.hdx \in BOOLEAN
  BY <1>2 DEF Delayed
<1> QED
  BY <1>3, Constants DEF Types

\* What the steps that concern no power-up leave as it is.
Unpowered ==
  /\ \A e \in Waiting' : e.hdx => e \in Waiting
  /\ Lossless' => Lossless /\ \A e \in Waiting : e.hdx => e \in Waiting'
  /\ now <= now' /\ hdx_last_tx_ms <= hdx_last_tx_ms' /\ hdx_last_tx_ms' <= now'
  /\ hdx_powerup_start_ms' = hdx_powerup_start_ms
  /\ wpc = "mark" => wpc' = "mark"
  /\ pc' = "hold" => pc = "hold"
  /\ pc = "hold" => pc' = "hold" /\ now' = now /\ hdx_last_tx_ms' = hdx_last_tx_ms

LEMMA UnpoweredKeeps ==
  ASSUME Types, PowerUps, Types', Unpowered
  PROVE  PowerUps'
<1>0. /\ now \in Nat /\ hdx_last_tx_ms \in Nat /\ hdx_powerup_start_ms \in Nat
      /\ \A e \in Waiting : e.held \in Nat /\ e.due \in Nat /\ e.hdx \in BOOLEAN
  BY WaitingTypes
<1>1. now' \in Nat /\ hdx_last_tx_ms' \in Nat
  BY Constants DEF Types
<1>2. \A e \in Waiting' : e.hdx => e.held <= now'
  BY <1>0, <1>1 DEF Unpowered, PowerUps
<1>3. pc' = "hold" /\ hdx_powerup_start_ms' = 0 => hdx_last_tx_ms' = now'
  BY DEF Unpowered, PowerUps
<1>4. Lossless' /\ hdx_powerup_start_ms' # 0 => Started'
  <2> SUFFICES ASSUME Lossless', hdx_powerup_start_ms' # 0 PROVE Started'
    OBVIOUS
  <2>1. Started
    BY DEF Unpowered, PowerUps
  <2> QED
    BY <2>1 DEF Unpowered, Started
<1>5. Lossless' => \A e \in Waiting' : e.hdx => Covered(e)'
  <2> SUFFICES ASSUME Lossless', NEW e \in Waiting', e.hdx
               PROVE  Covered(e)'
    OBVIOUS
  <2>1. e \in Waiting /\ Covered(e)
    BY DEF Unpowered, PowerUps
  <2>2. CASE \E f \in Waiting : f.hdx /\ f.held + PowerUp <= e.due
    BY <2>2 DEF Unpowered, Covered
  <2>3. CASE e.held <= hdx_last_tx_ms
    <3>1. e.held <= hdx_last_tx_ms'
      BY <1>0, <1>1, <2>1, <2>3 DEF Unpowered
    <3> QED
      BY <3>1 DEF Covered
  <2>4. CASE wpc = "mark"
    BY <2>4 DEF Unpowered, Covered
  <2> QED
    BY <2>1, <2>2, <2>3, <2>4 DEF Covered
<1> QED
  BY <1>2, <1>3, <1>4, <1>5 DEF Unpowered, PowerUps

LEMMA UnpoweredLoop ==
  ASSUME Types, PowerUps,
         \/ Tick \/ proxy_on_sigint \/ TestStop \/ EnterPoll \/ PollSubscription \/ Publish
         \/ PollFrame \/ Capture \/ CountDelayed \/ UNCHANGED vars
         \/ RejectBig \/ HdxDeaf
  PROVE  Unpowered
<1> USE DEF mainVars, sockVars, countVars, hdxVars, workVars
<1>0. /\ now \in Nat /\ hdx_last_tx_ms \in Nat /\ hdx_last_tx_ms <= now
  BY WaitingTypes DEF PowerUps
<1>1. UNCHANGED <<delayq, wmsg, hdxVars, g_delay_drops, refused>>
  BY DEF Tick, proxy_on_sigint, TestStop, EnterPoll, PollSubscription, Publish, PollFrame, Capture,
     CountDelayed, RejectBig, HdxDeaf, vars
<1>2. (wpc' = "look") = (wpc = "look") /\ (wpc = "mark" => wpc' = "mark")
  BY DEF Tick, proxy_on_sigint, TestStop, EnterPoll, PollSubscription, Publish, PollFrame, Capture,
     CountDelayed, RejectBig, HdxDeaf, vars
<1>3. (pc' = "hold" => pc = "hold") /\ (pc = "hold" => pc' = "hold" /\ now' = now)
  BY DEF Tick, proxy_on_sigint, AfterSignal, TestStop, EnterPoll, PollSubscription, Publish,
     PollFrame, Capture, CountDelayed, RejectBig, HdxDeaf, vars
<1>4. now' = now \/ now' = now + 1
  BY DEF Tick, proxy_on_sigint, TestStop, EnterPoll, PollSubscription, Publish, PollFrame, Capture,
     CountDelayed, RejectBig, HdxDeaf, vars
<1>5. Waiting' = Waiting /\ Lossless' = Lossless
  BY <1>1, <1>2 DEF Waiting, Lossless
<1>6. now <= now' /\ hdx_last_tx_ms' = hdx_last_tx_ms /\ hdx_last_tx_ms' <= now'
  BY <1>0, <1>1, <1>4
<1> QED
  BY <1>0, <1>1, <1>2, <1>3, <1>5, <1>6 DEF Unpowered

LEMMA UnpoweredJudged ==
  ASSUME Types, PowerUps, Forward \/ Drop \/ DelayFrame
  PROVE  Unpowered
<1>0. /\ now \in Nat /\ hdx_last_tx_ms \in Nat /\ hdx_last_tx_ms <= now /\ g_delay_drops \in Nat
  BY WaitingTypes DEF PowerUps
<1>1. pc = "got" /\ pc' \in {"side", "test"}
  BY DEF Forward, Drop, DelayFrame
<1>2. PICK d \in Decisions : Judged(d)
  BY DEF Forward, Drop, DelayFrame
<1>3. UNCHANGED <<now, wpc, wmsg, refused, hdx_powerup_start_ms>>
  BY <1>1, <1>2, JudgedFacts
<1>4. hdx_last_tx_ms' = now \/ hdx_last_tx_ms' = hdx_last_tx_ms
  BY <1>2 DEF Judged, NoteTransmission
<1>5. hdx_last_tx_ms <= hdx_last_tx_ms' /\ hdx_last_tx_ms' <= now'
  BY <1>0, <1>3, <1>4
<1>6. CASE Forward \/ Drop
  <2>1. UNCHANGED <<delayq, g_delay_drops>>
    BY <1>6, ForwardFacts, DropFacts
  <2>2. Waiting' = Waiting /\ Lossless' = Lossless
    BY <1>3, <2>1 DEF Waiting, Lossless
  <2> QED
    BY <1>0, <1>1, <1>3, <1>5, <2>2 DEF Unpowered
<1>7. CASE DelayFrame
  <2> DEFINE e == DelayEntry
  <2>1. e \in Delayed /\ e.hdx = FALSE /\ Queued(e) /\ delayq \in Seq(Delayed)
    BY <1>7, DelayFacts DEF Types
  <2> HIDE DEF e
  <2>2. Items(Append(delayq, e)) = Items(delayq) \cup {e}
    BY <2>1, ItemsAppend
  <2>3. CASE delayq' = Append(delayq, e) /\ g_delay_drops' = g_delay_drops
    <3>1. Waiting' = Waiting \cup {e} /\ Lossless' = Lossless
      BY <1>3, <2>2, <2>3 DEF Waiting, Lossless
    <3> QED
      BY <1>0, <1>1, <1>3, <1>5, <2>1, <3>1 DEF Unpowered
  <2>4. CASE delayq' = delayq /\ g_delay_drops' = g_delay_drops + 1
    <3>1. Waiting' = Waiting /\ ~Lossless'
      BY <1>0, <1>3, <2>4 DEF Waiting, Lossless
    <3> QED
      BY <1>0, <1>1, <1>3, <1>5, <3>1 DEF Unpowered
  <2> QED
    BY <2>1, <2>3, <2>4 DEF Queued
<1> QED
  BY <1>6, <1>7

LEMMA UnpoweredWorker ==
  ASSUME Types, PowerUps, TakeDelayed \/ (SendDelayed /\ ~wmsg.hdx) \/ PutBackDelayed
  PROVE  Unpowered
<1>0. /\ now \in Nat /\ hdx_last_tx_ms \in Nat /\ hdx_last_tx_ms <= now
  BY WaitingTypes DEF PowerUps
<1>1. UNCHANGED <<now, pc, hdxVars, g_delay_drops>>
  BY TakeFacts, SendFacts, PutBackFacts
<1>2. /\ now' = now /\ hdx_last_tx_ms' = hdx_last_tx_ms
      /\ hdx_powerup_start_ms' = hdx_powerup_start_ms
  BY <1>1 DEF hdxVars
<1>3. delayq \in Seq(Delayed)
  BY DEF Types
<1>4. CASE TakeDelayed
  <2>1. /\ delayq # <<>> /\ delayq' = Tail(delayq) /\ wmsg' = Head(delayq)
        /\ wpc = "take" /\ wpc' = "look" /\ refused' = refused
    BY <1>4, TakeFacts
  <2>2. Items(delayq) = Items(Tail(delayq)) \cup {Head(delayq)}
    BY <1>3, <2>1, ItemsTail
  <2>3. Waiting' = Waiting /\ Lossless' = Lossless
    BY <1>1, <2>1, <2>2 DEF Waiting, Lossless
  <2> QED
    BY <1>0, <1>1, <1>2, <2>1, <2>3 DEF Unpowered
<1>5. CASE SendDelayed /\ ~wmsg.hdx
  <2>1. wpc = "look" /\ wpc' # "look" /\ delayq' = delayq /\ refused' = refused
    BY <1>5, SendFacts
  <2>2. Waiting = Waiting' \cup {wmsg} /\ Lossless' = Lossless
    BY <1>1, <2>1 DEF Waiting, Lossless
  <2> QED
    BY <1>0, <1>1, <1>2, <1>5, <2>1, <2>2 DEF Unpowered
<1>6. CASE PutBackDelayed
  <2>1. /\ wmsg \in Delayed /\ wpc = "look" /\ wpc' = "take"
        /\ \/ delayq' = Append(delayq, wmsg) /\ refused' = refused
           \/ delayq' = delayq /\ refused' = refused \cup {wmsg.num}
    BY <1>6, PutBackFacts
  <2>2. Items(Append(delayq, wmsg)) = Items(delayq) \cup {wmsg}
    BY <1>3, <2>1, ItemsAppend
  <2>3. CASE delayq' = Append(delayq, wmsg) /\ refused' = refused
    <3>1. Waiting' = Waiting /\ Lossless' = Lossless
      BY <1>1, <2>1, <2>2, <2>3 DEF Waiting, Lossless
    <3> QED
      BY <1>0, <1>1, <1>2, <2>1, <3>1 DEF Unpowered
  <2>4. CASE delayq' = delayq /\ refused' = refused \cup {wmsg.num}
    <3>1. Waiting' \subseteq Waiting /\ ~Lossless'
      BY <1>1, <2>1, <2>4 DEF Waiting, Lossless
    <3> QED
      BY <1>0, <1>1, <1>2, <2>1, <3>1 DEF Unpowered
  <2> QED
    BY <2>1, <2>3, <2>4
<1> QED
  BY <1>4, <1>5, <1>6

LEMMA PowerUpsHold ==
  ASSUME Types, PowerUps, HoldForPowerUp
  PROVE  PowerUps'
<1>0. now \in Nat /\ now # 0
  BY WaitingTypes
<1>1. /\ pc = "got" /\ pc' = "hold" /\ hdx_powerup_start_ms' = PowerUpStart
      /\ UNCHANGED <<now, hdx_last_tx_ms, delayq, wpc, wmsg, g_delay_drops, refused>>
  BY DEF HoldForPowerUp, countVars, workVars
<1>2. Waiting' = Waiting /\ Lossless' = Lossless
  BY <1>1 DEF Waiting, Lossless
<1>3. hdx_powerup_start_ms' # 0
  BY <1>0, <1>1 DEF PowerUpStart
<1>4. Lossless => Started'
  <2>1. CASE hdx_powerup_start_ms = 0
    BY <1>1, <2>1 DEF PowerUpStart, Started
  <2>2. CASE hdx_powerup_start_ms # 0
    BY <1>1, <1>2, <2>2 DEF PowerUpStart, Started, PowerUps
  <2> QED
    BY <2>1, <2>2
<1>5. \A e : Covered(e)' = Covered(e)
  BY <1>1, <1>2 DEF Covered
<1> QED
  BY <1>1, <1>2, <1>3, <1>4, <1>5 DEF PowerUps

LEMMA PowerUpsQueue ==
  ASSUME Types, PowerUps, QueueForPowerUp
  PROVE  PowerUps'
<1>0. /\ now \in Nat /\ hdx_last_tx_ms \in Nat /\ hdx_powerup_start_ms \in Nat /\ PowerUp \in Nat
      /\ g_delay_drops \in Nat /\ delayq \in Seq(Delayed)
      /\ \A e \in Waiting : e.held \in Nat /\ e.due \in Nat
  BY WaitingTypes DEF Types
<1>1. PICK x \in Delayed :
        /\ Queued(x) /\ x.held = now
        /\ x.hdx = TRUE /\ x.due = hdx_powerup_start_ms + PowerUp /\ pc = "hold"
        /\ UNCHANGED <<hdxVars, wpc, wmsg>>
  BY HeldFacts
<1>2. pc' # "hold" /\ now' = now /\ refused' = refused
      /\ hdx_last_tx_ms' = hdx_last_tx_ms /\ hdx_powerup_start_ms' = hdx_powerup_start_ms
  BY DEF QueueForPowerUp, hdxVars
<1>3. Items(Append(delayq, x)) = Items(delayq) \cup {x}
  BY <1>0, <1>1, ItemsAppend
<1>4. CASE delayq' = delayq /\ g_delay_drops' = g_delay_drops + 1
  <2>1. Waiting' = Waiting /\ ~Lossless'
    BY <1>0, <1>1, <1>4 DEF Waiting, Lossless
  <2> QED
    BY <1>2, <2>1 DEF PowerUps
<1>5. CASE delayq' = Append(delayq, x) /\ g_delay_drops' = g_delay_drops
  <2>1. Waiting' = Waiting \cup {x} /\ Lossless' = Lossless
    BY <1>1, <1>2, <1>3, <1>5 DEF Waiting, Lossless
  <2>2. \A e \in Waiting' : e.hdx => e.held <= now'
    BY <1>0, <1>1, <1>2, <2>1 DEF PowerUps
  <2>3. Lossless' /\ hdx_powerup_start_ms' # 0 => Started'
    <3> SUFFICES ASSUME Lossless, hdx_powerup_start_ms # 0 PROVE Started'
      BY <1>2, <2>1
    <3>1. Started
      BY DEF PowerUps
    <3>2. CASE hdx_powerup_start_ms = now
      <4>1. x \in Waiting' /\ x.hdx /\ x.held <= hdx_powerup_start_ms'
        BY <1>0, <1>1, <1>2, <2>1, <3>2
      <4> QED
        BY <4>1 DEF Started
    <3> QED
      BY <1>1, <1>2, <2>1, <3>1, <3>2 DEF Started
  <2>4. \A e \in Waiting : Covered(e) => Covered(e)'
    BY <1>1, <1>2, <2>1 DEF Covered
  <2>5. Lossless => Covered(x)'
    <3> SUFFICES ASSUME Lossless PROVE Covered(x)'
      OBVIOUS
    <3>1. CASE hdx_powerup_start_ms = 0
      <4>1. x.held <= hdx_last_tx_ms'
        BY <1>0, <1>1, <1>2, <3>1 DEF PowerUps
      <4> QED
        BY <4>1 DEF Covered
    <3>2. CASE hdx_powerup_start_ms # 0
      <4>1. Started
        BY <3>2 DEF PowerUps
      <4>2. CASE wpc = "mark"
        BY <1>1, <4>2 DEF Covered
      <4>3. CASE hdx_powerup_start_ms = now
        <5>1. x \in Waiting' /\ x.hdx /\ x.held + PowerUp <= x.due
          BY <1>0, <1>1, <2>1, <4>3
        <5> QED
          BY <5>1 DEF Covered
      <4>4. CASE \E f \in Waiting : f.hdx /\ f.held <= hdx_powerup_start_ms
        <5>1. PICK f \in Waiting : f.hdx /\ f.held <= hdx_powerup_start_ms
          BY <4>4
        <5>2. f \in Waiting' /\ f.held + PowerUp <= x.due
          BY <1>0, <1>1, <2>1, <5>1
        <5> QED
          BY <5>1, <5>2 DEF Covered
      <4> QED
        BY <4>1, <4>2, <4>3, <4>4 DEF Started
    <3> QED
      BY <3>1, <3>2
  <2>6. Lossless' => \A e \in Waiting' : e.hdx => Covered(e)'
    BY <2>1, <2>4, <2>5 DEF PowerUps
  <2> QED
    BY <1>2, <2>2, <2>3, <2>6 DEF PowerUps
<1> QED
  BY <1>1, <1>4, <1>5 DEF Queued

LEMMA PowerUpsSend ==
  ASSUME Types, PowerUps, (SendDelayed /\ wmsg.hdx) \/ MarkTransmission
  PROVE  PowerUps'
<1>0. now \in Nat
  BY WaitingTypes
<1>1. CASE SendDelayed /\ wmsg.hdx
  <2>1. /\ wpc = "look" /\ wpc' = "mark" /\ UNCHANGED <<delayq, now, pc, hdxVars>>
    BY <1>1, SendFacts DEF SendDelayed
  <2>2. Waiting' \subseteq Waiting
    BY <2>1 DEF Waiting
  <2> QED
    BY <2>1, <2>2 DEF PowerUps, Started, Covered, hdxVars
<1>2. CASE MarkTransmission
  <2>1. /\ hdx_last_tx_ms' = now /\ hdx_powerup_start_ms' = 0 /\ wpc = "mark" /\ wpc' = "count"
        /\ UNCHANGED <<now, pc, delayq, wmsg>>
    BY <1>2 DEF MarkTransmission, mainVars
  <2>2. Waiting' = Waiting
    BY <2>1 DEF Waiting
  <2>3. \A e \in Waiting : e.hdx => Covered(e)'
    BY <2>1 DEF PowerUps, Covered
  <2> QED
    BY <1>0, <2>1, <2>2, <2>3 DEF PowerUps
<1> QED
  BY <1>1, <1>2

LEMMA PowerUpsStep ==
  ASSUME Types, PowerUps, [Next]_vars
  PROVE  PowerUps'
<1>1. \/ Tick \/ proxy_on_sigint \/ TestStop \/ EnterPoll \/ PollSubscription \/ Publish
      \/ PollFrame \/ Capture \/ CountDelayed \/ UNCHANGED vars
      \/ RejectBig \/ HdxDeaf
      \/ Forward \/ Drop \/ DelayFrame
      \/ TakeDelayed \/ (SendDelayed /\ ~wmsg.hdx) \/ PutBackDelayed
      \/ HoldForPowerUp \/ QueueForPowerUp \/ (SendDelayed /\ wmsg.hdx) \/ MarkTransmission
  BY DEF Next, Main, task_delay_send
<1>2. Types'
  BY TypesStep
<1> QED
  BY <1>1, <1>2, UnpoweredLoop, UnpoweredJudged, UnpoweredWorker, UnpoweredKeeps, PowerUpsHold,
     PowerUpsQueue, PowerUpsSend

-----------------------------------------------------------------------------
(* The invariant holds, and the properties follow from it                  *)

LEMMA InitInv ==
  ASSUME Init
  PROVE  Inv
<1> USE DEF Init
<1>1. /\ <<>> \in Seq(Msgs) /\ <<>> \in Seq(Delayed)
      /\ <<>> \in Seq([num : Nat, dropped : BOOLEAN])
      /\ Len(<<>>) = 0 /\ 1 .. Len(<<>>) = {} /\ Nums(<<>>) = {} /\ Items(<<>>) = {}
      /\ IsFiniteSet({}) /\ Cardinality({}) = 0
  BY EmptyFacts, NumsEmpty, FS_EmptySet
<1>2. cur = None /\ cur.num = 0 /\ wmsg = None /\ wmsg.num = 0 /\ ~InHands /\ wpc # "look"
      /\ wpc # "mark"
  BY DEF None, InHands
<1>3. Types
  <2>1. now \in 0 .. MaxTime /\ now # 0
    BY Constants
  <2>2. 0 \in 0 .. MaxFrames /\ 0 \in 0 .. MaxTime /\ 0 \in 0 .. QueueLen /\ 0 <= QueueLen
    BY Constants
  <2>3. wpc \in {"none", "count", "take", "look", "mark"}
    OBVIOUS
  <2>4. /\ inbox \in Seq(Msgs) /\ wire \in Seq(Msgs) /\ capq \in Seq(Msgs)
        /\ delayq \in Seq(Delayed) /\ Len(delayq) <= QueueLen /\ wleft <= Len(delayq)
        /\ drop_log \in Seq([num : Nat, dropped : BOOLEAN])
    BY <1>1, <2>2
  <2>5. /\ mode \in Accepted /\ packet \in mode.frames
        /\ subs \in BOOLEAN /\ subscribed \in BOOLEAN /\ g_stop \in BOOLEAN
        /\ arrived \in 0 .. MaxFrames
        /\ hdx_powerup_start_ms \in 0 .. MaxTime /\ hdx_last_tx_ms \in 0 .. MaxTime
        /\ wleft \in 0 .. QueueLen
        /\ pc \in {"test", "enter", "poll", "blind", "got", "hold", "side", "exit"}
        /\ g_kept \in Nat /\ g_drops \in Nat /\ g_delay_drops \in Nat
        /\ g_malformed_frames \in Nat /\ deaf \in SUBSET Nat /\ refused \in SUBSET Nat
    BY <2>2
  <2> QED
    BY <1>2, <2>1, <2>3, <2>4, <2>5 DEF Types
<1>4. Numbers
  <2>1. Taken = 0 /\ Done = 0
    <3>1. arrived = 0 /\ Len(inbox) = 0
      BY <1>1
    <3> HIDE DEF Init
    <3>2. Taken = 0
      BY <3>1 DEF Taken
    <3> QED
      BY <1>2, <3>2 DEF Done
  <2> QED
    BY <1>1, <1>2, <2>1 DEF Numbers
<1>5. Places
  BY <1>1, <1>2 DEF Places, Distinct
<1>6. InHand = {} /\ Out = {}
  BY <1>1, <1>2 DEF InHand, Out
<1>7. Accounted
  <2>1. Rejected = 0
    BY DEF Rejected
  <2> QED
    BY <1>1, <1>6, <2>1 DEF Accounted
<1>8. LogAgrees
  <2>1. LogSays(TRUE) = {} /\ LogSays(FALSE) = {}
    BY <1>1 DEF LogSays
  <2>2. LogSays(TRUE) \cap Out = {} /\ LogSays(FALSE) \ Out = {}
    BY <2>1
  <2>3. g_delay_drops = 0 /\ Cardinality(refused) = 0
    BY <1>1
  <2>4. Cardinality(LogSays(FALSE) \ Out) <= g_delay_drops + Cardinality(refused)
    <3> HIDE DEF Init
    <3>1. Cardinality(LogSays(FALSE) \ Out) = 0
      BY <1>1, <2>2
    <3> QED
      BY <2>3, <3>1
  <2> QED
    BY <2>2, <2>4 DEF LogAgrees
<1>9. Waiting = {} /\ Held = {}
  BY <1>1, <1>2 DEF Waiting, Held
<1>10. SmallOnly
  BY <1>1, <1>9 DEF SmallOnly
<1>11. CapturedOnce
  <2>1. BigIn(<<>>) = 0
    BY <1>1 DEF BigIn
  <2> QED
    BY <2>1 DEF CapturedOnce
<1>12. NoWorker
  BY <1>1 DEF NoWorker
<1>13. PowerUps
  <2>1. hdx_last_tx_ms <= now
    BY Constants
  <2> QED
    BY <1>9, <2>1 DEF PowerUps
<1> QED
  BY <1>3, <1>4, <1>5, <1>7, <1>8, <1>10, <1>11, <1>12, <1>13 DEF Inv

LEMMA StepInv ==
  ASSUME Inv, [Next]_vars
  PROVE  Inv'
<1>1. /\ Types /\ Numbers /\ Places /\ Accounted /\ LogAgrees /\ SmallOnly /\ CapturedOnce
      /\ NoWorker /\ PowerUps
  BY DEF Inv
<1>2. Types' /\ Numbers' /\ Places'
  BY <1>1, TypesStep, NumbersStep, PlacesStep
<1>3. Accounted' /\ LogAgrees'
  BY <1>1, AccountedStep, LogStep
<1>4. SmallOnly' /\ CapturedOnce' /\ NoWorker' /\ PowerUps'
  BY <1>1, SmallOnlyStep, CapturedOnceStep, NoWorkerStep, PowerUpsStep
<1> QED
  BY <1>2, <1>3, <1>4 DEF Inv

LEMMA AlwaysInv == Spec => []Inv
<1>1. Init => Inv
  BY InitInv
<1>2. Inv /\ [Next]_vars => Inv'
  BY StepInv
<1> QED
  BY <1>1, <1>2, PTL DEF Spec

LEMMA TypeOKFromInv ==
  ASSUME Types, Numbers
  PROVE  TypeOK
<1>0. arrived \in Nat /\ Len(inbox) \in Nat /\ Done \in Nat /\ MaxTime \in Nat /\ QueueLen \in Nat
  BY Constants DEF Types, Numbers
<1>1. Taken \in Int /\ Done <= Taken /\ Taken = arrived - Len(inbox)
  BY <1>0 DEF Taken, Done
<1>2. \A n \in 1 .. Done : n \in 1 .. arrived
  BY <1>0, <1>1
<1>3. \A i \in 1 .. Len(inbox) : inbox[i].num \in 1 .. arrived
  <2> TAKE i \in 1 .. Len(inbox)
  <2>1. inbox[i].num = Taken + i
    BY DEF Numbers
  <2>2. 1 <= Taken + i /\ Taken + i <= arrived /\ Taken + i \in Int
    BY <1>0, <1>1
  <2> QED
    BY <1>0, <2>1, <2>2
<1>4. \A i \in 1 .. Len(wire) : wire[i].num \in 1 .. arrived
  BY <1>2 DEF Numbers, Nums
<1>5. \A i \in 1 .. Len(capq) : capq[i].num \in 1 .. arrived
  <2>1. Nums(capq) \subseteq 1 .. Done
    BY DEF Numbers
  <2> QED
    BY <1>2, <2>1 DEF Nums
<1>6. \A s \in {inbox, wire, capq} : \A i \in 1 .. Len(s) : s[i].frame \in mode.frames
  <2>1. \A s \in {inbox, wire, capq} : s \in Seq(Msgs)
    BY DEF Types
  <2>2. \A s \in {inbox, wire, capq} : \A i \in 1 .. Len(s) : s[i] \in Msgs
    BY <2>1
  <2> QED
    BY <2>2 DEF Msgs
<1>7. cur # None <=> pc \in {"got", "hold"}
  <2>1. InHands => cur.num # 0
    BY NewestInHand
  <2> QED
    BY <2>1 DEF Types, InHands, None
<1>8. wmsg # None <=> wpc = "look"
  <2>1. wpc = "look" => wmsg.num # 0
    BY <1>0 DEF Numbers
  <2> QED
    BY <2>1 DEF Types, None
<1> QED
  BY <1>3, <1>4, <1>5, <1>6, <1>7, <1>8 DEF TypeOK, Types

LEMMA LogFromInv ==
  ASSUME LogAgrees, NoWorker
  PROVE  LogAgainstWire
  BY DEF LogAgrees, NoWorker, LogAgainstWire, Out

LEMMA MalformedFromInv ==
  ASSUME Types, SmallOnly, CapturedOnce
  PROVE  MalformedOnce
<1> DEFINE big == {i \in 1 .. Len(wire) : wire[i].frame.size = "big"}
<1>1. mode.hdx \/ Matching => big = {}
  BY DEF SmallOnly, Parses, Items, IsBig
<1>2. ~mode.hdx /\ ~Matching => g_malformed_frames <= Cardinality(big)
  <2>1. BigIn(capq) \in Nat /\ BigIn(wire) \in Nat /\ g_malformed_frames \in Nat
    BY BigAtFinite DEF Types
  <2>2. BigIn(wire) = Cardinality(big)
    BY DEF BigIn, IsBig
  <2>3. ~mode.hdx /\ ~Matching => g_malformed_frames + BigIn(capq) <= BigIn(wire)
    BY DEF CapturedOnce, Parses
  <2> HIDE DEF big
  <2> QED
    BY <2>1, <2>2, <2>3
<1> QED
  BY <1>1, <1>2 DEF MalformedOnce

LEMMA PowerUpStep ==
  ASSUME Inv, [Next]_vars, wpc = "look", wpc' = "mark", ~Warm, g_delay_drops = 0, refused = {}
  PROVE  \E e \in {wmsg} \cup {delayq[i] : i \in 1 .. Len(delayq)} :
           e.hdx /\ now > e.held + PowerUp
<1>1. Types /\ PowerUps
  BY DEF Inv
<1>2. Waiting = {wmsg} \cup {delayq[i] : i \in 1 .. Len(delayq)}
  BY DEF Waiting, Items
<1>3. SendDelayed /\ wmsg.hdx
  <2>1. ~Still
    BY StillFacts, <1>1 DEF Still
  <2>2. ~Publish /\ ~PollFrame /\ ~Capture
    BY DEF Publish, PollFrame, Capture, workVars
  <2>3. ~Finish /\ ~TakeDelayed /\ ~PutBackDelayed
    BY <1>1, FinishFacts, TakeFacts, PutBackFacts
  <2>4. SendDelayed
    BY <2>1, <2>2, <2>3, NextCases
  <2> QED
    BY <2>4 DEF SendDelayed
<1>4. now > wmsg.due
  BY <1>3 DEF SendDelayed
<1>5. /\ now \in Nat /\ hdx_last_tx_ms \in Nat /\ PowerUp \in Nat
      /\ \A e \in Waiting : e.held \in Nat /\ e.due \in Nat
  BY <1>1, WaitingTypes
<1>6. wmsg \in Waiting /\ Covered(wmsg)
  BY <1>1, <1>2, <1>3 DEF PowerUps, Lossless
<1>7. \E e \in Waiting : e.hdx /\ now > e.held + PowerUp
  <2>1. CASE \E f \in Waiting : f.hdx /\ f.held + PowerUp <= wmsg.due
    <3>1. PICK f \in Waiting : f.hdx /\ f.held + PowerUp <= wmsg.due
      BY <2>1
    <3>2. now > f.held + PowerUp
      BY <1>4, <1>5, <1>6, <3>1
    <3> QED
      BY <3>1, <3>2
  <2>2. CASE wmsg.held <= hdx_last_tx_ms
    <3>1. now > hdx_last_tx_ms + PowerDown /\ PowerUp <= PowerDown /\ PowerDown \in Nat
      BY <1>5, Constants DEF Warm
    <3>2. now > wmsg.held + PowerUp
      BY <1>5, <1>6, <2>2, <3>1
    <3> QED
      BY <1>3, <1>6, <3>2
  <2> QED
    BY <1>6, <2>1, <2>2 DEF Covered
<1> QED
  BY <1>2, <1>7

\* Type correctness of the proxy: in particular the delay queue never holds more than
\* it has room for, and its thread never takes from an empty one.
THEOREM TypesHold == Spec => []TypeOK
<1>1. Inv => TypeOK
  BY TypeOKFromInv DEF Inv
<1> QED
  BY <1>1, AlwaysInv, PTL

\* No frame is lost, doubled or counted twice between the loop and the thread that
\* share the delay queue: arrivals are accounted for by what is sent, held or dropped.
THEOREM OnePlaceHolds == Spec => []FrameInOnePlace
<1>1. Inv => FrameInOnePlace
  BY OnePlace DEF Inv
<1> QED
  BY <1>1, AlwaysInv, PTL

\* What the drop log calls dropped is never sent; what it calls kept is sent or still
\* held, but for as many frames as a full delay queue cost.
THEOREM LogHolds == Spec => []LogAgainstWire
<1>1. Inv => LogAgainstWire
  BY LogFromInv DEF Inv
<1> QED
  BY <1>1, AlwaysInv, PTL

\* The loop and the capture thread, which share g_malformed_frames, count no frame
\* twice, and none that does not fit the buffer passes where frames are parsed.
THEOREM MalformedHolds == Spec => []MalformedOnce
<1>1. Inv => MalformedOnce
  BY MalformedFromInv DEF Inv
<1> QED
  BY <1>1, AlwaysInv, PTL

\* The thread sends a frame of the half-duplex node with the transmitter on, or after
\* a full power-up, though it and the loop share two time stamps without a lock.
THEOREM PowerUpHolds == Spec => PowerUpRespected
<1> DEFINE respected ==
      Len(wire') > Len(wire) /\ wpc = "look" /\ wpc' = "mark" /\ ~Warm
      /\ g_delay_drops = 0 /\ refused = {}
      => \E e \in {wmsg} \cup {delayq[i] : i \in 1 .. Len(delayq)} :
           e.hdx /\ now > e.held + PowerUp
<1>1. Inv /\ [Next]_vars => [respected]_vars
  BY PowerUpStep
<1>2. PowerUpRespected <=> [][respected]_vars
  BY DEF PowerUpRespected
<1> HIDE DEF respected
<1> QED
  BY <1>1, <1>2, AlwaysInv, PTL DEF Spec
=============================================================================

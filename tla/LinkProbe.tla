----------------------------- MODULE LinkProbe -----------------------------
(***************************************************************************)
(* csp_link test, apm/csp_link_apm.c: probes are sent one at a time, and   *)
(* the far end's interface counters, read before and after, tell in which  *)
(* direction the lost ones died.                                           *)
(*                                                                         *)
(* The far counters are 32 bits wide (ModProbe here).  An exchange with    *)
(* the far end is one step: the query dies on the way up, or it arrives    *)
(* and its reply, if one is sent, dies on the way down, or all is well; a  *)
(* reply after the time-out counts as dead.  Round-trip times are left     *)
(* out.                                                                    *)
(***************************************************************************)
EXTENDS Integers, Sequences, FiniteSets

CONSTANTS
  ModProbe,       \* 2^32
  FarStarts,      \* values of the far counters when the command starts
  Counts,         \* values of -c
  LinkMaxProbes,  \* LINK_MAX_PROBES
  LinkSnapTries,  \* LINK_SNAP_TRIES
  MaxCross        \* bound: packets of others that the far interface counts meanwhile

ASSUME ProbeAssumption ==
  /\ ModProbe \in Nat \ {0} /\ LinkSnapTries \in Nat \ {0}
  /\ Counts \subseteq Nat /\ LinkMaxProbes \in Nat /\ MaxCross \in Nat
  /\ FarStarts \subseteq [tx : 0 .. ModProbe - 1, rx : 0 .. ModProbe - 1]
  /\ \A c \in Counts : c + LinkSnapTries + MaxCross < ModProbe

VARIABLES
  lpc,            \* the step csp_link_test_cmd is at
  count,          \* -c
  want_dir,       \* -I was given, and the first snapshot came back
  before, after,  \* the snapshots
  outcomes,       \* of the probes so far; ok and lost are its counts
  run, worst_run,
  farCount,       \* the far interface's counters
  cross,          \* packets of others it has counted since the first snapshot
  rebooted        \* its counters have been cleared since

linkVars == <<lpc, count, want_dir, before, after, outcomes, run, worst_run, farCount, cross, rebooted>>

NoSnap == [tx |-> 0, rx |-> 0, attempts |-> 0, ok |-> FALSE]

LinkInit ==
  /\ lpc = "idle" /\ count = 0 /\ want_dir = FALSE
  /\ before = NoSnap /\ after = NoSnap
  /\ outcomes = <<>> /\ run = 0 /\ worst_run = 0
  /\ farCount = [tx |-> 0, rx |-> 0]
  /\ cross = 0 /\ rebooted = FALSE

Fates == {"up", "unanswered", "down", "ok"}

Arrives(fate)  == IF fate = "up" THEN 0 ELSE 1
Answered(fate) == IF fate \in {"down", "ok"} THEN 1 ELSE 0

\* The far end counts a query that arrives and, after sending it, its reply.
FarAfter(fate) == [tx |-> (farCount.tx + Answered(fate)) % ModProbe,
                   rx |-> (farCount.rx + Arrives(fate)) % ModProbe]

LinkStart ==
  /\ lpc = "idle"
  /\ count' \in {c \in Counts : c # 0 /\ c <= LinkMaxProbes}
  /\ want_dir' \in BOOLEAN
  /\ farCount' \in FarStarts
  /\ lpc' = IF want_dir' THEN "before" ELSE "probe"
  /\ UNCHANGED <<before, after, outcomes, run, worst_run, cross, rebooted>>

\* Faulty variant: a try that fails is not counted.
link_snap_uncounted(s, fate) ==
  IF fate = "ok"
  THEN [tx |-> farCount.tx, rx |-> (farCount.rx + 1) % ModProbe, attempts |-> s.attempts + 1, ok |-> TRUE]
  ELSE s

\* One try of link_snap.  The reply holds rx with the query in it and tx without
\* the reply.
link_snap(s, fate) ==
  IF fate = "ok"
  THEN [tx |-> farCount.tx, rx |-> (farCount.rx + 1) % ModProbe, attempts |-> s.attempts + 1, ok |-> TRUE]
  ELSE [s EXCEPT !.attempts = s.attempts + 1]

\* Faulty variant: one try too many.
TriedOnceMore(s) == s.ok \/ s.attempts > LinkSnapTries

Tried(s) == s.ok \/ s.attempts = LinkSnapTries

SnapBefore ==
  /\ lpc = "before" /\ ~Tried(before)
  /\ \E fate \in Fates : before' = link_snap(before, fate) /\ farCount' = FarAfter(fate)
  /\ UNCHANGED <<lpc, count, want_dir, after, outcomes, run, worst_run, cross, rebooted>>

SnapBeforeDone ==
  /\ lpc = "before" /\ Tried(before)
  /\ want_dir' = before.ok
  /\ lpc' = "probe"
  /\ UNCHANGED <<count, before, after, outcomes, run, worst_run, farCount, cross, rebooted>>

csp_ping ==
  /\ lpc = "probe" /\ Len(outcomes) < count
  /\ \E fate \in Fates :
       /\ outcomes' = Append(outcomes, fate)
       /\ farCount' = FarAfter(fate)
       /\ run' = IF fate = "ok" THEN 0 ELSE run + 1
       /\ worst_run' = IF run' > worst_run THEN run' ELSE worst_run
  /\ UNCHANGED <<lpc, count, want_dir, before, after, cross, rebooted>>

ProbesDone ==
  /\ lpc = "probe" /\ Len(outcomes) = count
  /\ lpc' = IF want_dir THEN "after" ELSE "report"
  /\ UNCHANGED <<count, want_dir, before, after, outcomes, run, worst_run, farCount, cross, rebooted>>

SnapAfter ==
  /\ lpc = "after" /\ ~Tried(after)
  /\ \E fate \in Fates : after' = link_snap(after, fate) /\ farCount' = FarAfter(fate)
  /\ UNCHANGED <<lpc, count, want_dir, before, outcomes, run, worst_run, cross, rebooted>>

SnapAfterDone ==
  /\ lpc = "after" /\ Tried(after)
  /\ lpc' = "report"
  /\ UNCHANGED <<count, want_dir, before, after, outcomes, run, worst_run, farCount, cross, rebooted>>

\* Others talk to the far end meanwhile.
CrossTraffic ==
  /\ lpc \in {"probe", "after"} /\ want_dir /\ cross < MaxCross
  /\ cross' = cross + 1
  /\ farCount' \in {[farCount EXCEPT !.rx = (@ + 1) % ModProbe], [farCount EXCEPT !.tx = (@ + 1) % ModProbe]}
  /\ UNCHANGED <<lpc, count, want_dir, before, after, outcomes, run, worst_run, rebooted>>

\* The far end starts again.
FarReboot ==
  /\ lpc \in {"probe", "after"} /\ want_dir /\ ~rebooted
  /\ rebooted' = TRUE
  /\ farCount' = [tx |-> 0, rx |-> 0]
  /\ UNCHANGED <<lpc, count, want_dir, before, after, outcomes, run, worst_run, cross>>

LinkNext ==
  \/ LinkStart \/ SnapBefore \/ SnapBeforeDone \/ csp_ping \/ ProbesDone
  \/ SnapAfter \/ SnapAfterDone \/ CrossTraffic \/ FarReboot

-----------------------------------------------------------------------------
(* What is printed                                                         *)

Number(fates) == Cardinality({k \in 1 .. Len(outcomes) : outcomes[k] \in fates})
ok == Number({"ok"})

\* The deltas hold the closing snapshot's own traffic.  (They are not negative as
\* unsigned differences, but may be once it is subtracted.)
RawArrived == ((after.rx - before.rx) % ModProbe) - after.attempts
RawReplies == ((after.tx - before.tx) % ModProbe) - after.attempts

UpperReplies(arrived) == arrived

Clamped(x, low, high) == IF x > high THEN high ELSE IF x < low THEN low ELSE x

arrivedShown == Clamped(RawArrived, ok, count)
repliesShown == Clamped(RawReplies, ok, UpperReplies(arrivedShown))

\* Marked as approximate.
approx == \/ after.attempts > 1 \/ before.attempts > 1
          \/ arrivedShown # RawArrived \/ repliesShown # RawReplies

\* The verdict when nothing came back.
Blackout == IF RawArrived >= count THEN "downlink" ELSE IF RawArrived <= 0 THEN "uplink" ELSE "both"

-----------------------------------------------------------------------------
(* Properties                                                              *)

Split == lpc = "report" /\ want_dir /\ after.ok

ArrivedTruly  == Number({"unanswered", "down", "ok"})
AnsweredTruly == Number({"down", "ok"})

\* Type invariant of the link test.
LinkTypeOK ==
  /\ lpc \in {"idle", "before", "probe", "after", "report"}
  /\ \A s \in {before, after} : s.attempts \in 0 .. LinkSnapTries /\ s.ok \in BOOLEAN
  /\ outcomes \in Seq(Fates) /\ Len(outcomes) <= count
  /\ 0 <= run /\ run <= worst_run /\ worst_run <= count
  /\ farCount \in [tx : 0 .. ModProbe - 1, rx : 0 .. ModProbe - 1]

\* Each try of the closing snapshot but the last, and each packet of others, blurs
\* the split by one packet at most, also when a counter wraps between the
\* snapshots.  With neither it is exact and no mark is printed, and the verdict of a
\* blackout is right.  What is printed is possible even when the far end has started
\* again in between.
DirectionSplit ==
  Split =>
    /\ ok <= repliesShown /\ repliesShown <= arrivedShown /\ arrivedShown <= count
    /\ ~rebooted =>
         /\ arrivedShown - ArrivedTruly \in 1 - after.attempts .. cross
         /\ repliesShown - AnsweredTruly \in 1 - after.attempts .. cross
    /\ ~rebooted /\ cross = 0 /\ after.attempts = 1 =>
         /\ approx => before.attempts > 1
         /\ ok = 0 => (Blackout = "downlink" <=> ArrivedTruly = count)
                      /\ (Blackout = "uplink" <=> ArrivedTruly = 0)

\* What csp_link_apm.c says of retried snapshots and cross-traffic: "when that can be
\* the case the figures are marked approximate".  Figures without the mark are exact,
\* unless the far end has started again.
BlurIsMarked ==
  Split /\ ~rebooted /\ ~approx => /\ arrivedShown = ArrivedTruly
                                   /\ repliesShown = AnsweredTruly
=============================================================================

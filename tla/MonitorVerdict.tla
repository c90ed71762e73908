--------------------------- MODULE MonitorVerdict ---------------------------
(***************************************************************************)
(* The counter poller of csp_monitor start -r and the direction verdict    *)
(* of status and stop, apm/csp_monitor_apm.c.  The poller asks the targets *)
(* for their interface counters, one after the other, beside the user's    *)
(* traffic; the verdict compares the counters of the first target, the far *)
(* end, with those of the local interface.                                 *)
(*                                                                         *)
(* Counters are 32 bits wide (ModCount here).  Of the other targets only   *)
(* how often they were asked and answered matters.  Packets of third       *)
(* parties, which the printed caveat is about, are left out.  A packet of  *)
(* the user is one step; a poll is three, with traffic in between.         *)
(***************************************************************************)
EXTENDS Integers, FiniteSets

CONSTANTS
  ModCount,     \* 2^32
  NRemotes,     \* number of -r targets; the first is the far end
  FirstCounts,  \* values of the two nodes' counters when the monitor is started
  MaxUser,      \* bound: packets of the user
  MaxRounds,    \* bound: rounds of polls
  MaxReboots    \* bound: restarts of the far end

ASSUME VerdictAssumption ==
  /\ ModCount \in Nat /\ ModCount % 2 = 0
  /\ {NRemotes, MaxRounds} \subseteq Nat \ {0} /\ {MaxUser, MaxReboots} \subseteq Nat
  /\ FirstCounts \subseteq [tx : 0 .. ModCount - 1, rx : 0 .. ModCount - 1]
  /\ MaxUser + 2 * NRemotes * MaxRounds < ModCount \div 2

VARIABLES
  mpc, target, mon_poll_running, rounds,  \* the poller
  answer,                 \* the reply under way: the far end's counters in it
  remote,                 \* mon_remotes[0]: base and last counters
  samples, misses,        \* of each target
  local, local_base,      \* counters of mon_local_iface, and the baseline
  far,                    \* counters of the far end's interface
  user,                   \* packets of the user so far
  lives,                  \* restarts of the far end
  past                    \* history, see NoPast

verdictVars == <<mpc, target, mon_poll_running, rounds, answer, remote, samples, misses,
                 local, local_base, far, user, lives, past>>

Targets == 1 .. NRemotes
Zero    == [tx |-> 0, rx |-> 0]

\* Up is from here to the far end.  Per direction: packets of the pair lost since
\* the baseline was taken (lost); those that count at the far end since the sample
\* in the answer (pend), since the last recorded one (since), and between the
\* sample that became the base and the baseline (early).  Then the other targets'
\* polls and replies before the baseline, and their replies after a time-out; the
\* far end's restarts when it took the answer and the recorded sample; and whether
\* a restart went unnoticed.
NoDirection == [lost |-> 0, pend |-> 0, since |-> 0, early |-> 0]
NoPast == [up |-> NoDirection, dn |-> NoDirection, queries |-> 0, replies |-> 0, late |-> 0,
           asked |-> 0, sampled |-> 0, mixed |-> FALSE]

NoAnswer == [got |-> FALSE, tx |-> 0, rx |-> 0]

VerdictInit ==
  /\ mpc = "off" /\ target = 1 /\ mon_poll_running = FALSE /\ rounds = 0
  /\ answer = NoAnswer
  /\ remote = [have_base |-> FALSE, base |-> Zero, last |-> Zero, reboots |-> 0]
  /\ samples = [t \in Targets |-> 0] /\ misses = [t \in Targets |-> 0]
  /\ local = Zero /\ local_base = Zero /\ far = Zero
  /\ user = 0 /\ lives = 0 /\ past = NoPast

Inc(n) == (n + 1) % ModCount

-----------------------------------------------------------------------------
(* The traffic                                                             *)

CountUp(p, arrives) ==
  IF arrives THEN [p EXCEPT !.pend = @ + 1, !.since = @ + 1] ELSE [p EXCEPT !.lost = @ + 1]
CountDown(p, arrives) ==
  [p EXCEPT !.pend = @ + 1, !.since = @ + 1, !.lost = IF arrives THEN @ ELSE @ + 1]

UserUp ==
  /\ mpc # "off" /\ user < MaxUser
  /\ user' = user + 1
  /\ local' = [local EXCEPT !.tx = Inc(@)]
  /\ \E arrives \in BOOLEAN :
       /\ far' = IF arrives THEN [far EXCEPT !.rx = Inc(@)] ELSE far
       /\ past' = [past EXCEPT !.up = CountUp(@, arrives)]
  /\ UNCHANGED <<mpc, target, mon_poll_running, rounds, answer, remote, samples, misses, local_base, lives>>

UserDown ==
  /\ mpc # "off" /\ user < MaxUser
  /\ user' = user + 1
  /\ far' = [far EXCEPT !.tx = Inc(@)]
  /\ \E arrives \in BOOLEAN :
       /\ local' = IF arrives THEN [local EXCEPT !.rx = Inc(@)] ELSE local
       /\ past' = [past EXCEPT !.dn = CountDown(@, arrives)]
  /\ UNCHANGED <<mpc, target, mon_poll_running, rounds, answer, remote, samples, misses, local_base, lives>>

FarRestarts ==
  /\ mpc # "off" /\ lives < MaxReboots
  /\ lives' = lives + 1
  /\ far' = Zero
  /\ UNCHANGED <<mpc, target, mon_poll_running, rounds, answer, remote, samples, misses, local,
                 local_base, user, past>>

-----------------------------------------------------------------------------
(* The poller                                                              *)

\* csp_monitor start -r, the baseline it takes, and the first round.
PollerStart ==
  /\ mpc = "off"
  /\ mpc' = "check" /\ mon_poll_running' = TRUE /\ rounds' = 1
  /\ far' \in FirstCounts
  /\ local' \in FirstCounts
  /\ local_base' = local'
  /\ UNCHANGED <<target, answer, remote, samples, misses, user, lives, past>>

\* A query goes out.  The far end counts it, answers with its counters, and counts
\* the answer after that.
PollAsk ==
  /\ mpc = "check" /\ mon_poll_running
  /\ mpc' = "wait"
  /\ local' = [local EXCEPT !.tx = Inc(@)]
  /\ \E arrives \in BOOLEAN :
       IF target # 1
       THEN answer' = [NoAnswer EXCEPT !.got = arrives] /\ UNCHANGED <<far, past>>
       ELSE IF ~arrives
       THEN answer' = NoAnswer /\ past' = [past EXCEPT !.up = CountUp(@, FALSE)] /\ UNCHANGED far
       ELSE /\ answer' = [got |-> TRUE, tx |-> far.tx, rx |-> Inc(far.rx)]
            /\ far' = [tx |-> Inc(far.tx), rx |-> Inc(far.rx)]
            /\ past' = [past EXCEPT !.up.pend = 0, !.up.since = @ + 1,
                                    !.dn.pend = 1, !.dn.since = @ + 1, !.asked = lives]
  /\ UNCHANGED <<target, mon_poll_running, rounds, remote, samples, misses, local_base, user, lives>>

PollReply ==
  /\ mpc = "wait" /\ answer.got
  /\ mpc' = "record"
  /\ local' = [local EXCEPT !.rx = Inc(@)]
  /\ UNCHANGED <<target, mon_poll_running, rounds, answer, remote, samples, misses, local_base, far,
                 user, lives, past>>

NextTarget ==
  /\ mpc' = IF target = NRemotes THEN "sleep" ELSE "check"
  /\ target' = (target % NRemotes) + 1

\* No answer in time; one that is on its way may be counted all the same, late.
PollTimeout ==
  /\ mpc = "wait"
  /\ \E late \in (IF answer.got THEN BOOLEAN ELSE {FALSE}) :
       /\ local' = IF late THEN [local EXCEPT !.rx = Inc(@)] ELSE local
       /\ past' = IF target # 1 THEN [past EXCEPT !.late = IF late THEN @ + 1 ELSE @]
                  ELSE IF answer.got /\ ~late THEN [past EXCEPT !.dn.lost = @ + 1]
                  ELSE past
  /\ samples' = [samples EXCEPT ![target] = @ + 1]
  /\ misses' = [misses EXCEPT ![target] = @ + 1]
  /\ answer' = NoAnswer
  /\ NextTarget
  /\ UNCHANGED <<mon_poll_running, rounds, remote, local_base, far, user, lives>>

Minus(a, b) == (a - b) % ModCount

\* Faulty variant: any counter that is behind is taken for a restart.
RebootSeenOnWrap == remote.have_base /\ (answer.tx < remote.last.tx \/ answer.rx < remote.last.rx)

\* A counter is behind, and neither by as much as a wrap.
RebootSeen ==
  /\ remote.have_base
  /\ answer.tx < remote.last.tx \/ answer.rx < remote.last.rx
  /\ Minus(remote.last.tx, answer.tx) < ModCount \div 2
  /\ Minus(remote.last.rx, answer.rx) < ModCount \div 2

RecordOther ==
  /\ mpc = "record" /\ target # 1
  /\ samples' = [samples EXCEPT ![target] = @ + 1]
  /\ NextTarget
  /\ UNCHANGED <<mon_poll_running, rounds, answer, remote, misses, local, local_base, far, user, lives, past>>

\* The polls f counts, of all targets but the far end.
Sum(f) == Cardinality(UNION {{t} \X (1 .. f[t]) : t \in 2 .. NRemotes})
others_q == Sum(samples)
others_r == Sum(samples) - Sum(misses)

\* Faulty variant: the baseline of the start command is kept.
BaselineOfStart == local_base

\* The local baseline is taken again with the far end's base.
Baseline == local

\* A direction when the baseline is taken.
Anew(p) == [lost |-> 0, pend |-> p.pend, since |-> p.pend, early |-> p.pend]

\* The first answer of the far end, or the first after a restart that is noticed.
RecordBase ==
  /\ mpc = "record" /\ target = 1
  /\ ~remote.have_base \/ RebootSeen
  /\ remote' = [have_base |-> TRUE, base |-> [tx |-> answer.tx, rx |-> answer.rx],
                last |-> [tx |-> answer.tx, rx |-> answer.rx],
                reboots |-> remote.reboots + IF RebootSeen THEN 1 ELSE 0]
  /\ local_base' = Baseline
  /\ past' = [up |-> Anew(past.up), dn |-> Anew(past.dn), queries |-> others_q,
               replies |-> others_r + past.late, late |-> past.late,
               asked |-> past.asked, sampled |-> past.asked, mixed |-> FALSE]
  /\ samples' = [samples EXCEPT ![1] = @ + 1]
  /\ NextTarget
  /\ UNCHANGED <<mon_poll_running, rounds, answer, misses, local, far, user, lives>>

RecordSample ==
  /\ mpc = "record" /\ target = 1
  /\ remote.have_base /\ ~RebootSeen
  /\ remote' = [remote EXCEPT !.last = [tx |-> answer.tx, rx |-> answer.rx]]
  /\ past' = [past EXCEPT !.up.since = past.up.pend, !.dn.since = past.dn.pend,
                          !.sampled = past.asked, !.mixed = @ \/ past.asked # past.sampled]
  /\ samples' = [samples EXCEPT ![1] = @ + 1]
  /\ NextTarget
  /\ UNCHANGED <<mon_poll_running, rounds, answer, misses, local, local_base, far, user, lives>>

PollRound ==
  /\ mpc = "sleep" /\ mon_poll_running /\ rounds < MaxRounds
  /\ rounds' = rounds + 1
  /\ mpc' = "check"
  /\ UNCHANGED <<target, mon_poll_running, answer, remote, samples, misses, local, local_base, far,
                 user, lives, past>>

\* Faulty variant: the flag is only looked at between two rounds.
PollerMayEndBetweenRounds == mpc = "check" /\ target = 1

\* The flag is looked at before each query and at every slice of the pause.
PollerMayEnd == mpc \in {"check", "sleep"}

PollerEnds ==
  /\ PollerMayEnd /\ ~mon_poll_running
  /\ mpc' = "done"
  /\ UNCHANGED <<target, mon_poll_running, rounds, answer, remote, samples, misses, local, local_base,
                 far, user, lives, past>>

\* csp_monitor stop, which then joins the poller.
PollerStop ==
  /\ mon_poll_running
  /\ mon_poll_running' = FALSE
  /\ UNCHANGED <<mpc, target, rounds, answer, remote, samples, misses, local, local_base, far, user,
                 lives, past>>

mon_poller == \/ PollAsk \/ PollReply \/ PollTimeout \/ RecordOther \/ RecordBase \/ RecordSample
              \/ PollRound \/ PollerEnds

VerdictNext == UserUp \/ UserDown \/ FarRestarts \/ PollerStart \/ mon_poller \/ PollerStop

VerdictSpec == VerdictInit /\ [][VerdictNext]_verdictVars

-----------------------------------------------------------------------------
(* The verdict, as mon_print_verdict computes it                           *)

up_off == Minus(Minus(local.tx, others_q), local_base.tx)
up_del == Minus(remote.last.rx, remote.base.rx)
dn_off == Minus(remote.last.tx, remote.base.tx)
dn_del == Minus(Minus(local.rx, others_r), local_base.rx)

\* 100 times the loss in per cent is Lost(off, del) * 100 / off.
Lost(off, del) == IF off = 0 \/ del > off THEN 0 ELSE off - del
Share(off, del) == IF off = 0 THEN 0 ELSE (Lost(off, del) * 1000) \div off

Verdict ==
  LET up == Share(up_off, up_del)
      dn == Share(dn_off, dn_del)
  IN IF ~remote.have_base THEN "none"
     ELSE IF up_off = 0 /\ dn_off = 0 THEN "no traffic"
     ELSE IF up < 10 /\ dn < 10 THEN "clean"
     ELSE IF up >= 2 * dn /\ up >= 20 THEN "uplink"
     ELSE IF dn >= 2 * up /\ dn >= 20 THEN "downlink"
     ELSE "both"

-----------------------------------------------------------------------------
(* Properties                                                              *)

\* Type invariant of the poller.
VerdictTypeOK ==
  /\ mpc \in {"off", "check", "wait", "record", "sleep", "done"}
  /\ target \in Targets /\ mon_poll_running \in BOOLEAN /\ rounds \in 0 .. MaxRounds
  /\ {local, local_base, far, remote.base, remote.last} \subseteq [tx : 0 .. ModCount - 1, rx : 0 .. ModCount - 1]
  /\ \A t \in Targets : misses[t] <= samples[t]

\* A query, or a reply, of another target that no count of samples holds yet.
OpenQuery == IF mpc \in {"wait", "record"} /\ target # 1 THEN 1 ELSE 0
OpenReply == IF mpc = "record" /\ target # 1 THEN 1 ELSE 0
\* A reply of the far end that is still under way.
OpenFar == IF mpc = "wait" /\ target = 1 /\ answer.got THEN 1 ELSE 0

\* What the verdict says is missing is what was lost, and nothing else but: what
\* the far end has counted since its last sample, less what it had counted between
\* the first one and the baseline; a poll of another target just under way; a reply
\* of one that came too late; and the polls of the others from before the baseline,
\* which are subtracted although the baseline is past them.  This holds whatever
\* wraps, until the far end restarts without being noticed.
VerdictAccounts ==
  remote.have_base /\ ~past.mixed =>
    /\ Minus(up_off, up_del) =
         (past.up.lost + past.up.since - past.up.early + OpenQuery - past.queries) % ModCount
    /\ Minus(dn_off, dn_del) =
         (past.dn.lost + OpenFar + past.dn.early - past.dn.since
            - OpenReply - past.late + past.replies) % ModCount

\* The far end is never said to have restarted more often than it has: a wrap of a
\* counter is no restart.
NoFalseReboot == remote.reboots <= lives

\* csp_monitor stop gets to join the poller, wherever it is.
PollerStops == ~mon_poll_running /\ mpc # "off" ~> mpc = "done"

\* "We know that traffic exactly ... so subtract it": when nothing was lost and the
\* far end has just answered, the polls of the other targets do not show.
Settled ==
  /\ remote.have_base /\ ~past.mixed /\ mpc \in {"sleep", "check", "done"}
  /\ past.up.since = 0 /\ past.up.early = 0 /\ past.dn.since = 1 /\ past.dn.early = 1
  /\ past.late = 0
OtherPollsDoNotShow ==
  Settled /\ past.up.lost = 0 /\ past.dn.lost = 0 => Verdict \in {"no traffic", "clean"}
=============================================================================

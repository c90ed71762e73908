------------------------------ MODULE LossHook ------------------------------
(***************************************************************************)
(* The loss APM, apm/csp_loss_apm.c: a hook put over the nexthop pointer   *)
(* of an interface by `csp_loss start` and taken off by `csp_loss stop`    *)
(* while other threads of the process transmit, and while another module   *)
(* may put its own hook on the same pointer.                               *)
(*                                                                         *)
(* A function pointer is the interface whose driver it is, "loss",         *)
(* "other" or Null.  What decides a frame's drop is FlowIndex's and        *)
(* GilbertElliott's subject; here any frame may be dropped while the loss  *)
(* probability is not 0.  Commands run in one thread, so that the other    *)
(* module's hook comes and goes between two of them.                       *)
(***************************************************************************)
EXTENDS Integers, Sequences, FiniteSets

CONSTANTS
  Senders,      \* threads that transmit
  Ifaces,       \* interfaces
  LossOptions,  \* command lines of `csp_loss start`
  OffsetBytes,  \* CI_DTP_OFFSET_SIZE
  MaxOffered,   \* bound: frames transmitted
  MaxStarts,    \* bound: `csp_loss start` commands
  MaxDepth      \* bound: calls of the hook inside one another that the stack holds

Null == "null"

ASSUME LossAssumption ==
  /\ {"loss", "other", "null"} \cap Ifaces = {}
  /\ IsFiniteSet(Senders)
  /\ {MaxOffered, MaxStarts} \subseteq Nat /\ MaxDepth \in Nat \ {0}

VARIABLES
  nexthop,            \* iface->nexthop
  saved,              \* what the other module's hook calls, Null when it is off
  loss_iface, loss_real_nexthop, loss_prob, loss_sent, loss_dropped,
  command,            \* where the command thread is, and on which interface
  snd,                \* the senders
  offered, delivered, freed,
  starts,
  fault,              \* the process has died of a null pointer, ...
  \* history
  overlapped,         \* a stop has met a frame in the hook, or on the way in
  buried,             \* a stop has met another hook on top
  shared              \* two frames, or a frame and a start, have met in the hook

hookVars  == <<nexthop, saved>>
stateVars == <<loss_iface, loss_real_nexthop, loss_prob>>
countVars == <<loss_sent, loss_dropped>>
frameVars == <<offered, delivered, freed>>
pastVars  == <<overlapped, buried, shared>>
lossVars  == <<hookVars, stateVars, countVars, command, snd, frameVars, starts, fault, pastVars>>

Pointers == Ifaces \cup {"loss", "other", Null}

Idle == [pc |-> "idle", iface |-> Null, fn |-> Null, drop |-> FALSE, seen |-> 0, depth |-> 0]

LossInit ==
  /\ nexthop = [i \in Ifaces |-> i]
  /\ saved = [i \in Ifaces |-> Null]
  /\ loss_iface = Null /\ loss_real_nexthop = Null /\ loss_prob = 0
  /\ loss_sent = 0 /\ loss_dropped = 0
  /\ command = [pc |-> "idle", iface |-> Null]
  /\ snd = [s \in Senders |-> Idle]
  /\ offered = 0 /\ delivered = 0 /\ freed = 0
  /\ starts = 0
  /\ fault = "none"
  /\ overlapped = FALSE /\ buried = FALSE /\ shared = FALSE

Alive == fault = "none"

InHook(s) == snd[s].pc \in {"count", "held", "free"}
\* ... or with the pointer to it in hand.
Bound(s) == InHook(s) \/ (snd[s].pc = "call" /\ snd[s].fn = "loss")

-----------------------------------------------------------------------------
(* Transmissions                                                           *)

\* csp_send_direct_iface reads the interface's pointer and calls it.
LossSend(s) ==
  /\ Alive /\ snd[s].pc = "idle" /\ offered < MaxOffered
  /\ offered' = offered + 1
  /\ \E i \in Ifaces : snd' = [snd EXCEPT ![s] = [Idle EXCEPT !.pc = "call", !.iface = i, !.fn = nexthop[i]]]
  /\ UNCHANGED <<hookVars, stateVars, countVars, command, delivered, freed, starts, fault, pastVars>>

\* The driver consumes the packet.  It works on its own interface only.
CallDriver(s) ==
  /\ Alive /\ snd[s].pc = "call" /\ snd[s].fn \in Ifaces
  /\ IF snd[s].fn = snd[s].iface
     THEN /\ delivered' = delivered + 1
          /\ snd' = [snd EXCEPT ![s] = Idle]
          /\ UNCHANGED fault
     ELSE fault' = "driver" /\ UNCHANGED <<delivered, snd>>
  /\ UNCHANGED <<hookVars, stateVars, countVars, command, offered, freed, starts, pastVars>>

\* The other module's hook calls what it found when it was installed.
CallOther(s) ==
  /\ Alive /\ snd[s].pc = "call" /\ snd[s].fn = "other"
  /\ snd' = [snd EXCEPT ![s].fn = saved[snd[s].iface]]
  /\ UNCHANGED <<hookVars, stateVars, countVars, command, frameVars, starts, fault, pastVars>>

CallNull(s) ==
  /\ Alive /\ snd[s].pc = "call" /\ snd[s].fn = Null
  /\ fault' = "null"
  /\ UNCHANGED <<hookVars, stateVars, countVars, command, snd, frameVars, starts, pastVars>>

\* loss_nexthop decides, and reads the counter it is about to increment.
CallLoss(s) ==
  /\ Alive /\ snd[s].pc = "call" /\ snd[s].fn = "loss"
  /\ IF snd[s].depth = MaxDepth
     THEN fault' = "stack" /\ UNCHANGED <<snd, shared>>
     ELSE /\ \E d \in (IF loss_prob = 0 THEN {FALSE} ELSE BOOLEAN) :
               snd' = [snd EXCEPT ![s].pc = "count", ![s].drop = d, ![s].seen = loss_sent,
                                  ![s].depth = snd[s].depth + 1]
          /\ shared' = (shared \/ \E t \in Senders \ {s} : InHook(t))
          /\ UNCHANGED fault
  /\ UNCHANGED <<hookVars, stateVars, countVars, command, frameVars, starts, overlapped, buried>>

\* Faulty variant: only frames that are let through are counted.
CountSentKept(s) == IF snd[s].drop THEN loss_sent ELSE snd[s].seen + 1

CountSent(s) == snd[s].seen + 1

\* The counter is written; the caller is held for the frame's airtime.
Count(s) ==
  /\ Alive /\ snd[s].pc = "count"
  /\ loss_sent' = CountSent(s)
  /\ snd' = [snd EXCEPT ![s].pc = "held"]
  /\ UNCHANGED <<hookVars, stateVars, loss_dropped, command, frameVars, starts, fault, pastVars>>

\* A frame that is kept goes to whatever loss_real_nexthop is by now.
Pass(s) ==
  /\ Alive /\ snd[s].pc = "held" /\ ~snd[s].drop
  /\ snd' = [snd EXCEPT ![s].pc = "call", ![s].fn = loss_real_nexthop]
  /\ UNCHANGED <<hookVars, stateVars, countVars, command, frameVars, starts, fault, pastVars>>

\* One that is dropped is counted and freed, in the same two steps as above.
CountDrop(s) ==
  /\ Alive /\ snd[s].pc = "held" /\ snd[s].drop
  /\ snd' = [snd EXCEPT ![s].pc = "free", ![s].seen = loss_dropped]
  /\ UNCHANGED <<hookVars, stateVars, countVars, command, frameVars, starts, fault, pastVars>>

\* Faulty variant: the packet is freed and passed on all the same.
FreedThenPassed(s) == [snd[s] EXCEPT !.pc = "call", !.fn = loss_real_nexthop]

Freed(s) == Idle

Free(s) ==
  /\ Alive /\ snd[s].pc = "free"
  /\ loss_dropped' = snd[s].seen + 1
  /\ freed' = freed + 1
  /\ snd' = [snd EXCEPT ![s] = Freed(s)]
  /\ UNCHANGED <<hookVars, stateVars, loss_sent, command, offered, delivered, starts, fault, pastVars>>

-----------------------------------------------------------------------------
(* The commands                                                            *)

\* The command lines csp_loss_start_cmd accepts; prob is in per cent.
StartAccepts(o) ==
  /\ o.prob \in 0 .. 100
  /\ o.dport \in -1 .. 63
  /\ o.dport >= 0 => OffsetBytes <= o.overhead /\ o.overhead < o.mtu
  /\ ~(o.burst > 0 /\ o.dport >= 0)
  /\ o.burst >= 0

\* Faulty variant: a second start is let through.
MayStartTwice == TRUE

\* One hooked interface at a time.
MayStart == loss_iface = Null

\* The parameters are set and the counters reset, before anything is hooked.
StartConfigure(o, i) ==
  /\ Alive /\ command.pc = "idle" /\ starts < MaxStarts
  /\ MayStart /\ StartAccepts(o) /\ nexthop[i] # Null
  /\ starts' = starts + 1
  /\ loss_prob' = o.prob
  /\ loss_sent' = 0 /\ loss_dropped' = 0
  /\ command' = [pc |-> "save", iface |-> i]
  /\ shared' = (shared \/ \E s \in Senders : InHook(s))
  /\ UNCHANGED <<hookVars, loss_iface, loss_real_nexthop, snd, frameVars, fault, overlapped, buried>>

\* Faulty variant: the hook is installed before what it calls is known.
StartSaveLate(i) == UNCHANGED loss_real_nexthop /\ nexthop' = [nexthop EXCEPT ![i] = "loss"]

StartSave(i) == loss_real_nexthop' = nexthop[i] /\ UNCHANGED nexthop

Save ==
  /\ Alive /\ command.pc = "save"
  /\ StartSave(command.iface)
  /\ command' = [command EXCEPT !.pc = "hook"]
  /\ UNCHANGED <<saved, loss_iface, loss_prob, countVars, snd, frameVars, starts, fault, pastVars>>

Install ==
  /\ Alive /\ command.pc = "hook"
  /\ nexthop' = [nexthop EXCEPT ![command.iface] = "loss"]
  /\ loss_iface' = command.iface
  /\ command' = [pc |-> "idle", iface |-> Null]
  /\ UNCHANGED <<saved, loss_real_nexthop, loss_prob, countVars, snd, frameVars, starts, fault, pastVars>>

\* Faulty variant: whatever is on top is replaced.
UnhookedBlindly == loss_real_nexthop

\* The hook is taken off if it is the installed nexthop.
Unhooked == IF nexthop[loss_iface] = "loss" THEN loss_real_nexthop ELSE nexthop[loss_iface]

StopUnhook ==
  /\ Alive /\ command.pc = "idle" /\ loss_iface # Null
  /\ nexthop' = [nexthop EXCEPT ![loss_iface] = Unhooked]
  /\ buried' = (buried \/ nexthop[loss_iface] # "loss")
  /\ command' = [pc |-> "clear", iface |-> loss_iface]
  /\ UNCHANGED <<saved, stateVars, countVars, snd, frameVars, starts, fault, overlapped, shared>>

StopClear ==
  /\ Alive /\ command.pc = "clear"
  /\ loss_iface' = Null /\ loss_real_nexthop' = Null /\ loss_prob' = 0
  /\ overlapped' = (overlapped \/ \E s \in Senders : Bound(s))
  /\ command' = [pc |-> "idle", iface |-> Null]
  /\ UNCHANGED <<hookVars, countVars, snd, frameVars, starts, fault, buried, shared>>

-----------------------------------------------------------------------------
(* Another module that hooks interfaces the same way                       *)

OtherInstall(i) ==
  /\ Alive /\ command.pc = "idle" /\ saved[i] = Null
  /\ saved' = [saved EXCEPT ![i] = nexthop[i]]
  /\ nexthop' = [nexthop EXCEPT ![i] = "other"]
  /\ UNCHANGED <<stateVars, countVars, command, snd, frameVars, starts, fault, pastVars>>

\* It goes when it is on top and no frame is in it.
OtherRemove(i) ==
  /\ Alive /\ command.pc = "idle" /\ nexthop[i] = "other"
  /\ \A s \in Senders : ~(snd[s].pc = "call" /\ snd[s].fn = "other" /\ snd[s].iface = i)
  /\ nexthop' = [nexthop EXCEPT ![i] = saved[i]]
  /\ saved' = [saved EXCEPT ![i] = Null]
  /\ UNCHANGED <<stateVars, countVars, command, snd, frameVars, starts, fault, pastVars>>

-----------------------------------------------------------------------------
LossNext ==
  \/ \E s \in Senders : \/ LossSend(s) \/ CallDriver(s) \/ CallOther(s) \/ CallNull(s) \/ CallLoss(s)
                        \/ Count(s) \/ Pass(s) \/ CountDrop(s) \/ Free(s)
  \/ \E o \in LossOptions, i \in Ifaces : StartConfigure(o, i)
  \/ Save \/ Install \/ StopUnhook \/ StopClear
  \/ \E i \in Ifaces : OtherInstall(i) \/ OtherRemove(i)

LossSpec == LossInit /\ [][LossNext]_lossVars

-----------------------------------------------------------------------------
(* Properties                                                              *)

\* Type invariant of the hook.
LossTypeOK ==
  /\ nexthop \in [Ifaces -> Pointers] /\ saved \in [Ifaces -> Pointers]
  /\ loss_iface \in Ifaces \cup {Null}
  /\ loss_real_nexthop \in Pointers
  /\ loss_prob \in 0 .. 100
  /\ {loss_sent, loss_dropped, offered, delivered, freed} \subseteq Nat
  /\ command \in [pc : {"idle", "save", "hook", "clear"}, iface : Ifaces \cup {Null}]
  /\ command.pc # "idle" => command.iface # Null
  /\ snd \in [Senders -> [pc : {"idle", "call", "count", "held", "free"}, iface : Ifaces \cup {Null},
                          fn : Pointers, drop : BOOLEAN, seen : Nat, depth : 0 .. MaxDepth]]
  /\ \A s \in Senders : snd[s].pc # "idle" => snd[s].iface # Null
  /\ starts \in 0 .. MaxStarts
  /\ fault \in {"none", "null", "stack", "driver"}
  /\ {overlapped, buried, shared} \subseteq BOOLEAN

\* nexthop always consumes the packet: the frames offered are on the link, freed by
\* the hook, or still in a sender's hands, each once.
PacketConsumed ==
  offered = delivered + freed + Cardinality({s \in Senders : snd[s].pc # "idle"})

\* The functions a transmission on interface i passes through.
Calls(i, f) == CASE f = "loss" -> loss_real_nexthop [] f = "other" -> saved[i] [] OTHER -> f
Chain(i) == {nexthop[i], Calls(i, nexthop[i]), Calls(i, Calls(i, nexthop[i]))}

\* Between two commands, a transmission passes through the hooks that are installed,
\* in whatever order they came, and then reaches the driver: after a stop the link
\* is clean again, and the other module's hook is where it was -- unless that hook
\* was on top when loss was stopped.  Even then the other module's hook stays.
HookChain ==
  command.pc = "idle" =>
    \A i \in Ifaces :
      /\ saved[i] # Null => "other" \in Chain(i)
      /\ ~buried => Chain(i) = {i} \cup {f \in {"loss"} : loss_iface = i}
                                   \cup {f \in {"other"} : saved[i] # Null}

\* The process dies in the hook only after a stop that came while a frame was in it
\* or on its way into it, or while another hook was on top, which then still leads
\* to it: stop clears loss_real_nexthop all the same.
FaultOnlyAfterRacedStop == fault # "none" => overlapped \/ buried

\* What csp_loss_apm.c says of stop, "link is clean again": once stop has returned, no
\* transmission dies in the hook.
CleanAfterStop == command.pc = "idle" /\ loss_iface = Null => fault = "none"

\* status and stop print offered - dropped, an unsigned difference: it is not
\* negative, unless frames of two threads, or a frame and a start, met in the hook.
DeliveredNotNegative == loss_dropped > loss_sent => shared

\* A frame is only dropped on the interface loss was started on, and never after
\* the stop -- unless that stop was raced.
DropsOnHookedIface ==
  [][ \A s \in Senders :
        snd[s].pc = "call" /\ snd'[s].pc = "count" /\ snd'[s].drop
        => loss_iface = snd[s].iface \/ command.pc = "hook" \/ overlapped \/ buried ]_lossVars
=============================================================================

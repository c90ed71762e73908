--------------------------- MODULE LossHookProofs ---------------------------
(***************************************************************************)
(* Proofs about LossHook, for any number of interfaces, transmitting       *)
(* threads, frames and start commands.                                     *)
(***************************************************************************)
EXTENDS LossHook, FiniteSetTheorems, TLAPS

-----------------------------------------------------------------------------
(* The inductive invariant                                                 *)

\* The hook is loss_nexthop's, from start's last assignments to stop's first.
Hooked(i) == loss_iface = i /\ command.pc # "clear"

\* What a command relies on between its steps.
CommandOK ==
  /\ command.pc \in {"save", "hook"} => loss_iface = Null
  /\ command.pc = "clear" => loss_iface = command.iface
  /\ command.pc = "hook" => loss_real_nexthop = nexthop[command.iface]

\* An interface without the loss hook leads to the other module's exactly when that
\* one is on; with it, the two lie one over the other.
HooksOK ==
  \A i \in Ifaces :
    /\ nexthop[i] # Null /\ saved[i] # "other"
    /\ loss_iface = i => loss_real_nexthop # Null
    /\ Hooked(i) => \/ nexthop[i] = "loss" /\ (loss_real_nexthop = "other" <=> saved[i] # Null)
                    \/ nexthop[i] = "other" /\ saved[i] = "loss" /\ loss_real_nexthop # "other"
    /\ ~Hooked(i) => (nexthop[i] = "other" <=> saved[i] # Null)

\* As long as stop has found its hook on top, every pointer is where it belongs.
CleanOK ==
  ~buried =>
    \A i \in Ifaces :
      /\ ~Hooked(i) => nexthop[i] \in {i, "other"}
      /\ saved[i] \in {Null, i} \cup {f \in {"loss"} : Hooked(i) /\ nexthop[i] = "other"}
      /\ loss_iface = i => /\ loss_real_nexthop \in {i, "other"}
                           /\ loss_real_nexthop = "other" => saved[i] = i

\* As long as no stop has been raced, every frame has a way to its driver.
FrameOK(s) ==
  LET i == snd[s].iface
  IN /\ InHook(s) => loss_iface = i
     /\ snd[s].pc = "call" => snd[s].fn \in {i, "other", "loss"}
     /\ snd[s].pc = "call" /\ snd[s].fn = "loss" => loss_iface = i /\ snd[s].depth = 0
     /\ snd[s].pc = "call" /\ snd[s].fn = "other"
        => saved[i] = i \/ (saved[i] = "loss" /\ snd[s].depth = 0)
FramesOK == ~overlapped /\ ~buried => \A s \in Senders : FrameOK(s)

\* As long as one frame at a time is in the hook, what it has read is current.
CountsOK ==
  ~shared =>
    /\ loss_dropped <= loss_sent
    /\ \A s, t \in Senders : InHook(s) /\ InHook(t) => s = t
    /\ \A s \in Senders :
         /\ snd[s].pc = "count" => snd[s].seen = loss_sent
         /\ snd[s].pc = "free" => snd[s].seen = loss_dropped
         /\ snd[s].pc \in {"held", "free"} => loss_dropped < loss_sent

PointerInv == CommandOK /\ HooksOK /\ CleanOK
HookInv == LossTypeOK /\ PointerInv /\ FramesOK /\ FaultOnlyAfterRacedStop

-----------------------------------------------------------------------------
(* Type correctness                                                        *)

\* The names of pointers are no interfaces.
LEMMA Names == /\ \A i \in Ifaces : i # "loss" /\ i # "other" /\ i # Null
               /\ "loss" # Null /\ "other" # Null
  BY LossAssumption DEF Null

\* The type of a sender, and of all else.
SenderState == [pc : {"idle", "call", "count", "held", "free"}, iface : Ifaces \cup {Null},
          fn : Pointers, drop : BOOLEAN, seen : Nat, depth : 0 .. MaxDepth]
FrameTyped(f) == f \in SenderState /\ (f.pc # "idle" => f.iface # Null)
FramesTyped == snd \in [Senders -> SenderState] /\ \A s \in Senders : FrameTyped(snd[s])
RestTyped ==
  /\ nexthop \in [Ifaces -> Pointers] /\ saved \in [Ifaces -> Pointers]
  /\ loss_iface \in Ifaces \cup {Null}
  /\ loss_real_nexthop \in Pointers
  /\ loss_prob \in 0 .. 100
  /\ {loss_sent, loss_dropped, offered, delivered, freed} \subseteq Nat
  /\ command \in [pc : {"idle", "save", "hook", "clear"}, iface : Ifaces \cup {Null}]
  /\ command.pc # "idle" => command.iface # Null
  /\ starts \in 0 .. MaxStarts
  /\ fault \in {"none", "null", "stack", "driver"}
  /\ {overlapped, buried, shared} \subseteq BOOLEAN

LEMMA TypeParts == LossTypeOK <=> FramesTyped /\ RestTyped
  BY DEF LossTypeOK, FramesTyped, RestTyped, FrameTyped, SenderState

LEMMA TypePartsNext == LossTypeOK' <=> FramesTyped' /\ RestTyped'
  BY DEF LossTypeOK, FramesTyped, RestTyped, FrameTyped, SenderState

LEMMA IdleSenderTyped == FrameTyped(Idle)
  BY LossAssumption DEF FrameTyped, SenderState, Idle, Pointers

LEMMA Replaced ==
  ASSUME FramesTyped, NEW s \in Senders, NEW f, FrameTyped(f), snd' = [snd EXCEPT ![s] = f]
  PROVE  FramesTyped'
<1>1. f \in SenderState /\ snd' \in [Senders -> SenderState]
  BY DEF FramesTyped, FrameTyped
<1>2. \A t \in Senders : snd'[t] = IF t = s THEN f ELSE snd[t]
  BY DEF FramesTyped
<1> QED
  BY <1>1, <1>2 DEF FramesTyped, FrameTyped

\* Where a sender's step takes its frame.
LEMMA Moved ==
  ASSUME NEW f, FrameTyped(f), f.pc # "idle"
  PROVE  /\ FrameTyped([f EXCEPT !.pc = "held"])
         /\ \A g \in Pointers : FrameTyped([f EXCEPT !.pc = "call", !.fn = g])
         /\ \A n \in Nat : FrameTyped([f EXCEPT !.pc = "free", !.seen = n])
         /\ \A d \in BOOLEAN, n \in Nat, k \in 0 .. MaxDepth :
              FrameTyped([f EXCEPT !.pc = "count", !.drop = d, !.seen = n, !.depth = k])
<1>1. f \in SenderState /\ f.iface # Null
  BY DEF FrameTyped
<1>2. FrameTyped([f EXCEPT !.pc = "held"])
  BY <1>1 DEF FrameTyped, SenderState
<1>3. ASSUME NEW g \in Pointers PROVE FrameTyped([f EXCEPT !.pc = "call", !.fn = g])
  BY <1>1 DEF FrameTyped, SenderState
<1>4. ASSUME NEW n \in Nat PROVE FrameTyped([f EXCEPT !.pc = "free", !.seen = n])
  BY <1>1 DEF FrameTyped, SenderState
<1>5. ASSUME NEW d \in BOOLEAN, NEW n \in Nat, NEW k \in 0 .. MaxDepth
      PROVE  FrameTyped([f EXCEPT !.pc = "count", !.drop = d, !.seen = n, !.depth = k])
  <2>1. [f EXCEPT !.pc = "count", !.drop = d, !.seen = n, !.depth = k] \in SenderState
    BY <1>1 DEF SenderState
  <2>2. [f EXCEPT !.pc = "count", !.drop = d, !.seen = n, !.depth = k].iface = f.iface
    BY <1>1 DEF SenderState
  <2> QED
    BY <1>1, <2>1, <2>2 DEF FrameTyped
<1> QED
  BY <1>2, <1>3, <1>4, <1>5

LEMMA InitType == LossInit => LossTypeOK
<1> SUFFICES ASSUME LossInit PROVE LossTypeOK
  OBVIOUS
<1>1. FramesTyped
  BY IdleSenderTyped DEF LossInit, FramesTyped, FrameTyped
<1>2. /\ nexthop \in [Ifaces -> Pointers] /\ saved \in [Ifaces -> Pointers]
      /\ {loss_sent, loss_dropped, offered, delivered, freed} \subseteq Nat
  BY DEF LossInit, Pointers
<1>3. command \in [pc : {"idle", "save", "hook", "clear"}, iface : Ifaces \cup {Null}]
  BY DEF LossInit
<1>4. /\ loss_iface \in Ifaces \cup {Null} /\ loss_real_nexthop \in Pointers
      /\ command.pc = "idle" /\ fault = "none"
      /\ {overlapped, buried, shared} \subseteq BOOLEAN
  BY DEF LossInit, Pointers
<1>5. loss_prob \in 0 .. 100 /\ starts \in 0 .. MaxStarts
  BY LossAssumption DEF LossInit
<1>6. RestTyped
  BY <1>2, <1>3, <1>4, <1>5 DEF RestTyped
<1> QED
  BY <1>1, <1>6, TypeParts

LEMMA TypeNext == ASSUME LossTypeOK, [LossNext]_lossVars PROVE LossTypeOK'
<1>0. FramesTyped /\ RestTyped
  BY TypeParts
<1> USE <1>0, LossAssumption, Names
    DEF RestTyped, lossVars, hookVars, stateVars, countVars, frameVars, pastVars
<1> SUFFICES FramesTyped' /\ RestTyped'
  BY TypePartsNext
<1>a. ASSUME NEW s \in Senders PROVE snd[s] \in SenderState /\ FrameTyped(snd[s])
  BY DEF FramesTyped
<1>b. ASSUME UNCHANGED snd PROVE FramesTyped'
  BY <1>b DEF FramesTyped, FrameTyped, SenderState
<1>1. ASSUME NEW s \in Senders, LossSend(s) PROVE FramesTyped' /\ RestTyped'
  <2>1. PICK i \in Ifaces : snd' = [snd EXCEPT ![s] = [Idle EXCEPT !.pc = "call", !.iface = i, !.fn = nexthop[i]]]
    BY <1>1 DEF LossSend
  <2>2. FrameTyped([Idle EXCEPT !.pc = "call", !.iface = i, !.fn = nexthop[i]])
    <3>1. Idle \in SenderState
      BY IdleSenderTyped DEF FrameTyped
    <3>2. nexthop[i] \in Pointers
      OBVIOUS
    <3>3. [Idle EXCEPT !.pc = "call", !.iface = i, !.fn = nexthop[i]] \in SenderState
      BY <3>1, <3>2 DEF SenderState
    <3>4. [Idle EXCEPT !.pc = "call", !.iface = i, !.fn = nexthop[i]].iface = i
      BY <3>1 DEF SenderState
    <3> QED
      BY <3>3, <3>4 DEF FrameTyped
  <2>3. FramesTyped'
    BY <2>1, <2>2, Replaced
  <2> QED
    BY <1>1, <2>3 DEF LossSend
<1>2. ASSUME NEW s \in Senders, CallDriver(s) PROVE FramesTyped' /\ RestTyped'
  <2>1. FramesTyped'
    BY <1>2, <1>b, IdleSenderTyped, Replaced DEF CallDriver
  <2> QED
    BY <1>2, <2>1 DEF CallDriver
<1>3. ASSUME NEW s \in Senders, CallOther(s) PROVE FramesTyped' /\ RestTyped'
  <2>1. snd' = [snd EXCEPT ![s] = [snd[s] EXCEPT !.fn = saved[snd[s].iface]]]
    BY <1>3 DEF CallOther
  <2>2. FrameTyped([snd[s] EXCEPT !.fn = saved[snd[s].iface]])
    BY <1>3, <1>a DEF CallOther, FrameTyped, SenderState
  <2>3. FramesTyped'
    BY <2>1, <2>2, Replaced
  <2> QED
    BY <1>3, <2>3 DEF CallOther
<1>4. ASSUME NEW s \in Senders, CallNull(s) PROVE FramesTyped' /\ RestTyped'
  BY <1>4, <1>b DEF CallNull
<1>5. ASSUME NEW s \in Senders, CallLoss(s) PROVE FramesTyped' /\ RestTyped'
  <2>1. CASE snd[s].depth = MaxDepth
    BY <1>5, <2>1, <1>b DEF CallLoss
  <2>2. CASE snd[s].depth # MaxDepth
    <3>1. PICK d \in BOOLEAN :
            snd' = [snd EXCEPT ![s] = [snd[s] EXCEPT !.pc = "count", !.drop = d, !.seen = loss_sent,
                                                     !.depth = snd[s].depth + 1]]
      <4>1. PICK d \in BOOLEAN :
              snd' = [snd EXCEPT ![s].pc = "count", ![s].drop = d, ![s].seen = loss_sent,
                                 ![s].depth = snd[s].depth + 1]
        BY <1>5, <2>2 DEF CallLoss
      <4>2. snd' = [snd EXCEPT ![s] = [snd[s] EXCEPT !.pc = "count", !.drop = d, !.seen = loss_sent,
                                                     !.depth = snd[s].depth + 1]]
        BY <4>1 DEF FramesTyped
      <4> QED
        BY <4>2
    <3>2. FrameTyped([snd[s] EXCEPT !.pc = "count", !.drop = d, !.seen = loss_sent,
                                    !.depth = snd[s].depth + 1])
      <4>1. snd[s].depth + 1 \in 0 .. MaxDepth /\ loss_sent \in Nat
        BY <2>2, <1>a DEF SenderState
      <4> QED
        BY <1>5, <1>a, <4>1, Moved, Zenon DEF CallLoss
    <3>3. FramesTyped'
      BY <3>1, <3>2, Replaced
    <3> QED
      BY <1>5, <2>2, <3>3 DEF CallLoss
  <2> QED
    BY <2>1, <2>2
<1>6. ASSUME NEW s \in Senders, Count(s) PROVE FramesTyped' /\ RestTyped'
  <2>1. snd' = [snd EXCEPT ![s] = [snd[s] EXCEPT !.pc = "held"]]
    BY <1>6 DEF Count
  <2>2. FrameTyped([snd[s] EXCEPT !.pc = "held"])
    BY <1>6, <1>a, Moved, Zenon DEF Count
  <2>3. FramesTyped'
    BY <2>1, <2>2, Replaced
  <2>4. CountSent(s) \in Nat
    BY <1>a DEF CountSent, SenderState
  <2> QED
    BY <1>6, <2>3, <2>4 DEF Count
<1>7. ASSUME NEW s \in Senders, Pass(s) PROVE FramesTyped' /\ RestTyped'
  <2>1. snd' = [snd EXCEPT ![s] = [snd[s] EXCEPT !.pc = "call", !.fn = loss_real_nexthop]]
    BY <1>7 DEF Pass
  <2>2. FrameTyped([snd[s] EXCEPT !.pc = "call", !.fn = loss_real_nexthop])
    BY <1>7, <1>a, Moved, Zenon DEF Pass
  <2>3. FramesTyped'
    BY <2>1, <2>2, Replaced
  <2> QED
    BY <1>7, <2>3 DEF Pass
<1>8. ASSUME NEW s \in Senders, CountDrop(s) PROVE FramesTyped' /\ RestTyped'
  <2>1. snd' = [snd EXCEPT ![s] = [snd[s] EXCEPT !.pc = "free", !.seen = loss_dropped]]
    BY <1>8 DEF CountDrop
  <2>2. FrameTyped([snd[s] EXCEPT !.pc = "free", !.seen = loss_dropped])
    BY <1>8, <1>a, Moved, Zenon DEF CountDrop
  <2>3. FramesTyped'
    BY <2>1, <2>2, Replaced
  <2> QED
    BY <1>8, <2>3 DEF CountDrop
<1>9. ASSUME NEW s \in Senders, Free(s) PROVE FramesTyped' /\ RestTyped'
  <2>1. FramesTyped'
    BY <1>9, IdleSenderTyped, Replaced DEF Free, Freed
  <2>2. snd[s].seen + 1 \in Nat
    BY <1>a DEF SenderState
  <2> QED
    BY <1>9, <2>1, <2>2 DEF Free
<1>10. ASSUME NEW o \in LossOptions, NEW i \in Ifaces, StartConfigure(o, i) PROVE FramesTyped' /\ RestTyped'
  BY <1>10, <1>b DEF StartConfigure, StartAccepts, MayStart
<1>11. CASE Save
  BY <1>11, <1>b DEF Save, StartSave
<1>12. CASE Install
  BY <1>12, <1>b DEF Install, Pointers
<1>13. CASE StopUnhook
  BY <1>13, <1>b DEF StopUnhook, Unhooked
<1>14. CASE StopClear
  BY <1>14, <1>b DEF StopClear, Bound, InHook, Pointers
<1>15. ASSUME NEW i \in Ifaces, OtherInstall(i) PROVE FramesTyped' /\ RestTyped'
  BY <1>15, <1>b DEF OtherInstall, Pointers
<1>16. ASSUME NEW i \in Ifaces, OtherRemove(i) PROVE FramesTyped' /\ RestTyped'
  BY <1>16, <1>b DEF OtherRemove, Pointers
<1>17. CASE UNCHANGED lossVars
  BY <1>17, <1>b
<1> QED
  BY <1>1, <1>2, <1>3, <1>4, <1>5, <1>6, <1>7, <1>8, <1>9, <1>10, <1>11, <1>12, <1>13, <1>14,
     <1>15, <1>16, <1>17 DEF LossNext

-----------------------------------------------------------------------------
(* The pointers                                                            *)

\* The steps of a transmitting thread.
SenderStep ==
  \E s \in Senders : \/ LossSend(s) \/ CallDriver(s) \/ CallOther(s) \/ CallNull(s) \/ CallLoss(s)
                     \/ Count(s) \/ Pass(s) \/ CountDrop(s) \/ Free(s)

\* A transmission moves no pointer.
LEMMA SenderFrame ==
  SenderStep => UNCHANGED <<nexthop, saved, loss_iface, loss_real_nexthop, command, overlapped, buried>>
  BY DEF SenderStep, LossSend, CallDriver, CallOther, CallNull, CallLoss, Count, Pass, CountDrop, Free,
         hookVars, stateVars, countVars, frameVars, pastVars

LEMMA PointersKept ==
  ASSUME PointerInv, UNCHANGED <<nexthop, saved, loss_iface, loss_real_nexthop, command, buried>>
  PROVE  PointerInv'
  BY DEF PointerInv, CommandOK, HooksOK, CleanOK, Hooked

LEMMA PointerInit == LossInit => PointerInv
  BY Names DEF LossInit, PointerInv, CommandOK, HooksOK, CleanOK, Hooked

LEMMA PointerNext == ASSUME LossTypeOK, PointerInv, [LossNext]_lossVars PROVE PointerInv'
<1> USE Names DEF LossTypeOK, PointerInv, hookVars, stateVars, countVars, frameVars, pastVars
<1>1. CASE SenderStep
  BY <1>1, SenderFrame, PointersKept
<1>2. ASSUME NEW o \in LossOptions, NEW i \in Ifaces, StartConfigure(o, i) PROVE PointerInv'
  BY <1>2 DEF StartConfigure, MayStart, CommandOK, HooksOK, CleanOK, Hooked
<1>3. CASE Save
  <2>1. CommandOK'
    BY <1>3 DEF Save, StartSave, CommandOK
  <2>2. \A i \in Ifaces : ~Hooked(i) /\ ~Hooked(i)' /\ loss_iface' # i
    BY <1>3 DEF Save, CommandOK, Hooked
  <2>3. HooksOK'
    BY <1>3, <2>2 DEF Save, StartSave, HooksOK
  <2>4. CleanOK'
    BY <1>3, <2>2 DEF Save, StartSave, CleanOK
  <2> QED
    BY <2>1, <2>3, <2>4
<1>4. CASE Install
  <2> DEFINE j == command.iface
  <2>1. /\ j \in Ifaces /\ loss_iface = Null /\ loss_iface' = j
        /\ loss_real_nexthop = nexthop[j] /\ UNCHANGED <<loss_real_nexthop, saved, buried>>
        /\ nexthop' = [nexthop EXCEPT ![j] = "loss"]
        /\ command'.pc = "idle"
    BY <1>4 DEF Install, CommandOK
  <2>2. \A i \in Ifaces : ~Hooked(i) /\ (Hooked(i)' <=> i = j)
    BY <2>1 DEF Hooked
  <2>3. nexthop[j] # Null /\ (nexthop[j] = "other" <=> saved[j] # Null)
    BY <2>1, <2>2 DEF HooksOK
  <2>4. CommandOK'
    BY <2>1 DEF CommandOK
  <2>5. HooksOK'
    BY <2>1, <2>2, <2>3 DEF HooksOK
  <2>6. CleanOK'
    BY <2>1, <2>2, <2>3 DEF CleanOK
  <2> QED
    BY <2>4, <2>5, <2>6
<1>5. CASE StopUnhook
  <2> DEFINE j == loss_iface
  <2>1. /\ j \in Ifaces /\ UNCHANGED <<loss_iface, loss_real_nexthop, saved>>
        /\ command.pc = "idle" /\ command' = [pc |-> "clear", iface |-> j]
        /\ nexthop' = [nexthop EXCEPT ![j] = IF nexthop[j] = "loss" THEN loss_real_nexthop ELSE nexthop[j]]
        /\ buried' = (buried \/ nexthop[j] # "loss")
    BY <1>5 DEF StopUnhook, Unhooked
  <2>2. \A i \in Ifaces : ~Hooked(i)' /\ (Hooked(i) <=> i = j)
    BY <2>1 DEF Hooked
  <2>3. CommandOK'
    BY <2>1 DEF CommandOK
  <2>4. HooksOK'
    BY <2>1, <2>2 DEF HooksOK
  <2>5. CleanOK'
    BY <2>1, <2>2 DEF CleanOK
  <2> QED
    BY <2>3, <2>4, <2>5
<1>6. CASE StopClear
  <2>1. /\ command.pc = "clear" /\ loss_iface' = Null /\ command'.pc = "idle"
        /\ UNCHANGED <<nexthop, saved, buried>>
    BY <1>6 DEF StopClear
  <2>2. \A i \in Ifaces : ~Hooked(i)' /\ ~Hooked(i) /\ loss_iface' # i
    BY <2>1 DEF Hooked
  <2>3. CommandOK' /\ HooksOK' /\ CleanOK'
    BY <2>1, <2>2 DEF CommandOK, HooksOK, CleanOK
  <2> QED
    BY <2>3
<1>7. ASSUME NEW j \in Ifaces, OtherInstall(j) PROVE PointerInv'
  <2>1. /\ command.pc = "idle" /\ saved[j] = Null
        /\ saved' = [saved EXCEPT ![j] = nexthop[j]] /\ nexthop' = [nexthop EXCEPT ![j] = "other"]
        /\ UNCHANGED <<loss_iface, loss_real_nexthop, command, buried>>
    BY <1>7 DEF OtherInstall
  <2>2. \A i \in Ifaces : Hooked(i)' <=> Hooked(i)
    BY <2>1 DEF Hooked
  <2>3. nexthop[j] # "other"
    BY <2>1 DEF HooksOK
  <2>4. CommandOK'
    BY <2>1 DEF CommandOK
  <2>5. HooksOK'
    BY <2>1, <2>2, <2>3 DEF HooksOK
  <2>6. CleanOK'
    BY <2>1, <2>2, <2>3 DEF CleanOK, HooksOK
  <2> QED
    BY <2>4, <2>5, <2>6
<1>8. ASSUME NEW j \in Ifaces, OtherRemove(j) PROVE PointerInv'
  <2>1. /\ command.pc = "idle" /\ nexthop[j] = "other"
        /\ nexthop' = [nexthop EXCEPT ![j] = saved[j]] /\ saved' = [saved EXCEPT ![j] = Null]
        /\ UNCHANGED <<loss_iface, loss_real_nexthop, command, buried>>
    BY <1>8 DEF OtherRemove
  <2>2. \A i \in Ifaces : Hooked(i)' <=> Hooked(i)
    BY <2>1 DEF Hooked
  <2>3. CommandOK'
    BY <2>1 DEF CommandOK
  <2>4. HooksOK'
    BY <2>1, <2>2 DEF HooksOK
  <2>5. loss_iface = j => Hooked(j)
    BY <2>1 DEF Hooked
  <2>6. CleanOK'
    BY <2>1, <2>2, <2>5 DEF CleanOK, HooksOK
  <2> QED
    BY <2>3, <2>4, <2>6
<1>9. CASE UNCHANGED lossVars
  BY <1>9, PointersKept DEF lossVars
<1> QED
  BY <1>1, <1>2, <1>3, <1>4, <1>5, <1>6, <1>7, <1>8, <1>9 DEF LossNext, SenderStep

-----------------------------------------------------------------------------
(* The frames                                                              *)

\* What has been raced stays raced.
LEMMA RacedStays ==
  ASSUME [LossNext]_lossVars, ~overlapped', ~buried' PROVE ~overlapped /\ ~buried
<1>1. CASE SenderStep
  BY <1>1, SenderFrame
<1>2. CASE StopUnhook
  <2>1. UNCHANGED overlapped /\ buried' = (buried \/ nexthop[loss_iface] # "loss")
    BY <1>2 DEF StopUnhook
  <2> QED
    BY <2>1, Zenon
<1>7. CASE StopClear
  <2>1. UNCHANGED buried /\ overlapped' = (overlapped \/ \E s \in Senders : Bound(s))
    BY <1>7 DEF StopClear
  <2> QED
    BY <2>1, Zenon
<1>3. CASE Save \/ Install
  BY <1>3 DEF Save, Install, pastVars
<1>4. ASSUME NEW o \in LossOptions, NEW i \in Ifaces, StartConfigure(o, i) PROVE ~overlapped /\ ~buried
  BY <1>4 DEF StartConfigure
<1>5. ASSUME NEW i \in Ifaces, OtherInstall(i) \/ OtherRemove(i) PROVE ~overlapped /\ ~buried
  BY <1>5 DEF OtherInstall, OtherRemove, pastVars
<1>6. CASE UNCHANGED lossVars
  BY <1>6 DEF lossVars, pastVars
<1> QED
  BY <1>1, <1>2, <1>3, <1>4, <1>5, <1>6, <1>7 DEF LossNext, SenderStep

\* A thread's step leaves the other threads' frames alone.
LEMMA OthersKept ==
  ASSUME LossTypeOK, NEW s \in Senders, NEW f, snd' = [snd EXCEPT ![s] = f],
         UNCHANGED <<saved, loss_iface>>,
         \A t \in Senders : FrameOK(t),
         NEW t \in Senders, t # s
  PROVE  FrameOK(t)'
<1>1. snd'[t] = snd[t]
  BY DEF LossTypeOK
<1> QED
  BY <1>1 DEF FrameOK, InHook

LEMMA FramesInit == LossInit => FramesOK /\ FaultOnlyAfterRacedStop
  BY DEF LossInit, FramesOK, FrameOK, InHook, Idle, FaultOnlyAfterRacedStop

LEMMA FramesNext ==
  ASSUME HookInv, [LossNext]_lossVars
  PROVE  FramesOK' /\ FaultOnlyAfterRacedStop'
<1> SUFFICES ASSUME ~overlapped', ~buried' PROVE (\A s \in Senders : FrameOK(s)') /\ fault' = "none"
  BY DEF FramesOK, FaultOnlyAfterRacedStop
<1>0. /\ ~overlapped /\ ~buried /\ fault = "none"
      /\ \A s \in Senders : FrameOK(s)
  BY RacedStays DEF HookInv, FramesOK, FaultOnlyAfterRacedStop
<1>a. LossTypeOK /\ CommandOK /\ HooksOK /\ CleanOK
  BY DEF HookInv, PointerInv
<1>b. \A s \in Senders : snd[s].pc # "idle" => snd[s].iface \in Ifaces
  BY <1>a DEF LossTypeOK
<1> USE <1>0, <1>a, <1>b, Names DEF hookVars, stateVars, countVars, frameVars, pastVars
<1>1. ASSUME NEW s \in Senders, LossSend(s) PROVE (\A t \in Senders : FrameOK(t)') /\ fault' = "none"
  <2>1. PICK i \in Ifaces : snd' = [snd EXCEPT ![s] = [Idle EXCEPT !.pc = "call", !.iface = i, !.fn = nexthop[i]]]
    BY <1>1 DEF LossSend
  <2>2. UNCHANGED <<saved, loss_iface, fault>>
    BY <1>1 DEF LossSend
  <2>3. /\ snd'[s].pc = "call" /\ snd'[s].iface = i /\ snd'[s].fn = nexthop[i] /\ snd'[s].depth = 0
    BY <2>1 DEF LossTypeOK, Idle
  <2>4. nexthop[i] \in {i, "other", "loss"} /\ (nexthop[i] = "loss" => loss_iface = i)
    BY DEF CleanOK, HooksOK, Hooked
  <2>5. nexthop[i] = "other" => saved[i] \in {i, "loss"}
    BY DEF CleanOK, HooksOK
  <2>6. FrameOK(s)'
    BY <2>2, <2>3, <2>4, <2>5 DEF FrameOK, InHook
  <2> QED
    BY <2>1, <2>2, <2>6, OthersKept
<1>2. ASSUME NEW s \in Senders, CallDriver(s) PROVE (\A t \in Senders : FrameOK(t)') /\ fault' = "none"
  <2>1. snd[s].fn = snd[s].iface
    BY <1>2 DEF CallDriver, FrameOK
  <2>2. snd' = [snd EXCEPT ![s] = Idle] /\ UNCHANGED <<saved, loss_iface, fault>>
    BY <1>2, <2>1 DEF CallDriver
  <2>3. snd'[s].pc = "idle"
    BY <2>2 DEF LossTypeOK, Idle
  <2>4. FrameOK(s)'
    BY <2>3 DEF FrameOK, InHook
  <2> QED
    BY <2>2, <2>4, OthersKept
<1>3. ASSUME NEW s \in Senders, CallOther(s) PROVE (\A t \in Senders : FrameOK(t)') /\ fault' = "none"
  <2> DEFINE i == snd[s].iface
  <2>1. snd' = [snd EXCEPT ![s] = [snd[s] EXCEPT !.fn = saved[i]]] /\ UNCHANGED <<saved, loss_iface, fault>>
    BY <1>3 DEF CallOther
  <2>2. /\ snd'[s].pc = "call" /\ snd'[s].iface = i /\ snd'[s].fn = saved[i] /\ snd'[s].depth = snd[s].depth
    BY <1>3, <2>1 DEF CallOther, LossTypeOK
  <2>3. i \in Ifaces /\ (saved[i] = i \/ (saved[i] = "loss" /\ snd[s].depth = 0))
    BY <1>3 DEF CallOther, FrameOK
  <2>4. saved[i] = "loss" => loss_iface = i
    BY <2>3 DEF CleanOK, Hooked
  <2>5. FrameOK(s)'
    BY <2>1, <2>2, <2>3, <2>4 DEF FrameOK, InHook
  <2> QED
    BY <2>1, <2>5, OthersKept
<1>4. ASSUME NEW s \in Senders, CallNull(s) PROVE FALSE
  BY <1>4 DEF CallNull, FrameOK
<1>5. ASSUME NEW s \in Senders, CallLoss(s) PROVE (\A t \in Senders : FrameOK(t)') /\ fault' = "none"
  <2>1. loss_iface = snd[s].iface /\ snd[s].depth # MaxDepth
    BY <1>5, LossAssumption DEF CallLoss, FrameOK
  <2>2. UNCHANGED <<saved, loss_iface, fault>>
    BY <1>5, <2>1 DEF CallLoss
  <2>3. PICK d \in BOOLEAN :
          snd' = [snd EXCEPT ![s].pc = "count", ![s].drop = d, ![s].seen = loss_sent,
                             ![s].depth = snd[s].depth + 1]
    BY <1>5, <2>1 DEF CallLoss
  <2>4. snd' = [snd EXCEPT ![s] = [snd[s] EXCEPT !.pc = "count", !.drop = d, !.seen = loss_sent,
                                                 !.depth = snd[s].depth + 1]]
    BY <2>3 DEF LossTypeOK
  <2>5. snd'[s].pc = "count" /\ snd'[s].iface = snd[s].iface
    BY <2>4 DEF LossTypeOK
  <2>6. FrameOK(s)'
    BY <2>1, <2>2, <2>5 DEF FrameOK, InHook
  <2> QED
    BY <2>2, <2>4, <2>6, OthersKept
<1>6. ASSUME NEW s \in Senders, Count(s) \/ CountDrop(s) PROVE (\A t \in Senders : FrameOK(t)') /\ fault' = "none"
  <2>1. UNCHANGED <<saved, loss_iface, fault>>
    BY <1>6 DEF Count, CountDrop
  <2>2. PICK f : snd' = [snd EXCEPT ![s] = f] /\ f.pc \in {"held", "free"} /\ f.iface = snd[s].iface
    <3>1. CASE Count(s)
      <4>1. [snd[s] EXCEPT !.pc = "held"].pc = "held" /\ [snd[s] EXCEPT !.pc = "held"].iface = snd[s].iface
        BY DEF LossTypeOK
      <4> QED
        BY <3>1, <4>1 DEF Count
    <3>2. CASE CountDrop(s)
      <4> DEFINE f == [snd[s] EXCEPT !.pc = "free", !.seen = loss_dropped]
      <4>1. f.pc = "free" /\ f.iface = snd[s].iface
        BY DEF LossTypeOK
      <4> QED
        BY <3>2, <4>1 DEF CountDrop
    <3> QED
      BY <1>6, <3>1, <3>2
  <2>3. snd'[s] = f
    BY <2>2 DEF LossTypeOK
  <2>4. InHook(s) /\ loss_iface = snd[s].iface
    BY <1>6 DEF Count, CountDrop, InHook, FrameOK
  <2>5. FrameOK(s)'
    BY <2>1, <2>2, <2>3, <2>4 DEF FrameOK, InHook
  <2> QED
    BY <2>1, <2>2, <2>5, OthersKept
<1>7. ASSUME NEW s \in Senders, Pass(s) PROVE (\A t \in Senders : FrameOK(t)') /\ fault' = "none"
  <2> DEFINE i == snd[s].iface
  <2>1. snd' = [snd EXCEPT ![s] = [snd[s] EXCEPT !.pc = "call", !.fn = loss_real_nexthop]]
    BY <1>7 DEF Pass
  <2>2. UNCHANGED <<saved, loss_iface, fault>>
    BY <1>7 DEF Pass
  <2>3. snd'[s].pc = "call" /\ snd'[s].iface = i /\ snd'[s].fn = loss_real_nexthop
    BY <2>1 DEF LossTypeOK
  <2>4. i \in Ifaces /\ loss_iface = i
    BY <1>7 DEF Pass, FrameOK, InHook
  <2>5. loss_real_nexthop \in {i, "other"} /\ (loss_real_nexthop = "other" => saved[i] = i)
    BY <2>4 DEF CleanOK
  <2>6. FrameOK(s)'
    BY <2>2, <2>3, <2>4, <2>5 DEF FrameOK, InHook
  <2> QED
    BY <2>1, <2>2, <2>6, OthersKept
<1>8. ASSUME NEW s \in Senders, Free(s) PROVE (\A t \in Senders : FrameOK(t)') /\ fault' = "none"
  <2>1. snd' = [snd EXCEPT ![s] = Idle] /\ UNCHANGED <<saved, loss_iface, fault>>
    BY <1>8 DEF Free, Freed
  <2>2. snd'[s].pc = "idle"
    BY <2>1 DEF LossTypeOK, Idle
  <2>3. FrameOK(s)'
    BY <2>2 DEF FrameOK, InHook
  <2> QED
    BY <2>1, <2>3, OthersKept
<1>9. ASSUME UNCHANGED <<snd, fault, saved, loss_iface>> PROVE (\A t \in Senders : FrameOK(t)') /\ fault' = "none"
  BY <1>9 DEF FrameOK, InHook
<1>10. ASSUME NEW o \in LossOptions, NEW i \in Ifaces, StartConfigure(o, i)
       PROVE  UNCHANGED <<snd, fault, saved, loss_iface>>
  BY <1>10 DEF StartConfigure
<1>11. Save \/ StopUnhook => UNCHANGED <<snd, fault, saved, loss_iface>>
  BY DEF Save, StopUnhook
<1>12. CASE Install
  <2>1. loss_iface = Null /\ UNCHANGED <<snd, fault, saved>>
    BY <1>12 DEF Install, CommandOK
  <2>2. \A t \in Senders : ~InHook(t) /\ ~(snd[t].pc = "call" /\ snd[t].fn = "loss")
    BY <2>1 DEF FrameOK, InHook
  <2> QED
    BY <2>1, <2>2 DEF FrameOK, InHook
<1>13. CASE StopClear
  <2>1. UNCHANGED <<snd, fault, saved>> /\ \A t \in Senders : ~Bound(t)
    BY <1>13 DEF StopClear
  <2> QED
    BY <2>1 DEF FrameOK, InHook, Bound
<1>14. ASSUME NEW i \in Ifaces, OtherInstall(i) PROVE (\A t \in Senders : FrameOK(t)') /\ fault' = "none"
  <2>1. /\ saved[i] = Null /\ UNCHANGED <<snd, fault, loss_iface>>
        /\ \A j \in Ifaces : j # i => saved'[j] = saved[j]
    BY <1>14 DEF OtherInstall, LossTypeOK
  <2>2. \A t \in Senders : snd[t].pc = "call" /\ snd[t].fn = "other" => snd[t].iface # i
    BY <2>1 DEF FrameOK
  <2> QED
    BY <2>1, <2>2 DEF FrameOK, InHook
<1>15. ASSUME NEW i \in Ifaces, OtherRemove(i) PROVE (\A t \in Senders : FrameOK(t)') /\ fault' = "none"
  <2>1. /\ UNCHANGED <<snd, fault, loss_iface>>
        /\ \A j \in Ifaces : j # i => saved'[j] = saved[j]
        /\ \A t \in Senders : snd[t].pc = "call" /\ snd[t].fn = "other" => snd[t].iface # i
    BY <1>15 DEF OtherRemove, LossTypeOK
  <2> QED
    BY <2>1 DEF FrameOK, InHook
<1>16. CASE UNCHANGED lossVars
  BY <1>16, <1>9 DEF lossVars
<1> QED
  BY <1>1, <1>2, <1>3, <1>4, <1>5, <1>6, <1>7, <1>8, <1>9, <1>10, <1>11, <1>12, <1>13, <1>14, <1>15, <1>16
  DEF LossNext

-----------------------------------------------------------------------------
(* The packets and the counters                                            *)

Busy == {s \in Senders : snd[s].pc # "idle"}

\* One more, or one less, packet in a thread's hands.
LEMMA OneMore ==
  ASSUME LossTypeOK, NEW s \in Senders, NEW f, snd' = [snd EXCEPT ![s] = f],
         snd[s].pc = "idle", f.pc # "idle"
  PROVE  Cardinality(Busy') = Cardinality(Busy) + 1
<1>1. Busy' = Busy \cup {s} /\ s \notin Busy
  BY DEF Busy, LossTypeOK
<1>2. IsFiniteSet(Busy)
  BY LossAssumption, FS_Subset DEF Busy
<1> QED
  BY <1>1, <1>2, FS_AddElement

LEMMA OneLess ==
  ASSUME LossTypeOK, NEW s \in Senders, NEW f, snd' = [snd EXCEPT ![s] = f],
         snd[s].pc # "idle", f.pc = "idle"
  PROVE  Cardinality(Busy') = Cardinality(Busy) - 1
<1>1. Busy' = Busy \ {s} /\ s \in Busy
  BY DEF Busy, LossTypeOK
<1>2. IsFiniteSet(Busy)
  BY LossAssumption, FS_Subset DEF Busy
<1> QED
  BY <1>1, <1>2, FS_RemoveElement

LEMMA ConsumedInit == LossInit => PacketConsumed
<1> SUFFICES ASSUME LossInit PROVE PacketConsumed
  OBVIOUS
<1>1. {s \in Senders : snd[s].pc # "idle"} = {}
  BY DEF LossInit, Idle
<1>2. Cardinality({}) = 0
  BY FS_EmptySet
<1> QED
  BY <1>1, <1>2 DEF LossInit, PacketConsumed

LEMMA ConsumedNext ==
  ASSUME LossTypeOK, PacketConsumed, [LossNext]_lossVars
  PROVE  PacketConsumed'
<1> USE DEF hookVars, stateVars, countVars, frameVars, pastVars
<1>0. /\ offered \in Nat /\ delivered \in Nat /\ freed \in Nat
      /\ offered = delivered + freed + Cardinality(Busy)
      /\ Cardinality(Busy) \in Nat
  <2>1. IsFiniteSet(Busy)
    BY LossAssumption, FS_Subset DEF Busy
  <2> QED
    BY <2>1, FS_CardinalityType DEF LossTypeOK, PacketConsumed, Busy
<1> SUFFICES offered' = delivered' + freed' + Cardinality(Busy')
  BY DEF PacketConsumed, Busy
<1>1. ASSUME NEW s \in Senders, LossSend(s) PROVE offered' = delivered' + freed' + Cardinality(Busy')
  <2>1. PICK i \in Ifaces : snd' = [snd EXCEPT ![s] = [Idle EXCEPT !.pc = "call", !.iface = i, !.fn = nexthop[i]]]
    BY <1>1 DEF LossSend
  <2>2. [Idle EXCEPT !.pc = "call", !.iface = i, !.fn = nexthop[i]].pc = "call"
    BY DEF Idle
  <2>3. Cardinality(Busy') = Cardinality(Busy) + 1
    BY <1>1, <2>1, <2>2, OneMore DEF LossSend
  <2> QED
    BY <1>0, <1>1, <2>3 DEF LossSend
<1>2. ASSUME NEW s \in Senders, CallDriver(s) PROVE offered' = delivered' + freed' + Cardinality(Busy')
  <2>1. CASE snd[s].fn = snd[s].iface
    <3>1. snd' = [snd EXCEPT ![s] = Idle] /\ delivered' = delivered + 1 /\ UNCHANGED <<offered, freed>>
      BY <1>2, <2>1 DEF CallDriver
    <3>2. Cardinality(Busy') = Cardinality(Busy) - 1
      BY <1>2, <3>1, OneLess DEF CallDriver, Idle
    <3> QED
      BY <1>0, <3>1, <3>2
  <2>2. CASE snd[s].fn # snd[s].iface
    BY <1>0, <1>2, <2>2 DEF CallDriver, Busy
  <2> QED
    BY <2>1, <2>2
<1>3. ASSUME NEW s \in Senders, Free(s) PROVE offered' = delivered' + freed' + Cardinality(Busy')
  <2>1. snd' = [snd EXCEPT ![s] = Idle] /\ freed' = freed + 1 /\ UNCHANGED <<offered, delivered>>
    BY <1>3 DEF Free, Freed
  <2>2. Cardinality(Busy') = Cardinality(Busy) - 1
    BY <1>3, <2>1, OneLess DEF Free, Idle
  <2> QED
    BY <1>0, <2>1, <2>2
<1>4. ASSUME NEW s \in Senders, CallOther(s) \/ CallLoss(s) \/ Count(s) \/ Pass(s) \/ CountDrop(s)
      PROVE  offered' = delivered' + freed' + Cardinality(Busy')
  <2>1. UNCHANGED <<offered, delivered, freed>>
    BY <1>4 DEF CallOther, CallLoss, Count, Pass, CountDrop
  <2>2. /\ snd[s].pc # "idle"
        /\ \A t \in Senders : snd'[t].pc # "idle" <=> snd[t].pc # "idle"
    <3>1. CASE CallOther(s)
      BY <3>1 DEF CallOther, LossTypeOK
    <3>2. CASE CallLoss(s)
      <4>1. CASE snd[s].depth = MaxDepth
        BY <3>2, <4>1 DEF CallLoss
      <4>2. CASE snd[s].depth # MaxDepth
        <5>1. PICK d \in BOOLEAN :
                snd' = [snd EXCEPT ![s].pc = "count", ![s].drop = d, ![s].seen = loss_sent,
                                   ![s].depth = snd[s].depth + 1]
          BY <3>2, <4>2 DEF CallLoss
        <5>2. snd'[s].pc = "count" /\ \A t \in Senders : t # s => snd'[t] = snd[t]
          BY <5>1 DEF LossTypeOK
        <5> QED
          BY <3>2, <5>2 DEF CallLoss
      <4> QED
        BY <4>1, <4>2
    <3>3. CASE Count(s)
      BY <3>3 DEF Count, LossTypeOK
    <3>4. CASE Pass(s)
      BY <3>4 DEF Pass, LossTypeOK
    <3>5. CASE CountDrop(s)
      BY <3>5 DEF CountDrop, LossTypeOK
    <3> QED
      BY <1>4, <3>1, <3>2, <3>3, <3>4, <3>5
  <2>3. Busy' = Busy
    BY <2>2 DEF Busy
  <2> QED
    BY <1>0, <2>1, <2>3
<1>5. ASSUME UNCHANGED <<snd, offered, delivered, freed>> PROVE offered' = delivered' + freed' + Cardinality(Busy')
  BY <1>0, <1>5 DEF Busy
<1>6. ASSUME NEW s \in Senders, CallNull(s) PROVE UNCHANGED <<snd, offered, delivered, freed>>
  BY <1>6 DEF CallNull
<1>7. ASSUME NEW o \in LossOptions, NEW i \in Ifaces, StartConfigure(o, i)
      PROVE  UNCHANGED <<snd, offered, delivered, freed>>
  BY <1>7 DEF StartConfigure
<1>8. Save \/ Install \/ StopUnhook \/ StopClear => UNCHANGED <<snd, offered, delivered, freed>>
  BY DEF Save, Install, StopUnhook, StopClear
<1>9. ASSUME NEW i \in Ifaces, OtherInstall(i) \/ OtherRemove(i) PROVE UNCHANGED <<snd, offered, delivered, freed>>
  BY <1>9 DEF OtherInstall, OtherRemove
<1>10. CASE UNCHANGED lossVars
  BY <1>10, <1>5 DEF lossVars
<1> QED
  BY <1>1, <1>2, <1>3, <1>4, <1>5, <1>6, <1>7, <1>8, <1>9, <1>10 DEF LossNext

LEMMA CountsInit == LossInit => CountsOK
  BY DEF LossInit, CountsOK, InHook, Idle

LEMMA CountsNext ==
  ASSUME LossTypeOK, CountsOK, [LossNext]_lossVars
  PROVE  CountsOK'
<1> SUFFICES ASSUME ~shared' PROVE CountsOK'
  BY DEF CountsOK
<1> USE DEF hookVars, stateVars, countVars, frameVars, pastVars
<1>a. loss_sent \in Nat /\ loss_dropped \in Nat /\ shared \in BOOLEAN
  BY DEF LossTypeOK
<1>1. ASSUME NEW s \in Senders, CallLoss(s), snd[s].depth # MaxDepth PROVE CountsOK'
  <2>1. /\ shared' = (shared \/ \E t \in Senders \ {s} : InHook(t)) /\ UNCHANGED <<loss_sent, loss_dropped>>
    BY <1>1 DEF CallLoss
  <2>2. ~shared /\ \A t \in Senders : t # s => ~InHook(t)
    BY <2>1, Zenon
  <2>3. PICK d \in BOOLEAN :
          snd' = [snd EXCEPT ![s].pc = "count", ![s].drop = d, ![s].seen = loss_sent,
                             ![s].depth = snd[s].depth + 1]
    BY <1>1 DEF CallLoss
  <2>4. /\ snd'[s].pc = "count" /\ snd'[s].seen = loss_sent
        /\ \A t \in Senders : t # s => snd'[t] = snd[t]
    BY <2>3 DEF LossTypeOK
  <2> QED
    BY <2>1, <2>2, <2>4 DEF CountsOK, InHook
<1>2. ASSUME NEW s \in Senders, Count(s) PROVE CountsOK'
  <2>1. /\ snd' = [snd EXCEPT ![s].pc = "held"] /\ loss_sent' = snd[s].seen + 1
        /\ UNCHANGED <<loss_dropped, shared>> /\ InHook(s)
    BY <1>2 DEF Count, CountSent, InHook
  <2>2. loss_dropped <= loss_sent /\ loss_sent' = loss_sent + 1
    BY <1>2, <2>1 DEF Count, CountsOK
  <2>3. snd'[s].pc = "held" /\ \A t \in Senders : t # s => snd'[t] = snd[t] /\ ~InHook(t)
    BY <2>1 DEF LossTypeOK, CountsOK
  <2> QED
    BY <1>a, <2>1, <2>2, <2>3 DEF CountsOK, InHook
<1>3. ASSUME NEW s \in Senders, CountDrop(s) PROVE CountsOK'
  <2>1. /\ snd' = [snd EXCEPT ![s].pc = "free", ![s].seen = loss_dropped]
        /\ UNCHANGED <<loss_sent, loss_dropped, shared>> /\ InHook(s)
    BY <1>3 DEF CountDrop, InHook
  <2>2. loss_dropped < loss_sent
    BY <1>3, <2>1 DEF CountDrop, CountsOK
  <2>3. /\ snd'[s].pc = "free" /\ snd'[s].seen = loss_dropped
        /\ \A t \in Senders : t # s => snd'[t] = snd[t] /\ ~InHook(t)
    BY <2>1 DEF LossTypeOK, CountsOK
  <2> QED
    BY <1>a, <2>1, <2>2, <2>3 DEF CountsOK, InHook
<1>4. ASSUME NEW s \in Senders, Free(s) PROVE CountsOK'
  <2>1. /\ snd' = [snd EXCEPT ![s] = Idle] /\ loss_dropped' = snd[s].seen + 1
        /\ UNCHANGED <<loss_sent, shared>> /\ InHook(s)
    BY <1>4 DEF Free, Freed, InHook
  <2>2. loss_dropped < loss_sent /\ loss_dropped' = loss_dropped + 1
    BY <1>4, <2>1 DEF Free, CountsOK
  <2>3. snd'[s].pc = "idle" /\ \A t \in Senders : t # s => snd'[t] = snd[t] /\ ~InHook(t)
    BY <2>1 DEF LossTypeOK, CountsOK, Idle
  <2> QED
    BY <1>a, <2>1, <2>2, <2>3 DEF CountsOK, InHook
<1>5. ASSUME NEW s \in Senders, LossSend(s) \/ CallDriver(s) \/ CallOther(s) \/ Pass(s) PROVE CountsOK'
  <2>1. UNCHANGED <<loss_sent, loss_dropped, shared>>
    BY <1>5 DEF LossSend, CallDriver, CallOther, Pass
  <2>2. \A t \in Senders : InHook(t)' => InHook(t) /\ snd'[t] = snd[t]
    <3>1. CASE LossSend(s)
      BY <3>1 DEF LossSend, LossTypeOK, Idle, InHook
    <3>2. CASE CallDriver(s)
      BY <3>2 DEF CallDriver, LossTypeOK, Idle, InHook
    <3>3. CASE CallOther(s)
      BY <3>3 DEF CallOther, LossTypeOK, InHook
    <3>4. CASE Pass(s)
      BY <3>4 DEF Pass, LossTypeOK, InHook
    <3> QED
      BY <1>5, <3>1, <3>2, <3>3, <3>4
  <2> QED
    BY <2>1, <2>2 DEF CountsOK, InHook
<1>6. ASSUME UNCHANGED <<snd, loss_sent, loss_dropped, shared>> PROVE CountsOK'
  BY <1>6 DEF CountsOK, InHook
<1>7. ASSUME NEW s \in Senders, CallNull(s) \/ (CallLoss(s) /\ snd[s].depth = MaxDepth)
      PROVE  UNCHANGED <<snd, loss_sent, loss_dropped, shared>>
  BY <1>7 DEF CallNull, CallLoss
<1>8. ASSUME NEW o \in LossOptions, NEW i \in Ifaces, StartConfigure(o, i) PROVE CountsOK'
  <2>1. /\ loss_sent' = 0 /\ loss_dropped' = 0 /\ UNCHANGED snd
        /\ shared' = (shared \/ \E s \in Senders : InHook(s))
    BY <1>8 DEF StartConfigure
  <2>2. \A s \in Senders : ~InHook(s)
    BY <2>1, Zenon
  <2> QED
    BY <2>1, <2>2 DEF CountsOK, InHook
<1>9. Save \/ Install \/ StopUnhook \/ StopClear => UNCHANGED <<snd, loss_sent, loss_dropped, shared>>
  BY DEF Save, Install, StopUnhook, StopClear
<1>10. ASSUME NEW i \in Ifaces, OtherInstall(i) \/ OtherRemove(i)
       PROVE  UNCHANGED <<snd, loss_sent, loss_dropped, shared>>
  BY <1>10 DEF OtherInstall, OtherRemove
<1>11. CASE UNCHANGED lossVars
  BY <1>11, <1>6 DEF lossVars
<1> QED
  BY <1>1, <1>2, <1>3, <1>4, <1>5, <1>6, <1>7, <1>8, <1>9, <1>10, <1>11 DEF LossNext

-----------------------------------------------------------------------------
(* Theorems                                                                *)

LEMMA HookInvInit == LossInit => HookInv
<1>1. LossInit => FramesOK
  BY DEF LossInit, FramesOK, FrameOK, InHook, Idle
<1>2. LossInit => FaultOnlyAfterRacedStop
  BY DEF LossInit, FaultOnlyAfterRacedStop
<1> QED
  BY <1>1, <1>2, InitType, PointerInit DEF HookInv

LEMMA HookInvNext == HookInv /\ [LossNext]_lossVars => HookInv'
  BY TypeNext, PointerNext, FramesNext DEF HookInv

\* The inductive invariant: the pointers start and stop leave behind, and where the
\* frames in loss_nexthop stand.
THEOREM HookInvariance == LossSpec => []HookInv
  BY HookInvInit, HookInvNext, PTL DEF LossSpec

\* Type correctness of the hook: a pointer of csp_loss_apm.c is a driver, one of the
\* two hooks or null, and a thread inside the hook has an interface.
THEOREM TypeCorrect == LossSpec => []LossTypeOK
<1>1. HookInv => LossTypeOK
  BY DEF HookInv
<1> QED
  BY <1>1, HookInvariance, PTL

\* Transmitting through loss_nexthop kills the process only after a `csp_loss stop`
\* that met a frame in the hook, or another module's hook on top of it.
THEOREM OnlyRacedStopsFault == LossSpec => []FaultOnlyAfterRacedStop
<1>1. HookInv => FaultOnlyAfterRacedStop
  BY DEF HookInv
<1> QED
  BY <1>1, HookInvariance, PTL

LEMMA ChainFromPointers == ASSUME LossTypeOK, PointerInv PROVE HookChain
<1> USE Names DEF Chain, Calls
<1> SUFFICES ASSUME command.pc = "idle", NEW i \in Ifaces
             PROVE  /\ saved[i] # Null => "other" \in Chain(i)
                    /\ ~buried => Chain(i) = {i} \cup {f \in {"loss"} : loss_iface = i}
                                                 \cup {f \in {"other"} : saved[i] # Null}
  BY DEF HookChain
<1>0. Hooked(i) <=> loss_iface = i
  BY DEF Hooked
<1>1. CASE Hooked(i) /\ nexthop[i] = "loss"
  <2>1. loss_real_nexthop = "other" <=> saved[i] # Null
    BY <1>1 DEF PointerInv, HooksOK
  <2>2. ~buried => loss_real_nexthop \in {i, "other"} /\ (loss_real_nexthop = "other" => saved[i] = i)
    BY <1>0, <1>1 DEF PointerInv, CleanOK
  <2> QED
    BY <1>0, <1>1, <2>1, <2>2
<1>2. CASE Hooked(i) /\ nexthop[i] = "other" /\ saved[i] = "loss"
  <2>1. loss_real_nexthop # "other"
    BY <1>2 DEF PointerInv, HooksOK
  <2>2. ~buried => loss_real_nexthop = i
    BY <1>0, <1>2, <2>1 DEF PointerInv, CleanOK
  <2> QED
    BY <1>0, <1>2, <2>2
<1>3. CASE ~Hooked(i)
  <2>1. nexthop[i] = "other" <=> saved[i] # Null
    BY <1>3 DEF PointerInv, HooksOK
  <2>2. ~buried => nexthop[i] \in {i, "other"} /\ saved[i] \in {Null, i}
    BY <1>3 DEF PointerInv, CleanOK
  <2> QED
    BY <1>0, <1>3, <2>1, <2>2
<1> QED
  BY <1>1, <1>2, <1>3 DEF PointerInv, HooksOK

\* Between two commands every interface leads through the hooks that are on and to
\* its own driver, whatever order loss and the other module came and went in.
THEOREM ChainRestored == LossSpec => []HookChain
<1>1. HookInv => HookChain
  BY ChainFromPointers DEF HookInv
<1> QED
  BY <1>1, HookInvariance, PTL

\* nexthop consumes every packet it is given exactly once, whether the hook frees it
\* or the driver takes it, and whatever stop does meanwhile.
THEOREM EveryPacketConsumed == LossSpec => []PacketConsumed
<1>1. LossTypeOK /\ LossTypeOK' /\ PacketConsumed /\ [LossNext]_lossVars => PacketConsumed'
  BY ConsumedNext
<1> QED
  BY <1>1, ConsumedInit, TypeCorrect, PTL DEF LossSpec

\* The number of frames `csp_loss status` prints as delivered is negative only if two
\* frames, or a frame and a start, have met in the hook.
THEOREM NeverNegative == LossSpec => []DeliveredNotNegative
<1>1. LossTypeOK /\ CountsOK /\ [LossNext]_lossVars => CountsOK'
  BY CountsNext
<1>2. LossTypeOK /\ CountsOK => DeliveredNotNegative
  BY DEF LossTypeOK, CountsOK, DeliveredNotNegative
<1> QED
  BY <1>1, <1>2, CountsInit, TypeCorrect, PTL DEF LossSpec

LEMMA DropStep ==
  ASSUME HookInv, [LossNext]_lossVars, NEW s \in Senders,
         snd[s].pc = "call", snd'[s].pc = "count", ~overlapped, ~buried
  PROVE  loss_iface = snd[s].iface
<1> USE DEF HookInv, LossTypeOK
<1>1. snd[s].fn = "loss" => loss_iface = snd[s].iface
  BY DEF FramesOK, FrameOK
<1>2. ASSUME NEW t \in Senders,
             \/ LossSend(t) \/ CallDriver(t) \/ CallOther(t) \/ CallNull(t)
             \/ Count(t) \/ Pass(t) \/ CountDrop(t) \/ Free(t)
      PROVE  FALSE
  <2>1. CASE LossSend(t)
    BY <2>1 DEF LossSend, Idle
  <2>2. CASE CallDriver(t)
    BY <2>2 DEF CallDriver, Idle
  <2>3. CASE CallOther(t)
    BY <2>3 DEF CallOther
  <2>4. CASE CallNull(t)
    BY <2>4 DEF CallNull
  <2>5. CASE Count(t) \/ Pass(t) \/ CountDrop(t)
    BY <2>5 DEF Count, Pass, CountDrop
  <2>6. CASE Free(t)
    BY <2>6 DEF Free, Freed, Idle
  <2> QED
    BY <1>2, <2>1, <2>2, <2>3, <2>4, <2>5, <2>6
<1>3. ASSUME NEW t \in Senders, CallLoss(t) PROVE snd[s].fn = "loss"
  BY <1>3 DEF CallLoss
<1>4. ~UNCHANGED snd
  OBVIOUS
<1> QED
  BY <1>1, <1>2, <1>3, <1>4
     DEF LossNext, StartConfigure, Save, Install, StopUnhook, StopClear, OtherInstall, OtherRemove, lossVars

\* A frame is only dropped on the interface `csp_loss start` hooked, and none after
\* stop, as long as no stop has been raced.
THEOREM DropsOnlyWhereHooked == LossSpec => DropsOnHookedIface
<1>1. HookInv /\ [LossNext]_lossVars
      => [\A s \in Senders : snd[s].pc = "call" /\ snd'[s].pc = "count" /\ snd'[s].drop
            => loss_iface = snd[s].iface \/ command.pc = "hook" \/ overlapped \/ buried]_lossVars
  BY DropStep
<1> QED
  BY <1>1, HookInvariance, PTL DEF LossSpec, DropsOnHookedIface
=============================================================================

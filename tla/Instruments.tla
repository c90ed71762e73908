----------------------------- MODULE Instruments ----------------------------
(***************************************************************************)
(* The instruments beside the shim and the proxy: LossHook, LinkProbe,     *)
(* MonitorVerdict, RttPairing and Bridge.  Each is a program, or a module  *)
(* loaded into one, of its own and they share no state, so that a          *)
(* behaviour uses one of them.                                             *)
(***************************************************************************)
EXTENDS LossHook, LinkProbe, MonitorVerdict, RttPairing, Bridge

VARIABLE tool  \* the instrument in use

Init == /\ tool \in {"loss", "link", "monitor", "rtt", "bridge"}
        /\ LossInit /\ LinkInit /\ VerdictInit /\ RttInit /\ BridgeInit
        /\ g_dedup_on => tool = "bridge"

Loss    == tool = "loss" /\ LossNext /\ UNCHANGED <<tool, linkVars, verdictVars, rttVars, bridgeVars>>
Link    == tool = "link" /\ LinkNext /\ UNCHANGED <<tool, lossVars, verdictVars, rttVars, bridgeVars>>
Monitor == tool = "monitor" /\ VerdictNext /\ UNCHANGED <<tool, lossVars, linkVars, rttVars, bridgeVars>>
Rtt     == tool = "rtt" /\ RttNext /\ UNCHANGED <<tool, lossVars, linkVars, verdictVars, bridgeVars>>
Pump    == tool = "bridge" /\ BridgeNext /\ UNCHANGED <<tool, lossVars, linkVars, verdictVars, rttVars>>

Poller  == tool = "monitor" /\ mon_poller /\ UNCHANGED <<tool, lossVars, linkVars, rttVars, bridgeVars>>

vars == <<tool, lossVars, linkVars, verdictVars, rttVars, bridgeVars>>

Next == Loss \/ Link \/ Monitor \/ Rtt \/ Pump

\* The poller's thread keeps running.
FairSpec == Init /\ [][Next]_vars /\ WF_vars(Poller)

\* Type invariant of the instruments.
TypeOK == LossTypeOK /\ LinkTypeOK /\ VerdictTypeOK /\ BridgeTypeOK
=============================================================================

------------------------------ MODULE MCMonitor -----------------------------
(***************************************************************************)
(* A small instance of Monitor for TLC.                                    *)
(***************************************************************************)
EXTENDS Monitor

\* The flow's third packet has sequence number 0.
LateIsn == {SeqSpace - 2}
=============================================================================

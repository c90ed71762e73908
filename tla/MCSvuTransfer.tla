--------------------------- MODULE MCSvuTransfer ----------------------------
(***************************************************************************)
(* Small instances of SvuTransfer for TLC.                                 *)
(***************************************************************************)
EXTENDS SvuTransfer

\* Two files of different length that agree on some bytes, and one so long that
\* its block count wraps around the word (with Word = 5).
FileA     == <<1, 0, 1>>
FileB     == <<1, 1>>
FileBig   == <<1, 0, 0, 1>>
OneFile   == {FileA}
TwoFiles  == {FileA, FileB}
AllFiles  == {FileA, FileB, FileBig}

\* A frame of FileB left over from an earlier transfer.
Leftover  == {[off |-> 1, bytes |-> <<1>>]}
NoFrames  == {}
=============================================================================

--------------------------- MODULE VerifiedUpload ---------------------------
(***************************************************************************)
(* What the Self-Verifying Uploader promises the user of one transfer      *)
(* (svu/svu_session.h, svu/svu_push.c): the call ends with a verdict;      *)
(* "verified" means that the output file is one of the files that was      *)
(* offered while the call ran, whole; "failed" leaves the output file as   *)
(* it was.                                                                 *)
(***************************************************************************)
CONSTANTS Files, None

VARIABLES
  offered,  \* the files offered so far
  content,  \* the output file; None: as it was before the call
  outcome   \* "running", "verified" or "failed"

uploadVars == <<offered, content, outcome>>

Init ==
  /\ \E f \in Files : offered = {f}
  /\ content = None
  /\ outcome = "running"

\* The sender starts to offer a file.
Offer ==
  /\ outcome = "running"
  /\ \E f \in Files : offered' = offered \cup {f}
  /\ UNCHANGED <<content, outcome>>

\* The output file is emptied, once the decision to write it has been made.
Prepare ==
  /\ outcome = "running"
  /\ content = None
  /\ content' = <<>>
  /\ UNCHANGED <<offered, outcome>>

\* The file is written whole and success is reported.
Deliver ==
  /\ outcome = "running"
  /\ content # None
  /\ content' \in offered
  /\ outcome' = "verified"
  /\ UNCHANGED offered

\* Failure is reported and the old output file is still there.
GiveUp ==
  /\ outcome = "running"
  /\ content = None
  /\ outcome' = "failed"
  /\ UNCHANGED <<offered, content>>

Next == Offer \/ Prepare \/ Deliver \/ GiveUp

Spec == Init /\ [][Next]_uploadVars
=============================================================================

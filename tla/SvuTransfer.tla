---------------------------- MODULE SvuTransfer -----------------------------
(***************************************************************************)
(* One self-verifying transfer: svu_client_run (svu/svu_session.c) pulling *)
(* a file from svu_serve_loop (svu/svu_serve.c) over a CSP link that       *)
(* loses, repeats, reorders, delays and damages packets.                   *)
(*                                                                         *)
(* A round is a control exchange (request out; response header and         *)
(* manifest chunks back, on a connection of its own) followed by a drain   *)
(* of the connectionless data port.  The client installs the manifest of   *)
(* its first successful exchange and keeps it; after a drain it asks again *)
(* for the ranges its tracker reports, at most MaxIntervals of them.  It   *)
(* writes the output file only when the tracker reports the payload        *)
(* complete and verified.                                                  *)
(*                                                                         *)
(* Time is left out.  A time-out is free when nothing more can arrive, and *)
(* counts as a fault when the awaited packet is merely late.               *)
(***************************************************************************)
EXTENDS SvuTracker, SequencesExt

CONSTANTS
  Files,            \* the files a sender may serve
  Pay,              \* payload bytes of a data frame (mtu - SVU_DATA_HDR)
  MaxIntervals,     \* SVU_MAX_INTERVALS, ranges in one request
  MaxRounds,        \* max_rounds, rounds before the client gives up
  Attempts,         \* control exchanges tried in one round
  StaleFrames,      \* frames of earlier transfers that may still be in flight
  MaxFaults,        \* bound: faults of the link and the buffer pool
  MaxRestarts,      \* bound: times the serving process is replaced
  CtrlMayDuplicate, \* whether the link may repeat a manifest chunk
  DiskMayFill,      \* whether fwrite may store less than it was given
  None              \* the output file is as it was before the call

\* A data frame as it travels: the offset of its header and its payload.
Frame == [off : Nat, bytes : Seq(Byte)]

ASSUME TransferAssumption ==
  /\ Files \subseteq Seq(Byte)
  /\ \A f \in Files : Len(f) < Word
  /\ Pay \in Nat \ {0}
  /\ MaxIntervals \in Nat \ {0}
  /\ MaxRounds \in Nat \ {0}
  /\ Attempts \in Nat \ {0}
  /\ StaleFrames \subseteq Frame
  /\ MaxFaults \in Nat
  /\ MaxRestarts \in Nat
  /\ CtrlMayDuplicate \in BOOLEAN
  /\ DiskMayFill \in BOOLEAN
  /\ None \notin Seq(Byte)

VARIABLES
  \* the sender
  src,      \* the file being served
  offered,  \* history: every file served so far
  backlog,  \* requests waiting in csp_accept; live: the client still waits
  \* the link
  reply,    \* response packets under way to the client's open connection
  rfile,    \* the file those packets describe
  data,     \* data frames under way, or waiting in the data socket
  \* the client
  pc,       \* where svu_client_run is
  round, attempt,
  ivs,      \* the ranges of the next request; {} asks for the whole file
  man,      \* manifest chunks read in this exchange
  recv,     \* the tracker
  got,      \* this drain accepted a frame
  disk,     \* content of the output file
  result,   \* what the call returned
  \* the bounds
  faults, restarts

senderVars == <<src, offered, restarts>>
ctrlVars   == <<backlog, reply, rfile, man>>
clientVars == <<pc, round, attempt, ivs, recv, got, disk, result>>
vars == <<src, offered, backlog, reply, rfile, data, pc, round, attempt, ivs,
          man, recv, got, disk, result, faults, restarts>>

-----------------------------------------------------------------------------
(* What travels                                                            *)

Request == [live : BOOLEAN, ivs : SUBSET Interval]

\* Packet 0 of a response is its header, packet b+1 the chunk with digest b.
Packets(f) == [k \in 1 .. ci_svu_nblocks(Len(f)) + 1 |-> k - 1]

\* The manifest the client has put together from the chunks it read.
Assembled(f, chunks) ==
  [b \in 0 .. Len(chunks) - 1 |-> hash_block(f, chunks[b + 1] - 1)]

\* Faulty variant: a range of a single byte counts as empty.
BlastRangesSkipSingle(f, req) ==
  IF req = {}
  THEN {<<0, Len(f)>>}
  ELSE {iv \in {<<jv[1], IF jv[2] > Len(f) THEN Len(f) ELSE jv[2]>> : jv \in req} :
          iv[1] + 1 < iv[2]}

\* The ranges svu_serve_loop blasts for a request: the whole file for an empty
\* list, otherwise each range clamped to the file, empty ones skipped.
BlastRanges(f, req) ==
  IF req = {}
  THEN {iv \in {<<0, Len(f)>>} : iv[1] < iv[2]}
  ELSE {iv \in {<<jv[1], IF jv[2] > Len(f) THEN Len(f) ELSE jv[2]>> : jv \in req} :
          iv[1] < iv[2]}

\* The frames of one blasted range: Pay bytes each, the last one shorter.
blast_interval(f, iv) ==
  {[off   |-> o,
    bytes |-> SubSeq(f, o + 1, IF o + Pay <= iv[2] THEN o + Pay ELSE iv[2])] :
     o \in {p \in iv[1] .. iv[2] - 1 : (p - iv[1]) % Pay = 0}}

BlastAll(f, req) == UNION {blast_interval(f, iv) : iv \in BlastRanges(f, req)}

\* What is sent when csp_buffer_get runs dry: a range stops at its cut.
BlastCut(f, req, cut) ==
  {fr \in BlastAll(f, req) :
     \E iv \in BlastRanges(f, req) : fr \in blast_interval(f, iv) /\ fr.off < cut[iv]}

Fault == faults < MaxFaults /\ faults' = faults + 1

-----------------------------------------------------------------------------
Init ==
  /\ src \in Files
  /\ offered = {src}
  /\ backlog = <<>>
  /\ reply = <<>>
  /\ rfile = src
  /\ data \in SUBSET StaleFrames
  /\ pc = "ctrl"
  /\ round = 1
  /\ attempt = 0
  /\ ivs = {}
  /\ man = <<>>
  /\ recv = NoTracker
  /\ got = FALSE
  /\ disk = None
  /\ result = "running"
  /\ faults = 0
  /\ restarts = 0

-----------------------------------------------------------------------------
(* The control exchange                                                    *)

\* The call returns; the tracker is freed and the data socket closed.
Return(res) ==
  /\ pc' = "done"
  /\ result' = res
  /\ recv' = NoTracker
  /\ data' = {}

\* csp_close: what is still under way on the connection is lost to the client.
CloseConn ==
  /\ reply' = <<>>
  /\ man' = <<>>
  /\ backlog' = [i \in 1 .. Len(backlog) |-> [backlog[i] EXCEPT !.live = FALSE]]
  /\ UNCHANGED rfile

\* An attempt failed; after the last one the transfer is given up.
AttemptFailed ==
  \/ /\ attempt < Attempts
     /\ pc' = "ctrl"
     /\ UNCHANGED <<recv, result, data>>
  \/ /\ attempt = Attempts
     /\ Return("failed")

\* ctrl_exchange opens a connection and sends the request.
CtrlSend ==
  /\ pc = "ctrl"
  /\ attempt < Attempts
  /\ attempt' = attempt + 1
  /\ pc' = "hdr"
  /\ backlog' = Append(backlog, [live |-> TRUE, ivs |-> ivs])
  /\ UNCHANGED <<senderVars, reply, rfile, man, data, round, ivs, recv, got,
                 disk, result, faults>>

\* The first packet back must be the response header.
ReadHeader ==
  /\ pc = "hdr"
  /\ reply # <<>>
  /\ \/ /\ Head(reply) = 0
        /\ pc' = "man"
        /\ reply' = Tail(reply)
        /\ UNCHANGED <<backlog, rfile, man, recv, result, data>>
     \/ /\ Head(reply) # 0
        /\ CloseConn
        /\ AttemptFailed
  /\ UNCHANGED <<senderVars, round, attempt, ivs, got, disk, faults>>

\* Chunks are stored in the order they arrive; nothing numbers them.
ReadChunk ==
  /\ pc = "man"
  /\ Len(man) < ci_svu_nblocks(Len(rfile))
  /\ reply # <<>>
  /\ man' = Append(man, Head(reply))
  /\ reply' = Tail(reply)
  /\ UNCHANGED <<senderVars, backlog, rfile, data, clientVars, faults>>

\* csp_read ran out its time: nothing is coming, or it is late (a fault).
CtrlTimeout ==
  /\ \/ pc = "hdr"
     \/ pc = "man" /\ Len(man) < ci_svu_nblocks(Len(rfile))
  /\ reply = <<>>
  /\ \/ (\A i \in 1 .. Len(backlog) : ~backlog[i].live) /\ UNCHANGED faults
     \/ Fault
  /\ CloseConn
  /\ AttemptFailed
  /\ UNCHANGED <<senderVars, round, attempt, ivs, got, disk>>

\* The exchange is complete.  Only the first one creates the tracker; the
\* manifests of later rounds are dropped unread.
ExchangeDone ==
  /\ pc = "man"
  /\ Len(man) = ci_svu_nblocks(Len(rfile))
  /\ CloseConn
  /\ LET s == ci_svu_new(Len(rfile), Assembled(rfile, man), Len(man)) IN
     \/ /\ recv # NoTracker
        /\ pc' = "drain" /\ got' = FALSE
        /\ UNCHANGED <<recv, result, data>>
     \/ /\ recv = NoTracker /\ s # NoTracker
        /\ recv' = s
        /\ pc' = "drain" /\ got' = FALSE
        /\ UNCHANGED <<result, data>>
     \/ /\ recv = NoTracker /\ s = NoTracker
        /\ Return("failed")
        /\ UNCHANGED got
  /\ UNCHANGED <<senderVars, round, attempt, ivs, disk, faults>>

-----------------------------------------------------------------------------
(* The drain and the verdict                                               *)

\* drain_data takes a frame.  A frame the tracker rejects counts as progress
\* too, and the session number in its header is not looked at.  The link may
\* deliver a frame and keep a copy of it.
RecvData ==
  /\ pc = "drain"
  /\ \E fr \in data :
       /\ recv' = ci_svu_accept(recv, fr.off, fr.bytes)
       /\ \/ data' = data \ {fr} /\ UNCHANGED faults
          \/ data' = data /\ Fault
  /\ got' = TRUE
  /\ UNCHANGED <<senderVars, ctrlVars, pc, round, attempt, ivs, disk, result>>

\* The idle window ran out: nothing is under way any more, or it is late (a
\* fault).
IdleWindow ==
  \/ data = {} /\ backlog = <<>> /\ UNCHANGED faults
  \/ Fault

\* The payload is complete and verified: leave the round loop.
DrainVerified ==
  /\ pc' = "open"
  /\ UNCHANGED <<round, attempt, ivs, recv, got, result, data>>

\* Faulty variant: the count of accepted frames is carried over to the next drain.
DrainAgainCountKept ==
  /\ got
  /\ UNCHANGED <<pc, round, attempt, ivs, recv, got, result, data>>

\* Something arrived in this drain: drain again before judging the round.
DrainAgain ==
  /\ got
  /\ got' = FALSE
  /\ UNCHANGED <<pc, round, attempt, ivs, recv, result, data>>

\* A silent drain ends the round; the next one asks for the reported ranges.
NextRound(out) ==
  /\ ~got
  /\ round < MaxRounds
  /\ round' = round + 1
  /\ attempt' = 0
  /\ ivs' = out
  /\ pc' = "ctrl"
  /\ UNCHANGED <<recv, got, result, data>>

GiveUp ==
  /\ ~got
  /\ round = MaxRounds
  /\ Return("failed")
  /\ UNCHANGED <<round, attempt, ivs, got>>

DrainIdle ==
  /\ pc = "drain"
  /\ IdleWindow
  /\ LET v == ci_svu_verify(recv, MaxIntervals) IN
     \/ v.status = "COMPLETE_VERIFIED" /\ DrainVerified
     \/ v.status # "COMPLETE_VERIFIED" /\ (DrainAgain \/ NextRound(v.out) \/ GiveUp)
  /\ UNCHANGED <<senderVars, ctrlVars, disk>>

-----------------------------------------------------------------------------
(* The output file                                                         *)

\* Faulty variant: the old file is removed first.
OpenFailsAfterRemoval ==
  /\ disk' = <<>>
  /\ Return("failed")

\* fopen(outfile, "wb") fails and leaves the old file alone.
OpenFails ==
  /\ UNCHANGED disk
  /\ Return("failed")

\* fopen(outfile, "wb") empties the file.
OpenOutput ==
  /\ pc = "open"
  /\ \/ /\ disk' = <<>>
        /\ pc' = "write"
        /\ UNCHANGED <<recv, result, data>>
     \/ OpenFails
  /\ UNCHANGED <<senderVars, ctrlVars, round, attempt, ivs, got, faults>>

\* fwrite and fclose; what they return is not looked at.
WriteOutput ==
  /\ pc = "write"
  /\ \/ disk' = recv.data
     \/ /\ DiskMayFill
        /\ \E n \in 0 .. recv.total - 1 : disk' = SubSeq(recv.data, 1, n)
  /\ Return("verified")
  /\ UNCHANGED <<senderVars, ctrlVars, round, attempt, ivs, got, faults>>

-----------------------------------------------------------------------------
(* The sender                                                              *)

\* One pass of svu_serve_loop: accept, answer, close, blast.  Packets for a
\* connection the client has closed, or sent after the call, reach nobody.
ServeWith(packets, frames) ==
  /\ backlog # <<>>
  /\ backlog' = Tail(backlog)
  /\ \/ /\ Head(backlog).live
        /\ reply' = packets
        /\ rfile' = src
     \/ /\ ~Head(backlog).live
        /\ UNCHANGED <<reply, rfile>>
  /\ data' = IF pc = "done" THEN {} ELSE data \cup frames
  /\ UNCHANGED <<senderVars, man, clientVars>>

Serve ==
  /\ backlog # <<>>
  /\ ServeWith(Packets(src), BlastAll(src, Head(backlog).ivs))
  /\ UNCHANGED faults

\* The buffer pool runs dry: no response or a truncated one, and ranges that
\* stop early.
ServeShort ==
  /\ backlog # <<>>
  /\ LET req == Head(backlog).ivs IN
     \E n \in 0 .. ci_svu_nblocks(Len(src)) + 1,
        cut \in [BlastRanges(src, req) -> 0 .. Len(src)] :
       ServeWith(SubSeq(Packets(src), 1, n), BlastCut(src, req, cut))
  /\ Fault

\* The serving process ends and another one serves f in its place; requests
\* that it had not accepted are gone.
Restart ==
  /\ pc # "done"
  /\ restarts < MaxRestarts
  /\ restarts' = restarts + 1
  /\ src' \in Files
  /\ offered' = offered \cup {src'}
  /\ backlog' = <<>>
  /\ UNCHANGED <<reply, rfile, man, data, clientVars, faults>>

-----------------------------------------------------------------------------
(* The link                                                                *)

LoseRequest ==
  /\ \E i \in 1 .. Len(backlog) : backlog' = RemoveAt(backlog, i)
  /\ Fault
  /\ UNCHANGED <<senderVars, reply, rfile, man, data, clientVars>>

LoseReply ==
  /\ \E i \in 1 .. Len(reply) : reply' = RemoveAt(reply, i)
  /\ Fault
  /\ UNCHANGED <<senderVars, backlog, rfile, man, data, clientVars>>

DuplicateChunk ==
  /\ CtrlMayDuplicate
  /\ \E i \in 1 .. Len(reply) :
       reply[i] # 0 /\ reply' = InsertAt(reply, i, reply[i])
  /\ Fault
  /\ UNCHANGED <<senderVars, backlog, rfile, man, data, clientVars>>

LoseData ==
  /\ \E fr \in data : data' = data \ {fr}
  /\ Fault
  /\ UNCHANGED <<senderVars, ctrlVars, clientVars>>

\* Data frames carry no CRC: a byte of the payload, or the offset, is changed.
Damaged(fr) ==
  {[off |-> fr.off, bytes |-> [fr.bytes EXCEPT ![i] = x]] :
     i \in 1 .. Len(fr.bytes), x \in Byte}
  \cup {[off |-> o, bytes |-> fr.bytes] : o \in 0 .. Len(src)}

DamageData ==
  /\ \E fr \in data : \E bad \in Damaged(fr) \ {fr} :
       data' = (data \ {fr}) \cup {bad}
  /\ Fault
  /\ UNCHANGED <<senderVars, ctrlVars, clientVars>>

-----------------------------------------------------------------------------
\* Nothing left to do: the call has returned and the sender is idle.
Idle == pc = "done" /\ backlog = <<>> /\ UNCHANGED vars

Client == \/ CtrlSend \/ ReadHeader \/ ReadChunk \/ CtrlTimeout \/ ExchangeDone
          \/ RecvData \/ DrainIdle \/ OpenOutput \/ WriteOutput

Link == \/ LoseRequest \/ LoseReply \/ DuplicateChunk \/ LoseData \/ DamageData

Next == Client \/ Serve \/ ServeShort \/ Restart \/ Link \/ Idle

Spec == Init /\ [][Next]_vars

\* The client process and the serve loop keep running; the link owes nothing.
FairSpec == Spec /\ WF_vars(Client) /\ WF_vars(Serve)

-----------------------------------------------------------------------------
(* Properties                                                              *)

PCs == {"ctrl", "hdr", "man", "drain", "open", "write", "done"}

\* Type invariant of the transfer.
TypeOK ==
  /\ src \in Files
  /\ offered \subseteq Files
  /\ backlog \in Seq(Request)
  /\ reply \in Seq(Nat)
  /\ rfile \in Files
  /\ data \subseteq Frame
  /\ pc \in PCs
  /\ round \in 1 .. MaxRounds
  /\ attempt \in 0 .. Attempts
  /\ ivs \subseteq Interval
  /\ man \in Seq(Nat)
  /\ recv # NoTracker => TrackerOK(recv)
  /\ got \in BOOLEAN
  /\ disk # None => disk \in Seq(Byte)
  /\ result \in {"running", "verified", "failed"}
  /\ faults \in 0 .. MaxFaults
  /\ restarts \in 0 .. MaxRestarts

\* A reported success means that the output file is, byte for byte, one of the
\* files that was being served during the call: never a mixture of two served
\* files, never a damaged or a partial one, whatever the link did and whatever
\* stale frames were accepted (svu_push.c: "it never reports success on wrong
\* bytes").  It needs fwrite to store what it is given.
VerifiedMeansSource == result = "verified" => disk \in offered

\* Whatever manifest the exchange put together, a byte is only written to the
\* output file once the reassembled payload hashes to that manifest, with every
\* byte covered by some accepted frame: ci_svu_verify is re-run after the last
\* frame is accepted and nothing is accepted between it and the write.
NothingUnverifiedIsWritten ==
  pc \in {"open", "write"} =>
    /\ recv.covered = 0 .. recv.total - 1
    /\ \A b \in 0 .. recv.nblocks - 1 : hash_block(recv.data, b) = recv.expected[b]

\* The bytes of the payload that are missing or, once none is, lie in a block
\* that does not hash to its digest.
DamagedBytes(s) ==
  LET missing == (0 .. s.total - 1) \ s.covered IN
  IF missing # {}
  THEN missing
  ELSE UNION {BlockBytes(s.total, b) : b \in BadBlocks(s)}

RangeBytes(ranges) == UNION {iv[1] .. iv[2] - 1 : iv \in ranges}

\* A request after the first round never degenerates into "the whole file"
\* (an empty list means that to svu_serve_loop), asks for nothing that is not
\* damaged, and, unless the list of SVU_MAX_INTERVALS ranges is full, asks for
\* everything that is.
ReRequestIsTheDamage ==
  (recv # NoTracker /\ pc = "ctrl") =>
    /\ ivs # {}
    /\ Cardinality(ivs) <= MaxIntervals
    /\ RangeBytes(ivs) \subseteq DamagedBytes(recv)
    /\ Cardinality(ivs) < MaxIntervals => RangeBytes(ivs) = DamagedBytes(recv)

\* The transfer implements the promise of VerifiedUpload: no success without a
\* whole offered file, no failure after the output file has been touched.
Upload == INSTANCE VerifiedUpload WITH content <- disk, outcome <- result
ImplementsUpload == Upload!Spec

\* The call returns, whatever the link does: every read has a time-out, and
\* rounds and attempts are bounded.
Terminates == <>(pc = "done")

\* When the link's faults run out before the client's rounds and attempts do,
\* the payload is verified, unless the sender is replaced on the way: a round
\* that the link leaves alone repairs what the earlier ones broke, however many
\* ranges one request can name.
Converges == <>(pc = "open" \/ restarts > 0)
=============================================================================

------------------------------- MODULE SvuPush ------------------------------
(***************************************************************************)
(* The push command on top of a transfer: svu/svu_apm.c (and the program   *)
(* svu/svu_push.c) on the pushing nodes, svu/svu_daemon.c on the receiving *)
(* one.  A pusher serves its file, announces the destination path and      *)
(* waits for the verdict; the daemon takes one announce after the other    *)
(* and pulls from the node it came from whatever that node serves by then. *)
(*                                                                         *)
(* The pull itself is VerifiedUpload, which SvuTransfer implements.        *)
(***************************************************************************)
EXTENDS Integers, Sequences

CONSTANTS
  Nodes,      \* pushing nodes
  Files,      \* what they push
  Targets,    \* where to: a path, of positive symbols, and permission bits; 0: no -p
  Magic,      \* SVU_PUSH_MAGIC, as the symbol it is in a path
  Cap,        \* 250, symbols of an announce
  MaxPushes,  \* bound: push commands
  MaxFaults,  \* bound: announces and verdicts the link loses or repeats
  None

ASSUME PushAssumption ==
  /\ Targets \subseteq [path : Seq(Nat \ {0}) \ {<<>>}, mode : Nat]
  /\ Magic \in Nat \ {0}
  /\ Cap \in Nat /\ Cap > 2
  /\ MaxPushes \in Nat
  /\ MaxFaults \in Nat
  /\ None \notin Files
  /\ None \notin [node : Nodes, id : Nat, path : Seq(Nat), mode : Nat]

VARIABLES
  push,      \* the push command of each node
  serving,   \* the file its serve loop serves
  queue,     \* announces waiting at the daemon
  verdict,   \* the daemon's answer, on its way to the node
  daemon,    \* where the daemon is
  cur,       \* the announce it works on
  offered, content, outcome,  \* its pull
  writes,    \* the files it has written, in order, with their permission bits
  pushes, faults,
  \* history
  strayed    \* an announce has outlived its push command

pullVars == <<offered, content, outcome>>
vars == <<push, serving, queue, verdict, daemon, cur, offered, content, outcome, writes,
          pushes, faults, strayed>>

Pull == INSTANCE VerifiedUpload

Fault == faults < MaxFaults /\ faults' = faults + 1

-----------------------------------------------------------------------------
(* The announce                                                            *)

Cut(path, n) == SubSeq(path, 1, IF Len(path) > n THEN n ELSE Len(path))

\* Without permission bits it is the path alone; with them, magic, bits and path.
\* A path that does not fit is cut.
svu_announce_encode(mode, path) ==
  IF mode = 0 THEN Cut(path, Cap) ELSE <<Magic, mode>> \o Cut(path, Cap - 2)

\* Faulty variant: a daemon that knows only paths.
svu_announce_decode_legacy(body) == [mode |-> 0, path |-> body]

svu_announce_decode(body) ==
  IF Len(body) >= 2 /\ body[1] = Magic
  THEN [mode |-> body[2], path |-> SubSeq(body, 3, Len(body))]
  ELSE [mode |-> 0, path |-> body]

-----------------------------------------------------------------------------
NoPush == [stage |-> "idle", id |-> 0, file |-> None, path |-> <<>>, mode |-> 0,
           since |-> 0, ok |-> FALSE]

Init ==
  /\ push = [n \in Nodes |-> NoPush]
  /\ serving = [n \in Nodes |-> None]
  /\ queue = <<>>
  /\ verdict = [n \in Nodes |-> None]
  /\ daemon = "accept"
  /\ cur = None
  /\ offered = {}
  /\ content = None
  /\ outcome = "running"
  /\ writes = <<>>
  /\ pushes = 0
  /\ faults = 0
  /\ strayed = FALSE

\* The pusher that sent an announce still waits for its verdict.
Waits(a) == push[a.node].stage = "wait" /\ push[a.node].id = a.id

PulledFrom(n) == daemon = "pull" /\ cur.node = n

-----------------------------------------------------------------------------
(* The push command                                                        *)

\* The file is loaded and a thread started to serve it.  The thread gives up
\* unnoticed when it cannot bind the port or has no memory.
StartPush(n) ==
  /\ push[n].stage \in {"idle", "done"}
  /\ pushes < MaxPushes
  /\ pushes' = pushes + 1
  /\ \E f \in Files, t \in Targets :
       /\ push' = [push EXCEPT ![n] = [stage |-> "serve", id |-> pushes + 1, file |-> f,
                                       path |-> t.path, mode |-> t.mode,
                                       since |-> Len(writes), ok |-> FALSE]]
       /\ \/ /\ serving[n] = None
             /\ serving' = [serving EXCEPT ![n] = f]
             /\ offered' = IF PulledFrom(n) THEN offered \cup {f} ELSE offered
          \/ UNCHANGED <<serving, offered>>
  /\ UNCHANGED <<queue, verdict, daemon, cur, content, outcome, writes, faults, strayed>>

\* The path is announced, unless the connection or the buffer is not to be had.
Announce(n) ==
  /\ push[n].stage = "serve"
  /\ \/ /\ push' = [push EXCEPT ![n].stage = "wait"]
        /\ queue' = Append(queue, [node |-> n, id |-> push[n].id,
                                   body |-> svu_announce_encode(push[n].mode, push[n].path)])
     \/ /\ push' = [push EXCEPT ![n].stage = "stop"]
        /\ UNCHANGED queue
  /\ UNCHANGED <<serving, verdict, daemon, cur, pullVars, writes, pushes, faults, strayed>>

ReadVerdict(n) ==
  /\ push[n].stage = "wait"
  /\ verdict[n] # None
  /\ push' = [push EXCEPT ![n].stage = "stop", ![n].ok = (verdict[n] = "verified")]
  /\ verdict' = [verdict EXCEPT ![n] = None]
  /\ UNCHANGED <<serving, queue, daemon, cur, pullVars, writes, pushes, faults, strayed>>

\* Faulty variant: the wait has no time-out.
VerdictTimeoutNever(n) == FALSE /\ UNCHANGED vars

\* csp_read(600000) ran out its time: the push is reported as failed, while the
\* daemon may still work on it or not have begun.
VerdictTimeout(n) ==
  /\ push[n].stage = "wait"
  /\ verdict[n] = None
  /\ push' = [push EXCEPT ![n].stage = "stop"]
  /\ strayed' = TRUE
  /\ UNCHANGED <<serving, queue, verdict, daemon, cur, pullVars, writes, pushes, faults>>

\* Faulty variant: the serve thread is neither stopped nor joined.
StopServingSkipped(n) ==
  /\ push[n].stage = "stop"
  /\ push' = [push EXCEPT ![n].stage = "done"]
  /\ UNCHANGED <<serving, queue, verdict, daemon, cur, pullVars, writes, pushes, faults,
                 strayed>>

\* stop is set and the serve thread joined; the thread looks at stop when two
\* seconds pass without a request.  (The program's thread ends with the process.)
StopServing(n) ==
  /\ push[n].stage = "stop"
  /\ push' = [push EXCEPT ![n].stage = "done"]
  /\ serving' = [serving EXCEPT ![n] = None]
  /\ UNCHANGED <<queue, verdict, daemon, cur, pullVars, writes, pushes, faults, strayed>>

-----------------------------------------------------------------------------
(* The daemon                                                              *)

\* csp_accept ran out its time.
AcceptTimeout ==
  /\ daemon = "accept"
  /\ queue = <<>>
  /\ UNCHANGED vars

Accept ==
  /\ daemon = "accept"
  /\ queue # <<>>
  /\ queue' = Tail(queue)
  /\ LET a == Head(queue)
         d == svu_announce_decode(a.body)
     IN /\ cur' = [node |-> a.node, id |-> a.id, path |-> d.path, mode |-> d.mode]
        /\ offered' = {serving[a.node]} \ {None}
  /\ daemon' = "pull"
  /\ UNCHANGED <<push, serving, verdict, content, outcome, writes, pushes, faults, strayed>>

\* The payload is verified and the output file opened; "" cannot be.
PullOpens ==
  /\ daemon = "pull"
  /\ cur.path # <<>> /\ offered # {}
  /\ Pull!Prepare
  /\ UNCHANGED <<push, serving, queue, verdict, daemon, cur, writes, pushes, faults, strayed>>

PullWrites ==
  /\ daemon = "pull"
  /\ Pull!Deliver
  /\ writes' = Append(writes, [path |-> cur.path, file |-> content', mode |-> 0])
  /\ daemon' = "chmod"
  /\ UNCHANGED <<push, serving, queue, verdict, cur, pushes, faults, strayed>>

\* Faulty variant: the result of a pull starts out as a success.
PullFailsUnreported ==
  /\ daemon = "pull"
  /\ content = None
  /\ outcome' = "verified"
  /\ daemon' = "reply"
  /\ UNCHANGED <<push, serving, queue, verdict, cur, offered, content, writes, pushes, faults,
                 strayed>>

PullFails ==
  /\ daemon = "pull"
  /\ Pull!GiveUp
  /\ daemon' = "reply"
  /\ UNCHANGED <<push, serving, queue, verdict, cur, writes, pushes, faults, strayed>>

\* Permission bits are set when there are any; a failure is only warned of.
Chmod ==
  /\ daemon = "chmod"
  /\ daemon' = "reply"
  /\ \/ /\ cur.mode # 0
        /\ writes' = [writes EXCEPT ![Len(writes)].mode = cur.mode]
     \/ UNCHANGED writes
  /\ UNCHANGED <<push, serving, queue, verdict, cur, pullVars, pushes, faults, strayed>>

\* The verdict goes out on the announce's connection, which the pusher may have
\* closed.
Reply ==
  /\ daemon = "reply"
  /\ daemon' = "accept"
  /\ cur' = None
  /\ offered' = {} /\ content' = None /\ outcome' = "running"
  /\ \/ /\ Waits(cur)
        /\ verdict' = [verdict EXCEPT ![cur.node] = outcome]
        /\ UNCHANGED faults
     \/ /\ ~Waits(cur)
        /\ UNCHANGED <<verdict, faults>>
     \/ /\ Waits(cur)
        /\ Fault
        /\ UNCHANGED verdict
  /\ UNCHANGED <<push, serving, queue, writes, pushes, strayed>>

-----------------------------------------------------------------------------
(* The link                                                                *)

LoseAnnounce ==
  /\ queue # <<>>
  /\ queue' = Tail(queue)
  /\ Fault
  /\ UNCHANGED <<push, serving, verdict, daemon, cur, pullVars, writes, pushes, strayed>>

\* A second copy of an announce opens a connection of its own.
RepeatAnnounce ==
  /\ queue # <<>>
  /\ queue' = Append(queue, Head(queue))
  /\ strayed' = TRUE
  /\ Fault
  /\ UNCHANGED <<push, serving, verdict, daemon, cur, pullVars, writes, pushes>>

-----------------------------------------------------------------------------
Daemon == Accept \/ PullOpens \/ PullWrites \/ PullFails \/ Chmod \/ Reply

Pusher(n) == StartPush(n) \/ Announce(n) \/ ReadVerdict(n) \/ VerdictTimeout(n) \/ StopServing(n)

Next == (\E n \in Nodes : Pusher(n)) \/ Daemon \/ AcceptTimeout \/ LoseAnnounce \/ RepeatAnnounce

Spec == Init /\ [][Next]_vars

\* The daemon and the commands keep running, and the wait's time runs out.  A serve
\* thread that is being pulled from need not see the pause it stops at.
FairSpec ==
  /\ Spec
  /\ WF_vars(Daemon)
  /\ \A n \in Nodes :
       /\ WF_vars(Announce(n))
       /\ WF_vars(ReadVerdict(n))
       /\ WF_vars(VerdictTimeout(n))
       /\ WF_vars(~PulledFrom(n) /\ StopServing(n))

-----------------------------------------------------------------------------
(* Properties                                                              *)

Stages == {"idle", "serve", "wait", "stop", "done"}

\* Type invariant of the push commands and the daemon.
TypeOK ==
  /\ \A n \in Nodes :
       /\ push[n].stage \in Stages
       /\ push[n].id \in 0 .. pushes
       /\ push[n].file \in Files \cup {None}
       /\ push[n].stage # "idle" => [path |-> push[n].path, mode |-> push[n].mode] \in Targets
       /\ push[n].since \in 0 .. Len(writes)
       /\ push[n].ok \in BOOLEAN
       /\ serving[n] # None => serving[n] = push[n].file /\ push[n].stage \notin {"idle", "done"}
       /\ verdict[n] # None => verdict[n] \in {"verified", "failed"} /\ push[n].stage = "wait"
  /\ \A i \in 1 .. Len(queue) : queue[i].node \in Nodes /\ Len(queue[i].body) \in 1 .. Cap
  /\ daemon \in {"accept", "pull", "chmod", "reply"}
  /\ (daemon = "accept") = (cur = None)
  /\ offered \subseteq Files
  /\ outcome \in {"running", "verified", "failed"}
  /\ \A k \in 1 .. Len(writes) : writes[k].file \in Files
  /\ pushes \in 0 .. MaxPushes /\ faults \in 0 .. MaxFaults

\* A path that an announce carries whole and that does not read as its magic.
Plain(mode, path) ==
  IF mode = 0
  THEN Len(path) <= Cap /\ (Len(path) >= 2 => path[1] # Magic)
  ELSE Len(path) <= Cap - 2

\* Since the push command began, its file has been written to its path, with its
\* permission bits or, if they could not be set, without.
Stored(p) ==
  \E k \in p.since + 1 .. Len(writes) :
    /\ writes[k].path = p.path
    /\ writes[k].file = p.file
    /\ writes[k].mode \in {0, p.mode}

\* A push that is reported as VERIFIED has stored its own file under its own path:
\* not the file of the node's push before or after it, whichever announces were
\* queued, repeated or given up on, and whoever else pushes.
VerifiedIsStored ==
  \A n \in Nodes : push[n].ok /\ Plain(push[n].mode, push[n].path) => Stored(push[n])

\* The same for every path, as the command's last line has it: VERIFIED is printed
\* with the path that was asked for.
StoredUnderItsName == \A n \in Nodes : push[n].ok => Stored(push[n])

\* As long as no announce outlives its push command, a path only gets what was
\* pushed to it: here, what the node of the current announce pushes to it now.
NothingMisplaced ==
  ~strayed /\ daemon \in {"chmod", "reply"} /\ outcome = "verified" =>
    LET p == push[cur.node] IN
    Plain(p.mode, p.path) =>
      \E k \in {Len(writes)} \ {0} : writes[k].path = p.path /\ writes[k].file = p.file

\* A push command returns, whatever the daemon and the link do: the wait has a
\* time-out, and the join of the serve thread is held up only as long as the
\* daemon pulls.
PushReturns == \A n \in Nodes : push[n].stage = "serve" ~> push[n].stage = "done"
=============================================================================

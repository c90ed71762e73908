---------------------------- MODULE SvuPushProofs ---------------------------
(***************************************************************************)
(* Proofs about SvuPush, for any number of nodes, files, targets, pushes   *)
(* and faults.                                                             *)
(***************************************************************************)
EXTENDS SvuPush, SequenceTheorems, TLAPS

-----------------------------------------------------------------------------
(* The inductive invariant                                                 *)

Command == [stage : Stages, id : Nat, file : Files \cup {None}, path : Seq(Nat),
            mode : Nat, since : Nat, ok : BOOLEAN]
Request == [node : Nodes, id : Nat, body : Seq(Nat)]
Work    == [node : Nodes, id : Nat, path : Seq(Nat), mode : Nat]
Written == [path : Seq(Nat), file : Files, mode : Nat]

\* What kind of thing each variable is.
Shape ==
  /\ push \in [Nodes -> Command]
  /\ serving \in [Nodes -> Files \cup {None}]
  /\ verdict \in [Nodes -> {None, "verified", "failed"}]
  /\ queue \in Seq(Request)
  /\ daemon \in {"accept", "pull", "chmod", "reply"}
  /\ cur \in Work \cup {None}
  /\ writes \in Seq(Written)
  /\ offered \subseteq Files
  /\ outcome \in {"running", "verified", "failed"}
  /\ pushes \in 0 .. MaxPushes /\ faults \in 0 .. MaxFaults
  /\ strayed \in BOOLEAN

\* What the serving thread and the verdict's connection have to do with the command.
CommandOK(n) ==
  /\ push[n].id <= pushes /\ push[n].since <= Len(writes)
  /\ push[n].stage # "idle" => [path |-> push[n].path, mode |-> push[n].mode] \in Targets
  /\ serving[n] # None => serving[n] = push[n].file /\ push[n].stage \notin {"idle", "done"}
  /\ verdict[n] # None => push[n].stage = "wait"

\* An announce carries the target of the command that sent it, as long as that is
\* the node's last one.
RequestOK(a) ==
  /\ a.id <= pushes /\ Len(a.body) \in 1 .. Cap
  /\ push[a.node].id = a.id => a.body = svu_announce_encode(push[a.node].mode, push[a.node].path)

\* So does what the daemon works on; it is offered no other file than the command's,
\* and what it has written last is that file under the announced path.
WorkOK ==
  LET p == push[cur.node] IN
  /\ cur \in Work /\ cur.id <= pushes
  /\ p.id = cur.id
     => /\ svu_announce_decode(svu_announce_encode(p.mode, p.path)) = [mode |-> cur.mode, path |-> cur.path]
        /\ offered \subseteq {p.file}
  /\ daemon = "pull" <=> outcome = "running"
  /\ daemon # "pull" /\ outcome = "verified"
     => /\ Len(writes) > 0
        /\ writes[Len(writes)].path = cur.path
        /\ writes[Len(writes)].mode \in {0, cur.mode}
        /\ p.id = cur.id => writes[Len(writes)].file = p.file /\ p.since < Len(writes)

\* Stored by a write whose permission bits the daemon is done with.
Kept(p, ws, d) ==
  \E k \in p.since + 1 .. Len(ws) :
    /\ ws[k].path = p.path /\ ws[k].file = p.file /\ ws[k].mode \in {0, p.mode}
    /\ d = "chmod" => k < Len(ws)

\* A verdict on its way, or read, tells the truth.
Told(n) == push[n].ok \/ (verdict[n] # None /\ verdict[n] = "verified")
VerdictOK(n) ==
  Told(n) /\ Plain(push[n].mode, push[n].path) => Kept(push[n], writes, daemon)

\* As long as no announce has outlived its command, each belongs to a command that
\* waits for its verdict, and no two to the same.
OneEach ==
  ~strayed =>
    /\ \A i \in 1 .. Len(queue) : Waits(queue[i]) /\ verdict[queue[i].node] = None
    /\ \A i, j \in 1 .. Len(queue) : queue[i].node = queue[j].node => i = j
    /\ daemon # "accept" =>
         /\ Waits(cur) /\ verdict[cur.node] = None
         /\ \A i \in 1 .. Len(queue) : queue[i].node # cur.node

BaseInv ==
  /\ Shape
  /\ \A n \in Nodes : CommandOK(n)
  /\ \A i \in 1 .. Len(queue) : RequestOK(queue[i])
  /\ IF daemon = "accept" THEN cur = None /\ outcome = "running" ELSE WorkOK

PushInv == BaseInv /\ (\A n \in Nodes : VerdictOK(n)) /\ OneEach

-----------------------------------------------------------------------------
(* The announce                                                            *)

LEMMA CutKept == ASSUME NEW path \in Seq(Nat), NEW n \in Nat, Len(path) <= n PROVE Cut(path, n) = path
  BY DEF Cut

LEMMA CutType ==
  ASSUME NEW path \in Seq(Nat), NEW n \in Nat
  PROVE  /\ Cut(path, n) \in Seq(Nat) /\ Len(Cut(path, n)) <= n
         /\ Len(path) > 0 /\ n > 0 => Len(Cut(path, n)) > 0
<1> DEFINE m == IF Len(path) > n THEN n ELSE Len(path)
<1>1. m \in Nat /\ m <= Len(path) /\ m <= n /\ Cut(path, n) = SubSeq(path, 1, m)
  BY DEF Cut
<1>2. SubSeq(path, 1, m) \in Seq(Nat) /\ Len(SubSeq(path, 1, m)) = m
  BY <1>1
<1> QED
  BY <1>1, <1>2

LEMMA TargetType ==
  ASSUME NEW path, NEW mode, [path |-> path, mode |-> mode] \in Targets
  PROVE  path \in Seq(Nat) /\ Len(path) > 0 /\ mode \in Nat
<1>1. [path |-> path, mode |-> mode] \in [path : Seq(Nat \ {0}) \ {<<>>}, mode : Nat]
  BY PushAssumption
<1>2. path \in Seq(Nat \ {0}) /\ path # <<>> /\ mode \in Nat
  BY <1>1
<1> QED
  BY <1>2

LEMMA EncodeType ==
  ASSUME NEW path \in Seq(Nat), Len(path) > 0, NEW mode \in Nat
  PROVE  /\ svu_announce_encode(mode, path) \in Seq(Nat)
         /\ Len(svu_announce_encode(mode, path)) \in 1 .. Cap
<1>1. CASE mode = 0
  BY <1>1, CutType, PushAssumption DEF svu_announce_encode
<1>2. CASE mode # 0
  <2>1. Cut(path, Cap - 2) \in Seq(Nat) /\ Len(Cut(path, Cap - 2)) <= Cap - 2
    BY CutType, PushAssumption
  <2>2. <<Magic, mode>> \in Seq(Nat) /\ Len(<<Magic, mode>>) = 2
    BY PushAssumption
  <2>3. svu_announce_encode(mode, path) = <<Magic, mode>> \o Cut(path, Cap - 2)
    BY <1>2 DEF svu_announce_encode
  <2> HIDE DEF svu_announce_encode
  <2>4. /\ <<Magic, mode>> \o Cut(path, Cap - 2) \in Seq(Nat)
        /\ Len(<<Magic, mode>> \o Cut(path, Cap - 2)) = 2 + Len(Cut(path, Cap - 2))
    BY <2>1, <2>2
  <2> QED
    BY <2>1, <2>3, <2>4, PushAssumption
<1> QED
  BY <1>1, <1>2

LEMMA DecodeType ==
  ASSUME NEW body \in Seq(Nat)
  PROVE  svu_announce_decode(body) \in [mode : Nat, path : Seq(Nat)]
<1>1. CASE Len(body) >= 2 /\ body[1] = Magic
  <2>1. body[2] \in Nat /\ SubSeq(body, 3, Len(body)) \in Seq(Nat)
    BY <1>1
  <2> QED
    BY <1>1, <2>1 DEF svu_announce_decode
<1>2. CASE ~(Len(body) >= 2 /\ body[1] = Magic)
  BY <1>2 DEF svu_announce_decode
<1> QED
  BY <1>1, <1>2

\* The daemon reads what the pusher wrote, if it fits and is not taken for something else.
LEMMA AnnounceRead ==
  ASSUME NEW path \in Seq(Nat), NEW mode \in Nat, Plain(mode, path)
  PROVE  svu_announce_decode(svu_announce_encode(mode, path)) = [mode |-> mode, path |-> path]
<1>1. CASE mode = 0
  <2>1. svu_announce_encode(mode, path) = path
    BY <1>1, CutKept, PushAssumption DEF svu_announce_encode, Plain
  <2> QED
    BY <1>1, <2>1 DEF svu_announce_decode, Plain
<1>2. CASE mode # 0
  <2> DEFINE body == <<Magic, mode>> \o path
  <2>1. svu_announce_encode(mode, path) = body
    <3>1. Cap - 2 \in Nat /\ Len(path) <= Cap - 2
      BY <1>2, PushAssumption DEF Plain
    <3>2. Cut(path, Cap - 2) = path
      BY <3>1, CutKept
    <3> QED
      BY <1>2, <3>2 DEF svu_announce_encode
  <2>2. <<Magic, mode>> \in Seq(Nat) /\ Len(<<Magic, mode>>) = 2
    BY PushAssumption
  <2>3. /\ body \in Seq(Nat) /\ Len(body) = 2 + Len(path) /\ body[1] = Magic /\ body[2] = mode
        /\ \A k \in 1 .. Len(path) : body[k + 2] = path[k]
    BY <2>2
  <2> HIDE DEF body
  <2>4. SubSeq(body, 3, Len(body)) = path
    <3>1. /\ SubSeq(body, 3, Len(body)) \in Seq(Nat) /\ Len(SubSeq(body, 3, Len(body))) = Len(path)
          /\ \A k \in 1 .. Len(path) : SubSeq(body, 3, Len(body))[k] = body[k + 2]
      BY <2>3, SMTT(60)
    <3> QED
      BY <2>3, <3>1, SeqEqual
  <2>5. Len(body) >= 2
    BY <2>3
  <2>6. svu_announce_decode(body) = [mode |-> body[2], path |-> SubSeq(body, 3, Len(body))]
    BY <2>3, <2>5 DEF svu_announce_decode
  <2> QED
    BY <2>1, <2>3, <2>4, <2>6
<1> QED
  BY <1>1, <1>2
-----------------------------------------------------------------------------
(* Types, announces and what the daemon works on                           *)

LEMMA BaseInit == Init => BaseInv
<1> SUFFICES ASSUME Init PROVE BaseInv
  OBVIOUS
<1>1. NoPush \in Command
  BY DEF NoPush, Command, Stages
<1>2. push \in [Nodes -> Command] /\ serving \in [Nodes -> Files \cup {None}]
      /\ verdict \in [Nodes -> {None, "verified", "failed"}]
  BY <1>1 DEF Init
<1>3. queue \in Seq(Request) /\ writes \in Seq(Written)
  BY DEF Init
<1>4. Shape
  <2>1. pushes \in 0 .. MaxPushes /\ faults \in 0 .. MaxFaults
    BY PushAssumption DEF Init
  <2>2. /\ daemon = "accept" /\ cur = None /\ offered = {} /\ outcome = "running"
        /\ strayed \in BOOLEAN
    BY DEF Init
  <2> QED
    BY <1>2, <1>3, <2>1, <2>2 DEF Shape
<1>5. ASSUME NEW n \in Nodes PROVE CommandOK(n)
  BY <1>5 DEF Init, CommandOK, NoPush
<1> QED
  BY <1>4, <1>5 DEF Init, BaseInv

\* The steps of a push command on node n change nothing but the node's command, and
\* what is served and announced.
LEMMA StartBase == ASSUME BaseInv, NEW n \in Nodes, StartPush(n) PROVE BaseInv'
<1> USE DEF BaseInv
<1>1. PICK f \in Files, t \in Targets :
        /\ push' = [push EXCEPT ![n] = [stage |-> "serve", id |-> pushes + 1, file |-> f,
                                        path |-> t.path, mode |-> t.mode,
                                        since |-> Len(writes), ok |-> FALSE]]
        /\ \/ /\ serving[n] = None
              /\ serving' = [serving EXCEPT ![n] = f]
              /\ offered' = IF PulledFrom(n) THEN offered \cup {f} ELSE offered
           \/ UNCHANGED <<serving, offered>>
  BY DEF StartPush
<1>2. /\ pushes' = pushes + 1 /\ pushes < MaxPushes /\ push[n].stage \in {"idle", "done"}
      /\ UNCHANGED <<queue, verdict, daemon, cur, outcome, writes, faults, strayed>>
  BY DEF StartPush
<1> DEFINE c == [stage |-> "serve", id |-> pushes + 1, file |-> f, path |-> t.path, mode |-> t.mode,
                 since |-> Len(writes), ok |-> FALSE]
<1>3. [path |-> t.path, mode |-> t.mode] = t /\ t.path \in Seq(Nat) /\ t.mode \in Nat
  BY TargetType, PushAssumption
<1>4. pushes \in Nat /\ Len(writes) \in Nat
  BY PushAssumption DEF Shape
<1>5. c \in Command
  BY <1>3, <1>4 DEF Command, Stages
<1>6. push' \in [Nodes -> Command] /\ push'[n] = c /\ \A m \in Nodes : m # n => push'[m] = push[m]
  BY <1>1, <1>5 DEF Shape
<1>7. /\ serving' \in [Nodes -> Files \cup {None}] /\ offered' \subseteq Files
      /\ serving'[n] \in {f, None} /\ \A m \in Nodes : m # n => serving'[m] = serving[m]
      /\ verdict[n] = None
      /\ offered' = offered \/ (cur.node = n /\ daemon = "pull")
  <2>1. serving[n] = None /\ verdict[n] = None
    BY <1>2 DEF CommandOK
  <2> QED
    BY <1>1, <2>1 DEF Shape, PulledFrom
<1>8. Shape'
  <2>1. pushes' \in 0 .. MaxPushes
    BY <1>2, <1>4, PushAssumption DEF Shape
  <2> QED
    BY <1>2, <1>6, <1>7, <2>1 DEF Shape
<1> HIDE DEF c
<1>9. /\ c.stage = "serve" /\ c.id = pushes + 1 /\ c.file = f /\ c.since = Len(writes)
      /\ [path |-> c.path, mode |-> c.mode] \in Targets
  BY <1>3 DEF c
<1>10. ASSUME NEW m \in Nodes PROVE CommandOK(m)'
  <2>1. CASE m = n
    BY <1>2, <1>4, <1>6, <1>7, <1>9, <2>1 DEF CommandOK
  <2>2. CASE m # n
    BY <1>2, <1>4, <1>6, <1>7, <2>2, SMTT(60) DEF CommandOK, Shape, Command
  <2> QED
    BY <2>1, <2>2
<1>11. ASSUME NEW i \in 1 .. Len(queue) PROVE RequestOK(queue[i])'
  <2>1. queue[i] \in Request /\ RequestOK(queue[i])
    BY DEF Shape
  <2>2. queue[i].id # pushes + 1 /\ queue[i].node \in Nodes
    BY <1>4, <2>1 DEF RequestOK, Request
  <2> DEFINE r == queue[i]
  <2>3. /\ r.id <= pushes /\ Len(r.body) \in 1 .. Cap /\ r.id \in Nat
        /\ push[r.node].id = r.id => r.body = svu_announce_encode(push[r.node].mode, push[r.node].path)
    BY <2>1 DEF RequestOK, Request
  <2>4. push'[r.node].id = r.id => r.node # n /\ push'[r.node] = push[r.node]
    BY <1>6, <1>9, <2>2
  <2>5. queue' = queue /\ r.id <= pushes'
    BY <1>2, <1>4, <2>3
  <2> QED
    BY <2>3, <2>4, <2>5 DEF RequestOK
<1>12. ASSUME daemon # "accept" PROVE WorkOK'
  <2>1. WorkOK
    BY <1>12
  <2>2. cur.id # pushes + 1 /\ cur.node \in Nodes /\ cur.id \in Nat
    BY <1>4, <2>1 DEF WorkOK, Work
  <2>3. CASE cur.node = n
    BY <1>2, <1>4, <1>6, <1>9, <2>1, <2>2, <2>3 DEF WorkOK
  <2>4. CASE cur.node # n
    BY <1>2, <1>4, <1>6, <1>7, <2>1, <2>2, <2>4 DEF WorkOK
  <2> QED
    BY <2>3, <2>4
<1> QED
  BY <1>2, <1>8, <1>10, <1>11, <1>12

\* A command that keeps its number, its file and its target keeps the rest.
LEMMA CommandBase ==
  ASSUME BaseInv, NEW n \in Nodes, NEW c \in Command, push' = [push EXCEPT ![n] = c],
         c.id = push[n].id, c.file = push[n].file, c.path = push[n].path, c.mode = push[n].mode,
         c.since = push[n].since, push[n].stage # "idle",
         UNCHANGED <<pushes, writes, daemon, cur, offered, outcome>>
  PROVE  /\ push' \in [Nodes -> Command] /\ push'[n] = c
         /\ \A m \in Nodes : m # n => push'[m] = push[m]
         /\ \A a \in Request : RequestOK(a) => RequestOK(a)'
         /\ daemon # "accept" => WorkOK'
<1> USE DEF BaseInv
<1>1. push' \in [Nodes -> Command] /\ push'[n] = c /\ \A m \in Nodes : m # n => push'[m] = push[m]
  BY DEF Shape
<1>2. ASSUME NEW m \in Nodes
      PROVE  /\ push'[m].id = push[m].id /\ push'[m].file = push[m].file /\ push'[m].path = push[m].path
             /\ push'[m].mode = push[m].mode /\ push'[m].since = push[m].since
  BY <1>1
<1>3. ASSUME NEW a \in Request, RequestOK(a) PROVE RequestOK(a)'
  BY <1>2, <1>3 DEF RequestOK, Request
<1>4. ASSUME daemon # "accept" PROVE WorkOK'
  <2>1. WorkOK /\ cur.node \in Nodes
    BY <1>4 DEF WorkOK, Work
  <2> QED
    BY <1>2, <2>1 DEF WorkOK
<1> QED
  BY <1>1, <1>3, <1>4

LEMMA QueueKept ==
  ASSUME BaseInv, UNCHANGED queue, \A a \in Request : RequestOK(a) => RequestOK(a)'
  PROVE  \A i \in 1 .. Len(queue') : RequestOK(queue[i])'
  BY DEF BaseInv, Shape
LEMMA AnnounceBase == ASSUME BaseInv, NEW n \in Nodes, Announce(n) PROVE BaseInv'
<1> USE DEF BaseInv
<1>1. /\ push[n].stage = "serve"
      /\ UNCHANGED <<serving, verdict, daemon, cur, offered, content, outcome, writes, pushes, faults, strayed>>
  BY DEF Announce, pullVars
<1>2. push[n] \in Command
  BY DEF Shape
<1>3. PICK st \in {"wait", "stop"} :
        /\ push' = [push EXCEPT ![n] = [push[n] EXCEPT !.stage = st]]
        /\ IF st = "wait"
           THEN queue' = Append(queue, [node |-> n, id |-> push[n].id,
                                        body |-> svu_announce_encode(push[n].mode, push[n].path)])
           ELSE queue' = queue
  BY DEF Announce
<1> DEFINE c == [push[n] EXCEPT !.stage = st]
           a == [node |-> n, id |-> push[n].id, body |-> svu_announce_encode(push[n].mode, push[n].path)]
<1>4. /\ c \in Command /\ c.id = push[n].id /\ c.file = push[n].file /\ c.path = push[n].path
      /\ c.mode = push[n].mode /\ c.since = push[n].since /\ c.stage = st
  BY <1>2 DEF Command, Stages
<1>5. /\ push' \in [Nodes -> Command] /\ push'[n] = c
      /\ \A m \in Nodes : m # n => push'[m] = push[m]
      /\ \A x \in Request : RequestOK(x) => RequestOK(x)'
      /\ daemon # "accept" => WorkOK'
  <2> HIDE DEF c
  <2> QED
    BY <1>1, <1>3, <1>4, CommandBase DEF c
<1>6. a \in Request /\ RequestOK(a)
  <2>1. /\ push[n].path \in Seq(Nat) /\ Len(push[n].path) > 0 /\ push[n].mode \in Nat /\ push[n].id \in Nat
    BY <1>1, <1>2, TargetType DEF CommandOK, Command
  <2> DEFINE b == svu_announce_encode(push[n].mode, push[n].path)
  <2>2. b \in Seq(Nat) /\ Len(b) \in 1 .. Cap
    BY <2>1, EncodeType
  <2>3. push[n].id <= pushes
    BY DEF CommandOK
  <2>4. a.node = n /\ a.id = push[n].id /\ a.body = b
    OBVIOUS
  <2> HIDE DEF b
  <2>5. a \in Request
    BY <2>1, <2>2 DEF Request, b
  <2> HIDE DEF a
  <2> QED
    BY <2>2, <2>3, <2>4, <2>5 DEF RequestOK, b
<1>7. /\ queue' \in Seq(Request)
      /\ \A i \in 1 .. Len(queue') : RequestOK(queue'[i])
  <2> HIDE DEF a
  <2>1. queue \in Seq(Request)
    BY DEF Shape
  <2>2. queue' = queue \/ queue' = Append(queue, a)
    BY <1>3 DEF a
  <2>3. ASSUME NEW i \in 1 .. Len(queue') PROVE RequestOK(queue'[i])
    BY <1>6, <2>1, <2>2
  <2> QED
    BY <1>6, <2>1, <2>2, <2>3
<1>8. Shape'
  BY <1>1, <1>5, <1>7 DEF Shape
<1>9. \A i \in 1 .. Len(queue') : RequestOK(queue[i])'
  <2>1. ASSUME NEW i \in 1 .. Len(queue') PROVE queue'[i] \in Request
    BY <1>7
  <2>2. ASSUME NEW x \in Request, RequestOK(x) PROVE RequestOK(x)'
    BY <1>5, <2>2
  <2>3. ASSUME NEW i \in 1 .. Len(queue') PROVE RequestOK(queue[i])'
    <3> DEFINE x == queue'[i]
    <3>1. x \in Request /\ RequestOK(x)
      BY <1>7, <2>1
    <3>2. /\ x.id <= pushes' /\ Len(x.body) \in 1 .. Cap
          /\ push'[x.node].id = x.id => x.body = svu_announce_encode(push'[x.node].mode, push'[x.node].path)
      BY <2>2, <3>1 DEF RequestOK
    <3> QED
      BY <3>2 DEF RequestOK
  <2> QED
    BY <2>3
<1>10. ASSUME NEW m \in Nodes PROVE CommandOK(m)'
  <2>1. CommandOK(m)
    OBVIOUS
  <2>2. CASE m = n
    BY <1>1, <1>3, <1>4, <1>5, <2>1, <2>2 DEF CommandOK
  <2>3. CASE m # n
    BY <1>1, <1>5, <2>1, <2>3 DEF CommandOK
  <2> QED
    BY <2>2, <2>3
<1> QED
  BY <1>1, <1>5, <1>8, <1>9, <1>10

\* A command whose queue stays as it is.
LEMMA QuietBase ==
  ASSUME BaseInv, NEW n \in Nodes, NEW c \in Command, push' = [push EXCEPT ![n] = c],
         c.id = push[n].id, c.file = push[n].file, c.path = push[n].path, c.mode = push[n].mode,
         c.since = push[n].since, push[n].stage # "idle", c.stage # "idle",
         UNCHANGED <<pushes, writes, daemon, cur, offered, outcome, queue, faults>>,
         strayed' \in BOOLEAN,
         serving' \in [Nodes -> Files \cup {None}],
         verdict' \in [Nodes -> {None, "verified", "failed"}],
         \A m \in Nodes : m # n => serving'[m] = serving[m] /\ verdict'[m] = verdict[m],
         serving'[n] # None => serving'[n] = serving[n] /\ c.stage # "done",
         verdict'[n] # None => c.stage = "wait"
  PROVE  BaseInv'
<1> USE DEF BaseInv
<1>1. /\ push' \in [Nodes -> Command] /\ push'[n] = c
      /\ \A m \in Nodes : m # n => push'[m] = push[m]
      /\ \A x \in Request : RequestOK(x) => RequestOK(x)'
      /\ daemon # "accept" => WorkOK'
  BY CommandBase
<1>2. Shape'
  BY <1>1 DEF Shape
<1>3. \A i \in 1 .. Len(queue') : RequestOK(queue[i])'
  BY <1>1, QueueKept
<1>4. ASSUME NEW m \in Nodes PROVE CommandOK(m)'
  <2>1. CommandOK(m)
    OBVIOUS
  <2>2. CASE m = n
    BY <1>1, <2>1, <2>2 DEF CommandOK
  <2>3. CASE m # n
    BY <1>1, <2>1, <2>3 DEF CommandOK
  <2> QED
    BY <2>2, <2>3
<1> QED
  BY <1>1, <1>2, <1>3, <1>4

LEMMA ReadBase == ASSUME BaseInv, NEW n \in Nodes, ReadVerdict(n) PROVE BaseInv'
<1> USE DEF BaseInv
<1> DEFINE b == verdict[n] = "verified"
           c == [push[n] EXCEPT !.stage = "stop", !.ok = b]
<1>1. /\ push[n].stage = "wait" /\ push' = [push EXCEPT ![n] = c]
      /\ verdict' = [verdict EXCEPT ![n] = None]
      /\ UNCHANGED <<serving, queue, daemon, cur, offered, outcome, writes, pushes, faults, strayed>>
  BY DEF ReadVerdict, pullVars
<1>2. push[n] \in Command /\ b \in BOOLEAN
  BY DEF Shape
<1> HIDE DEF b
<1>3. /\ c \in Command /\ c.id = push[n].id /\ c.file = push[n].file /\ c.path = push[n].path
      /\ c.mode = push[n].mode /\ c.since = push[n].since /\ c.stage = "stop"
  BY <1>2 DEF Command, Stages
<1>4. /\ verdict' \in [Nodes -> {None, "verified", "failed"}] /\ verdict'[n] = None
      /\ \A m \in Nodes : m # n => verdict'[m] = verdict[m]
  BY <1>1 DEF Shape
<1> HIDE DEF c
<1> QED
  BY <1>1, <1>3, <1>4, QuietBase DEF Shape

LEMMA TimeoutBase == ASSUME BaseInv, NEW n \in Nodes, VerdictTimeout(n) PROVE BaseInv'
<1> USE DEF BaseInv
<1> DEFINE c == [push[n] EXCEPT !.stage = "stop"]
<1>1. /\ push[n].stage = "wait" /\ push' = [push EXCEPT ![n] = c] /\ verdict[n] = None
      /\ UNCHANGED <<serving, queue, verdict, daemon, cur, offered, outcome, writes, pushes, faults>>
      /\ strayed' = TRUE
  BY DEF VerdictTimeout, pullVars
<1>2. push[n] \in Command
  BY DEF Shape
<1>3. /\ c \in Command /\ c.id = push[n].id /\ c.file = push[n].file /\ c.path = push[n].path
      /\ c.mode = push[n].mode /\ c.since = push[n].since /\ c.stage = "stop"
  BY <1>2 DEF Command, Stages
<1> HIDE DEF c
<1>4. strayed' \in BOOLEAN
  BY <1>1
<1> QED
  BY <1>1, <1>3, <1>4, QuietBase DEF Shape

LEMMA StopBase == ASSUME BaseInv, NEW n \in Nodes, StopServing(n) PROVE BaseInv'
<1> USE DEF BaseInv
<1> DEFINE c == [push[n] EXCEPT !.stage = "done"]
<1>1. /\ push[n].stage = "stop" /\ push' = [push EXCEPT ![n] = c]
      /\ serving' = [serving EXCEPT ![n] = None]
      /\ UNCHANGED <<queue, verdict, daemon, cur, offered, outcome, writes, pushes, faults, strayed>>
  BY DEF StopServing, pullVars
<1>2. push[n] \in Command /\ verdict[n] = None
  BY <1>1 DEF Shape, CommandOK
<1>3. /\ c \in Command /\ c.id = push[n].id /\ c.file = push[n].file /\ c.path = push[n].path
      /\ c.mode = push[n].mode /\ c.since = push[n].since /\ c.stage = "done"
  BY <1>2 DEF Command, Stages
<1>4. /\ serving' \in [Nodes -> Files \cup {None}] /\ serving'[n] = None
      /\ \A m \in Nodes : m # n => serving'[m] = serving[m]
  BY <1>1 DEF Shape
<1> HIDE DEF c
<1> QED
  BY <1>1, <1>2, <1>3, <1>4, QuietBase DEF Shape
\* The daemon and the link move no command.
LEMMA CommandsKept ==
  ASSUME BaseInv, UNCHANGED <<push, serving, verdict, pushes>>, Len(writes') >= Len(writes),
         writes' \in Seq(Written)
  PROVE  \A n \in Nodes : CommandOK(n)'
<1>1. Len(writes) \in Nat /\ Len(writes') \in Nat
  BY DEF BaseInv, Shape
<1>2. ASSUME NEW n \in Nodes PROVE push[n].since \in Nat /\ CommandOK(n)
  BY DEF BaseInv, Shape, Command
<1> QED
  BY <1>1, <1>2 DEF CommandOK

LEMMA RequestsKept ==
  ASSUME BaseInv, UNCHANGED <<push, pushes>>, queue' \in Seq(Request),
         \A i \in 1 .. Len(queue') : \E j \in 1 .. Len(queue) : queue'[i] = queue[j]
  PROVE  \A i \in 1 .. Len(queue') : RequestOK(queue[i])'
  BY DEF BaseInv, RequestOK

LEMMA QueueTail ==
  ASSUME NEW S, NEW q \in Seq(S), q # <<>>
  PROVE  /\ Head(q) = q[1] /\ 1 \in 1 .. Len(q)
         /\ Tail(q) \in Seq(S) /\ Len(Tail(q)) = Len(q) - 1
         /\ \A i \in 1 .. Len(Tail(q)) : i + 1 \in 1 .. Len(q) /\ Tail(q)[i] = q[i + 1]
  OBVIOUS

LEMMA QueueAgain ==
  ASSUME NEW S, NEW q \in Seq(S), q # <<>>
  PROVE  /\ Append(q, Head(q)) \in Seq(S)
         /\ \A i \in 1 .. Len(Append(q, Head(q))) : \E j \in 1 .. Len(q) : Append(q, Head(q))[i] = q[j]
<1>1. Head(q) = q[1] /\ 1 \in 1 .. Len(q) /\ Head(q) \in S
  OBVIOUS
<1>2. /\ Append(q, Head(q)) \in Seq(S) /\ Len(Append(q, Head(q))) = Len(q) + 1
      /\ \A i \in 1 .. Len(q) : Append(q, Head(q))[i] = q[i]
      /\ Append(q, Head(q))[Len(q) + 1] = q[1]
  BY <1>1
<1> QED
  BY <1>1, <1>2

LEMMA AcceptBase == ASSUME BaseInv, Accept PROVE BaseInv'
<1> USE DEF BaseInv
<1> DEFINE a == Head(queue)
           d == svu_announce_decode(a.body)
<1>1. /\ daemon = "accept" /\ queue # <<>> /\ queue' = Tail(queue) /\ daemon' = "pull"
      /\ cur' = [node |-> a.node, id |-> a.id, path |-> d.path, mode |-> d.mode]
      /\ offered' = {serving[a.node]} \ {None}
      /\ UNCHANGED <<push, serving, verdict, outcome, writes, pushes, faults, strayed>>
  BY DEF Accept
<1>2. /\ a = queue[1] /\ 1 \in 1 .. Len(queue) /\ queue' \in Seq(Request)
      /\ \A i \in 1 .. Len(queue') : i + 1 \in 1 .. Len(queue) /\ queue'[i] = queue[i + 1]
  BY <1>1, QueueTail DEF Shape
<1>3. a \in Request /\ RequestOK(a)
  BY <1>2 DEF Shape
<1>4. a.node \in Nodes /\ a.id \in Nat /\ d \in [mode : Nat, path : Seq(Nat)]
  BY <1>3, DecodeType DEF Request
<1>5. cur' \in Work /\ cur'.node = a.node /\ cur'.id = a.id /\ cur'.path = d.path /\ cur'.mode = d.mode
  <2> HIDE DEF d, a
  <2> QED
    BY <1>1, <1>4 DEF Work
<1>6. offered' \subseteq Files
  BY <1>1, <1>4 DEF Shape
<1>7. Shape'
  BY <1>1, <1>2, <1>5, <1>6 DEF Shape
<1>8. \A n \in Nodes : CommandOK(n)'
  <2>1. writes' \in Seq(Written) /\ Len(writes') >= Len(writes)
    BY <1>1 DEF Shape
  <2> QED
    BY <1>1, <2>1, CommandsKept
<1>9. \A i \in 1 .. Len(queue') : RequestOK(queue[i])'
  <2>1. \A i \in 1 .. Len(queue') : \E j \in 1 .. Len(queue) : queue'[i] = queue[j]
    BY <1>2
  <2> QED
    BY <1>1, <1>2, <2>1, RequestsKept
<1>10. WorkOK'
  <2>1. ASSUME push[a.node].id = a.id
        PROVE  /\ svu_announce_decode(svu_announce_encode(push[a.node].mode, push[a.node].path))
                    = [mode |-> d.mode, path |-> d.path]
               /\ offered' \subseteq {push[a.node].file}
    <3>1. a.body = svu_announce_encode(push[a.node].mode, push[a.node].path)
      BY <1>3, <2>1 DEF RequestOK
    <3>2. d = [mode |-> d.mode, path |-> d.path]
      <4> HIDE DEF d
      <4> QED
        BY <1>4
    <3>3. serving[a.node] # None => serving[a.node] = push[a.node].file
      BY <1>4 DEF CommandOK
    <3> QED
      BY <1>1, <3>1, <3>2, <3>3
  <2>2. cur'.id <= pushes' /\ daemon' = "pull" /\ outcome' = "running"
    BY <1>1, <1>3, <1>5 DEF RequestOK
  <2> HIDE DEF a, d
  <2> QED
    BY <1>1, <1>5, <2>1, <2>2 DEF WorkOK
<1> QED
  BY <1>1, <1>7, <1>8, <1>9, <1>10

\* The steps of a pull, and what follows it.
LEMMA PullBase ==
  ASSUME BaseInv, PullOpens \/ PullWrites \/ PullFails \/ Chmod
  PROVE  BaseInv'
<1> USE DEF BaseInv
<1>1. /\ daemon \in {"pull", "chmod"}
      /\ UNCHANGED <<push, serving, queue, verdict, cur, offered, pushes, faults, strayed>>
  BY DEF PullOpens, PullWrites, PullFails, Chmod, pullVars, Pull!Prepare, Pull!Deliver, Pull!GiveUp
<1>2. WorkOK /\ cur \in Work /\ cur.node \in Nodes /\ cur.path \in Seq(Nat) /\ cur.mode \in Nat
  BY <1>1 DEF WorkOK, Work
<1>3. push[cur.node] \in Command /\ push[cur.node].since <= Len(writes) /\ Len(writes) \in Nat
      /\ push[cur.node].since \in Nat
  <2>1. push[cur.node] \in Command /\ Len(writes) \in Nat
    BY <1>2 DEF Shape
  <2>2. push[cur.node].since <= Len(writes)
    BY <1>2 DEF CommandOK
  <2> QED
    BY <2>1, <2>2 DEF Command
<1>4. \A i \in 1 .. Len(queue') : RequestOK(queue[i])'
  BY <1>1 DEF RequestOK
<1>5. ASSUME writes' \in Seq(Written), Len(writes') >= Len(writes), daemon' \in {"pull", "chmod", "reply"},
             outcome' \in {"running", "verified", "failed"}, WorkOK'
      PROVE  BaseInv'
  <2>1. \A n \in Nodes : CommandOK(n)'
    BY <1>1, <1>5, CommandsKept
  <2>2. Shape'
    BY <1>1, <1>5 DEF Shape
  <2> QED
    BY <1>4, <1>5, <2>1, <2>2
<1>6. CASE PullOpens
  <2>1. UNCHANGED <<daemon, outcome, writes>>
    BY <1>6 DEF PullOpens, Pull!Prepare
  <2>2. WorkOK'
    BY <1>1, <1>2, <2>1 DEF WorkOK
  <2> QED
    BY <1>1, <1>5, <2>1, <2>2, <1>3 DEF Shape
<1>7. CASE PullWrites
  <2> DEFINE w == [path |-> cur.path, file |-> content', mode |-> 0]
  <2>1. daemon' = "chmod" /\ content' \in offered /\ outcome' = "verified" /\ writes' = Append(writes, w)
    BY <1>7 DEF PullWrites, Pull!Deliver
  <2>2. content' \in Files
    BY <2>1 DEF Shape
  <2>3. w \in Written /\ w.path = cur.path /\ w.file = content' /\ w.mode = 0
    BY <1>2, <2>2 DEF Written
  <2> HIDE DEF w
  <2>4. writes' \in Seq(Written) /\ Len(writes') = Len(writes) + 1 /\ writes'[Len(writes')] = w
    BY <2>1, <2>3 DEF Shape
  <2>5. push[cur.node].id = cur.id => content' = push[cur.node].file
    BY <1>2, <2>1 DEF WorkOK
  <2>6. WorkOK'
    BY <1>1, <1>2, <1>3, <2>1, <2>3, <2>4, <2>5 DEF WorkOK
  <2> QED
    BY <1>3, <1>5, <2>1, <2>4, <2>6
<1>8. CASE PullFails
  <2>1. daemon' = "reply" /\ outcome' = "failed" /\ UNCHANGED writes
    BY <1>8 DEF PullFails, Pull!GiveUp
  <2>2. WorkOK'
    BY <1>1, <1>2, <2>1 DEF WorkOK
  <2> QED
    BY <1>5, <2>1, <2>2, <1>3 DEF Shape
<1>9. CASE Chmod
  <2>1. daemon = "chmod" /\ daemon' = "reply" /\ UNCHANGED outcome
    BY <1>9 DEF Chmod, pullVars
  <2>2. /\ writes' \in Seq(Written) /\ Len(writes') = Len(writes)
        /\ outcome = "verified" =>
             /\ writes'[Len(writes)].path = writes[Len(writes)].path
             /\ writes'[Len(writes)].file = writes[Len(writes)].file
             /\ writes'[Len(writes)].mode \in {cur.mode, writes[Len(writes)].mode}
    <3>1. CASE UNCHANGED writes
      BY <3>1 DEF Shape
    <3>2. CASE writes' = [writes EXCEPT ![Len(writes)].mode = cur.mode]
      <4> DEFINE w == [writes[Len(writes)] EXCEPT !.mode = cur.mode]
      <4>1. writes \in Seq(Written) /\ writes' = [writes EXCEPT ![Len(writes)] = w]
        BY <3>2 DEF Shape
      <4>2. CASE Len(writes) > 0
        <5>1. writes[Len(writes)] \in Written
          BY <4>1, <4>2
        <5>2. /\ w \in Written /\ w.path = writes[Len(writes)].path
              /\ w.file = writes[Len(writes)].file /\ w.mode = cur.mode
          BY <1>2, <5>1 DEF Written
        <5> HIDE DEF w
        <5>3. writes' \in Seq(Written) /\ Len(writes') = Len(writes) /\ writes'[Len(writes)] = w
          BY <4>1, <4>2, <5>2
        <5> QED
          BY <5>2, <5>3
      <4>3. CASE Len(writes) = 0
        <5>1. writes = <<>> /\ Len(writes) \notin DOMAIN writes
          BY <4>1, <4>3
        <5>2. writes' = writes
          BY <4>1, <5>1
        <5> QED
          BY <4>1, <5>2, <4>3, <1>2, <2>1 DEF WorkOK
      <4> QED
        BY <1>3, <4>2, <4>3
    <3> QED
      BY <1>9, <3>1, <3>2 DEF Chmod
  <2>3. WorkOK'
    BY <1>1, <1>2, <2>1, <2>2 DEF WorkOK
  <2> QED
    BY <1>3, <1>5, <2>1, <2>2, <2>3 DEF Shape
<1> QED
  BY <1>6, <1>7, <1>8, <1>9
LEMMA ReplyBase == ASSUME BaseInv, Reply PROVE BaseInv'
<1> USE DEF BaseInv
<1>1. /\ daemon = "reply" /\ daemon' = "accept" /\ cur' = None /\ offered' = {} /\ outcome' = "running"
      /\ UNCHANGED <<push, serving, queue, writes, pushes, strayed>>
      /\ \/ Waits(cur) /\ verdict' = [verdict EXCEPT ![cur.node] = outcome]
         \/ UNCHANGED verdict
  BY DEF Reply
<1>2. faults' \in 0 .. MaxFaults
  BY PushAssumption DEF Reply, Fault, Shape
<1>3. cur \in Work /\ cur.node \in Nodes /\ WorkOK
  BY <1>1 DEF WorkOK, Work
<1>4. outcome \in {"verified", "failed"}
  BY <1>1, <1>3 DEF WorkOK, Shape
<1>5. /\ verdict' \in [Nodes -> {None, "verified", "failed"}]
      /\ \A m \in Nodes : verdict'[m] = verdict[m] \/ (m = cur.node /\ Waits(cur))
  BY <1>1, <1>3, <1>4 DEF Shape
<1>6. Shape'
  BY <1>1, <1>2, <1>5 DEF Shape
<1>7. \A n \in Nodes : CommandOK(n)'
  BY <1>1, <1>5 DEF CommandOK, Waits
<1>8. \A i \in 1 .. Len(queue') : RequestOK(queue[i])'
  BY <1>1 DEF RequestOK
<1> QED
  BY <1>1, <1>6, <1>7, <1>8

LEMMA LinkBase == ASSUME BaseInv, LoseAnnounce \/ RepeatAnnounce PROVE BaseInv'
<1> USE DEF BaseInv
<1>1. /\ queue # <<>> /\ (queue' = Tail(queue) \/ queue' = Append(queue, Head(queue)))
      /\ strayed' \in BOOLEAN /\ faults' = faults + 1 /\ faults < MaxFaults
      /\ UNCHANGED <<push, serving, verdict, daemon, cur, offered, content, outcome, writes, pushes>>
  BY DEF LoseAnnounce, RepeatAnnounce, Fault, pullVars, Shape
<1>2. /\ queue' \in Seq(Request)
      /\ \A i \in 1 .. Len(queue') : \E j \in 1 .. Len(queue) : queue'[i] = queue[j]
  <2>1. queue \in Seq(Request)
    BY DEF Shape
  <2>2. CASE queue' = Tail(queue)
    BY <1>1, <2>1, <2>2, QueueTail
  <2>3. CASE queue' = Append(queue, Head(queue))
    BY <1>1, <2>1, <2>3, QueueAgain
  <2> QED
    BY <1>1, <2>2, <2>3
<1>3. faults' \in 0 .. MaxFaults
  BY <1>1, PushAssumption DEF Shape
<1>4. Shape'
  BY <1>1, <1>2, <1>3 DEF Shape
<1>5. \A i \in 1 .. Len(queue') : RequestOK(queue[i])'
  BY <1>1, <1>2, RequestsKept
<1>6. \A n \in Nodes : CommandOK(n)'
  BY <1>1 DEF CommandOK
<1>7. daemon # "accept" => WorkOK'
  BY <1>1 DEF WorkOK
<1> QED
  BY <1>1, <1>4, <1>5, <1>6, <1>7

LEMMA BaseStutter == ASSUME BaseInv, UNCHANGED vars PROVE BaseInv'
  BY DEF BaseInv, Shape, CommandOK, RequestOK, WorkOK, vars, pullVars

LEMMA BaseNext == BaseInv /\ [Next]_vars => BaseInv'
<1> SUFFICES ASSUME BaseInv, [Next]_vars PROVE BaseInv'
  OBVIOUS
<1>1. ASSUME NEW n \in Nodes, Pusher(n) PROVE BaseInv'
  BY <1>1, StartBase, AnnounceBase, ReadBase, TimeoutBase, StopBase DEF Pusher
<1>2. CASE Daemon
  BY <1>2, AcceptBase, PullBase, ReplyBase DEF Daemon
<1>3. CASE AcceptTimeout
  BY <1>3, BaseStutter DEF AcceptTimeout
<1> QED
  BY <1>1, <1>2, <1>3, LinkBase, BaseStutter DEF Next
-----------------------------------------------------------------------------
(* Verdicts                                                                *)

LEMMA WritesNext ==
  [Next]_vars => \/ UNCHANGED writes /\ (daemon' = "chmod" => daemon = "chmod")
                 \/ PullWrites \/ Chmod
<1> SUFFICES ASSUME [Next]_vars, ~PullWrites, ~Chmod
             PROVE  UNCHANGED writes /\ (daemon' = "chmod" => daemon = "chmod")
  OBVIOUS
<1>1. ASSUME NEW n \in Nodes, Pusher(n) PROVE UNCHANGED <<writes, daemon>>
  BY <1>1 DEF Pusher, StartPush, Announce, ReadVerdict, VerdictTimeout, StopServing
<1>2. Daemon => (UNCHANGED writes /\ daemon' # "chmod") \/ UNCHANGED <<writes, daemon>>
  BY DEF Daemon, Accept, PullOpens, PullFails, Reply
<1>3. AcceptTimeout \/ LoseAnnounce \/ RepeatAnnounce \/ UNCHANGED vars => UNCHANGED <<writes, daemon>>
  BY DEF AcceptTimeout, LoseAnnounce, RepeatAnnounce, vars
<1> QED
  BY <1>1, <1>2, <1>3 DEF Next

\* What is stored stays, and keeps its permission bits.
LEMMA KeptNext ==
  ASSUME BaseInv, [Next]_vars, NEW p \in Command, Kept(p, writes, daemon)
  PROVE  Kept(p, writes', daemon')
<1>1. PICK k \in p.since + 1 .. Len(writes) :
        /\ writes[k].path = p.path /\ writes[k].file = p.file /\ writes[k].mode \in {0, p.mode}
        /\ daemon = "chmod" => k < Len(writes)
  BY DEF Kept
<1>2. writes \in Seq(Written) /\ p.since \in Nat /\ Len(writes) \in Nat
  BY DEF BaseInv, Shape, Command
<1>3. CASE UNCHANGED writes /\ (daemon' = "chmod" => daemon = "chmod")
  BY <1>1, <1>3 DEF Kept
<1>4. CASE PullWrites
  <2>1. PICK w : writes' = Append(writes, w)
    BY <1>4 DEF PullWrites
  <2>2. Len(writes') = Len(writes) + 1 /\ writes'[k] = writes[k]
    BY <1>1, <1>2, <2>1
  <2> QED
    BY <1>1, <1>2, <2>2 DEF Kept
<1>5. CASE Chmod
  <2>1. k < Len(writes) /\ daemon' = "reply"
    BY <1>1, <1>5 DEF Chmod
  <2>2. Len(writes') = Len(writes) /\ writes'[k] = writes[k]
    <3>1. CASE UNCHANGED writes
      BY <3>1
    <3>2. CASE writes' = [writes EXCEPT ![Len(writes)].mode = cur.mode]
      BY <1>1, <1>2, <2>1, <3>2
    <3> QED
      BY <1>5, <3>1, <3>2 DEF Chmod
  <2> QED
    BY <1>1, <1>2, <2>1, <2>2 DEF Kept
<1> QED
  BY <1>3, <1>4, <1>5, WritesNext

LEMMA KeptSame ==
  ASSUME NEW p, NEW q, NEW ws, NEW d, Kept(p, ws, d),
         q.since = p.since, q.path = p.path, q.file = p.file, q.mode = p.mode
  PROVE  Kept(q, ws, d)
  BY DEF Kept

\* A node that is told nothing new.
LEMMA VerdictKept ==
  ASSUME BaseInv, [Next]_vars, NEW n \in Nodes, VerdictOK(n), Told(n)' => Told(n),
         push'[n].since = push[n].since, push'[n].path = push[n].path,
         push'[n].file = push[n].file, push'[n].mode = push[n].mode
  PROVE  VerdictOK(n)'
<1>1. push[n] \in Command
  BY DEF BaseInv, Shape
<1>2. ASSUME Told(n)', Plain(push'[n].mode, push'[n].path) PROVE Kept(push'[n], writes', daemon')
  <2>1. Kept(push[n], writes, daemon)
    BY <1>2 DEF VerdictOK
  <2>2. Kept(push[n], writes', daemon')
    BY <1>1, <2>1, KeptNext
  <2> QED
    BY <2>2, KeptSame
<1> QED
  BY <1>2 DEF VerdictOK, Plain
\* The steps of a command tell no node anything new.
LEMMA PusherTells ==
  ASSUME BaseInv, [Next]_vars, \A m \in Nodes : VerdictOK(m), NEW n \in Nodes, Pusher(n)
  PROVE  \A m \in Nodes : VerdictOK(m)'
<1> SUFFICES ASSUME NEW m \in Nodes PROVE VerdictOK(m)'
  OBVIOUS
<1>1. push \in [Nodes -> Command] /\ verdict \in [Nodes -> {None, "verified", "failed"}]
  BY DEF BaseInv, Shape
<1>2. CASE UNCHANGED <<verdict, push>>
  BY <1>2, VerdictKept DEF Told
<1>3. CASE StartPush(n)
  <2>1. CASE m = n
    <3>1. push[n].stage # "wait" /\ verdict' = verdict
      BY <1>3 DEF StartPush
    <3>2. verdict'[n] = None
      BY <3>1 DEF BaseInv, CommandOK
    <3>3. PICK f \in Files, t \in Targets :
            push' = [push EXCEPT ![n] = [stage |-> "serve", id |-> pushes + 1, file |-> f,
                                         path |-> t.path, mode |-> t.mode,
                                         since |-> Len(writes), ok |-> FALSE]]
      BY <1>3 DEF StartPush
    <3>4. push'[n].ok = FALSE
      BY <1>1, <3>3
    <3>5. ~Told(n)'
      BY <3>2, <3>4 DEF Told
    <3> QED
      BY <2>1, <3>5 DEF VerdictOK
  <2>2. CASE m # n
    <3>1. push'[m] = push[m] /\ verdict'[m] = verdict[m]
      BY <1>1, <1>3, <2>2 DEF StartPush
    <3> QED
      BY <3>1, VerdictKept DEF Told
  <2> QED
    BY <2>1, <2>2
<1>4. CASE ReadVerdict(n)
  <2> DEFINE b == verdict[n] = "verified"
  <2>1. /\ verdict[n] # None /\ verdict' = [verdict EXCEPT ![n] = None]
        /\ push' = [push EXCEPT ![n] = [push[n] EXCEPT !.stage = "stop", !.ok = b]]
    BY <1>4 DEF ReadVerdict
  <2>2. CASE m = n
    <3>1. /\ push'[n].since = push[n].since /\ push'[n].path = push[n].path
          /\ push'[n].file = push[n].file /\ push'[n].mode = push[n].mode
          /\ verdict'[n] = None
      <4> HIDE DEF b
      <4> QED
        BY <1>1, <2>1 DEF Command
    <3>2. push'[n].ok <=> b
      <4>1. push[n] \in Command /\ push'[n] = [push[n] EXCEPT !.stage = "stop", !.ok = b]
        <5> HIDE DEF b
        <5> QED
          BY <1>1, <2>1
      <4>2. push'[n].ok = b
        <5> HIDE DEF b
        <5> QED
          BY <4>1 DEF Command
      <4> QED
        BY <4>2
    <3>3. Told(n)' => Told(n)
      BY <2>1, <3>1, <3>2 DEF Told
    <3> QED
      BY <2>2, <3>1, <3>3, VerdictKept
  <2>3. CASE m # n
    <3>1. push'[m] = push[m] /\ verdict'[m] = verdict[m]
      <4> HIDE DEF b
      <4> QED
        BY <1>1, <2>1, <2>3
    <3> QED
      BY <3>1, VerdictKept DEF Told
  <2> QED
    BY <2>2, <2>3
<1>5. CASE Announce(n) \/ VerdictTimeout(n) \/ StopServing(n)
  <2>1. verdict' = verdict
    BY <1>5 DEF Announce, VerdictTimeout, StopServing
  <2>2. PICK st : push' = [push EXCEPT ![n] = [push[n] EXCEPT !.stage = st]]
    BY <1>5 DEF Announce, VerdictTimeout, StopServing
  <2>3. /\ push'[m].since = push[m].since /\ push'[m].path = push[m].path
        /\ push'[m].file = push[m].file /\ push'[m].mode = push[m].mode /\ push'[m].ok = push[m].ok
    BY <1>1, <2>2 DEF Command
  <2>4. Told(m)' => Told(m)
    BY <2>1, <2>3 DEF Told
  <2> QED
    BY <2>3, <2>4, VerdictKept
<1> QED
  BY <1>3, <1>4, <1>5 DEF Pusher

\* The daemon's verdict is about what it has written last.
LEMMA ReplyTells ==
  ASSUME BaseInv, [Next]_vars, \A m \in Nodes : VerdictOK(m), Reply
  PROVE  \A m \in Nodes : VerdictOK(m)'
<1> SUFFICES ASSUME NEW m \in Nodes PROVE VerdictOK(m)'
  OBVIOUS
<1>1. /\ push' = push /\ daemon = "reply" /\ daemon' = "accept" /\ writes' = writes
      /\ \/ Waits(cur) /\ verdict' = [verdict EXCEPT ![cur.node] = outcome]
         \/ verdict' = verdict
  BY DEF Reply
<1>2. push \in [Nodes -> Command] /\ verdict \in [Nodes -> {None, "verified", "failed"}]
  BY DEF BaseInv, Shape
<1>3. WorkOK /\ cur.path \in Seq(Nat) /\ cur.mode \in Nat
  BY <1>1 DEF BaseInv, WorkOK, Work
<1>4. CASE verdict'[m] = verdict[m]
  BY <1>1, <1>4, VerdictKept DEF Told
<1>5. CASE verdict'[m] # verdict[m]
  <2> DEFINE p == push[m]
  <2>1. m = cur.node /\ Waits(cur) /\ verdict'[m] = outcome
    BY <1>1, <1>2, <1>5
  <2>2. CASE push[m].ok \/ outcome # "verified"
    BY <1>1, <2>1, <2>2, VerdictKept DEF Told
  <2>3. CASE outcome = "verified" /\ Plain(p.mode, p.path)
    <3>1. p.id = cur.id /\ p \in Command /\ p.path \in Seq(Nat) /\ p.mode \in Nat /\ p.since \in Nat
      BY <1>2, <2>1 DEF Waits, Command
    <3>2. p.path = cur.path /\ p.mode = cur.mode
      <4>1. svu_announce_decode(svu_announce_encode(p.mode, p.path)) = [mode |-> cur.mode, path |-> cur.path]
        BY <1>3, <2>1, <3>1 DEF WorkOK
      <4>2. svu_announce_decode(svu_announce_encode(p.mode, p.path)) = [mode |-> p.mode, path |-> p.path]
        BY <2>3, <3>1, AnnounceRead
      <4>3. [mode |-> cur.mode, path |-> cur.path] = [mode |-> p.mode, path |-> p.path]
        BY <4>1, <4>2
      <4> QED
        BY <4>3
    <3>3. /\ Len(writes) > 0 /\ writes[Len(writes)].path = cur.path
          /\ writes[Len(writes)].mode \in {0, cur.mode}
          /\ writes[Len(writes)].file = p.file /\ p.since < Len(writes)
      BY <1>1, <1>3, <2>1, <2>3, <3>1 DEF WorkOK
    <3>4. Len(writes) \in p.since + 1 .. Len(writes)
      BY <3>1, <3>3 DEF BaseInv, Shape
    <3>5. Kept(p, writes, "accept")
      BY <3>2, <3>3, <3>4 DEF Kept
    <3> QED
      BY <1>1, <3>5 DEF VerdictOK
  <2>4. CASE ~Plain(p.mode, p.path)
    BY <1>1, <2>4 DEF VerdictOK, Plain
  <2> QED
    BY <2>2, <2>3, <2>4
<1> QED
  BY <1>4, <1>5

LEMMA VerdictNext ==
  ASSUME BaseInv, [Next]_vars, \A n \in Nodes : VerdictOK(n)
  PROVE  \A n \in Nodes : VerdictOK(n)'
<1>1. ASSUME UNCHANGED <<push, verdict>> PROVE \A n \in Nodes : VerdictOK(n)'
  BY <1>1, VerdictKept DEF Told
<1>2. Daemon => Reply \/ UNCHANGED <<push, verdict>>
  BY DEF Daemon, Accept, PullOpens, PullWrites, PullFails, Chmod
<1>3. AcceptTimeout \/ LoseAnnounce \/ RepeatAnnounce \/ UNCHANGED vars => UNCHANGED <<push, verdict>>
  BY DEF AcceptTimeout, LoseAnnounce, RepeatAnnounce, vars
<1> QED
  BY <1>1, <1>2, <1>3, PusherTells, ReplyTells DEF Next
-----------------------------------------------------------------------------
(* One announce for each command that waits                                *)

LEMMA Elements ==
  ASSUME BaseInv
  PROVE  /\ \A i \in 1 .. Len(queue) : queue[i].node \in Nodes
         /\ \A k \in 1 .. Len(writes) : writes[k].file \in Files
<1>1. ASSUME NEW i \in 1 .. Len(queue) PROVE queue[i].node \in Nodes
  <2>1. queue[i] \in Request
    BY DEF BaseInv, Shape
  <2> QED
    BY <2>1 DEF Request
<1>2. ASSUME NEW k \in 1 .. Len(writes) PROVE writes[k].file \in Files
  <2>1. writes[k] \in Written
    BY DEF BaseInv, Shape
  <2> QED
    BY <2>1 DEF Written
<1> QED
  BY <1>1, <1>2

\* A command that does not wait has no announce on its way, and one that begins to
\* wait has only its own.
LEMMA OneEachPusher ==
  ASSUME BaseInv, OneEach, NEW n \in Nodes, Pusher(n)
  PROVE  OneEach'
<1> SUFFICES ASSUME ~strayed' PROVE OneEach'
  BY DEF OneEach
<1> USE DEF OneEach
<1>1. push \in [Nodes -> Command] /\ queue \in Seq(Request) /\ CommandOK(n)
      /\ (daemon # "accept" => cur \in Work)
  BY DEF BaseInv, Shape, WorkOK
<1>2. ~strayed /\ UNCHANGED <<daemon, cur>>
  BY DEF Pusher, StartPush, Announce, ReadVerdict, VerdictTimeout, StopServing, BaseInv, Shape
<1>3. ASSUME push[n].stage # "wait" \/ verdict[n] # None, UNCHANGED queue,
             \A m \in Nodes : m # n => push'[m] = push[m] /\ verdict'[m] = verdict[m]
      PROVE  OneEach'
  <2>1. \A i \in 1 .. Len(queue) : queue[i].node # n /\ queue[i].node \in Nodes
    BY <1>2, <1>3, Elements DEF Waits
  <2>2. daemon # "accept" => cur.node # n /\ cur.node \in Nodes
    BY <1>1, <1>2, <1>3 DEF Waits, Work
  <2> QED
    BY <1>2, <1>3, <2>1, <2>2 DEF Waits
<1>4. CASE StartPush(n)
  BY <1>1, <1>3, <1>4 DEF StartPush
<1>5. CASE ReadVerdict(n)
  <2>1. /\ verdict[n] # None /\ UNCHANGED queue
        /\ \A m \in Nodes : m # n => push'[m] = push[m] /\ verdict'[m] = verdict[m]
    BY <1>1, <1>5 DEF ReadVerdict, BaseInv, Shape
  <2> QED
    BY <1>3, <2>1
<1>6. CASE VerdictTimeout(n)
  BY <1>6 DEF VerdictTimeout
<1>7. CASE StopServing(n)
  BY <1>1, <1>3, <1>7 DEF StopServing
<1>8. CASE Announce(n)
  <2>1. push[n].stage = "serve" /\ verdict[n] = None /\ verdict' = verdict
    BY <1>1, <1>8 DEF Announce, CommandOK
  <2>2. PICK st \in {"wait", "stop"} :
          /\ push' = [push EXCEPT ![n] = [push[n] EXCEPT !.stage = st]]
          /\ IF st = "wait"
             THEN queue' = Append(queue, [node |-> n, id |-> push[n].id,
                                          body |-> svu_announce_encode(push[n].mode, push[n].path)])
             ELSE queue' = queue
    BY <1>8 DEF Announce
  <2>3. \A m \in Nodes : m # n => push'[m] = push[m]
    BY <1>1, <2>2
  <2>4. CASE st = "stop"
    BY <1>3, <2>1, <2>2, <2>3, <2>4
  <2>5. CASE st = "wait"
    <3> DEFINE a == [node |-> n, id |-> push[n].id,
                     body |-> svu_announce_encode(push[n].mode, push[n].path)]
    <3>1. queue' = Append(queue, a) /\ a.node = n /\ a.id = push[n].id
      BY <2>2, <2>5
    <3>2. push'[n].stage = "wait" /\ push'[n].id = push[n].id
      BY <1>1, <2>2, <2>5 DEF Command
    <3> HIDE DEF a
    <3>3. \A i \in 1 .. Len(queue) : queue[i].node # n /\ queue[i].node \in Nodes
      BY <1>2, <2>1, Elements DEF Waits
    <3>4. daemon # "accept" => cur.node # n /\ cur.node \in Nodes
      BY <1>1, <1>2, <2>1 DEF Waits, Work
    <3>5. /\ Len(queue') = Len(queue) + 1 /\ queue'[Len(queue) + 1] = a
          /\ \A i \in 1 .. Len(queue) : queue'[i] = queue[i]
          /\ Len(queue) \in Nat
      BY <1>1, <3>1
    <3>6. ASSUME NEW i \in 1 .. Len(queue') PROVE Waits(queue[i])' /\ verdict'[queue'[i].node] = None
      <4>1. CASE i = Len(queue) + 1
        BY <2>1, <3>1, <3>2, <3>5, <4>1 DEF Waits
      <4>2. CASE i \in 1 .. Len(queue)
        BY <1>2, <2>1, <2>3, <3>3, <3>5, <4>2 DEF Waits
      <4> QED
        BY <3>5, <4>1, <4>2
    <3>7. ASSUME NEW i \in 1 .. Len(queue'), NEW j \in 1 .. Len(queue'), queue'[i].node = queue'[j].node
          PROVE  i = j
      BY <1>2, <3>1, <3>3, <3>5, <3>7
    <3>8. daemon' # "accept" => /\ Waits(cur)' /\ verdict'[cur'.node] = None
                                /\ \A i \in 1 .. Len(queue') : queue'[i].node # cur'.node
      BY <1>2, <2>1, <2>3, <3>1, <3>4, <3>5 DEF Waits
    <3> QED
      BY <3>6, <3>7, <3>8
  <2> QED
    BY <2>2, <2>4, <2>5
<1> QED
  BY <1>4, <1>5, <1>6, <1>7, <1>8 DEF Pusher

LEMMA OneEachDaemon == ASSUME BaseInv, OneEach, Daemon PROVE OneEach'
<1> USE DEF OneEach
<1>1. queue \in Seq(Request) /\ UNCHANGED strayed
  BY DEF BaseInv, Shape, Daemon, Accept, PullOpens, PullWrites, PullFails, Chmod, Reply
<1>2. CASE Accept
  <2>1. /\ queue # <<>> /\ queue' = Tail(queue) /\ UNCHANGED <<push, verdict>>
        /\ cur'.node = Head(queue).node /\ cur'.id = Head(queue).id
    BY <1>2 DEF Accept
  <2>2. /\ Head(queue) = queue[1] /\ 1 \in 1 .. Len(queue)
        /\ \A i \in 1 .. Len(queue') : i + 1 \in 1 .. Len(queue) /\ queue'[i] = queue[i + 1]
    BY <1>1, <2>1, QueueTail
  <2>3. ASSUME ~strayed, NEW i \in 1 .. Len(queue')
        PROVE  /\ Waits(queue[i])' /\ verdict'[queue'[i].node] = None /\ queue'[i].node # cur'.node
               /\ \A j \in 1 .. Len(queue') : queue'[i].node = queue'[j].node => i = j
    BY <2>1, <2>2, <2>3 DEF Waits
  <2>4. ~strayed => Waits(cur)' /\ verdict'[cur'.node] = None
    BY <2>1, <2>2 DEF Waits
  <2> QED
    BY <1>1, <2>3, <2>4
<1>3. CASE PullOpens \/ PullWrites \/ PullFails \/ Chmod
  <2>1. daemon # "accept" /\ UNCHANGED <<push, verdict, queue, cur>>
    BY <1>3 DEF PullOpens, PullWrites, PullFails, Chmod
  <2> QED
    BY <1>1, <2>1 DEF Waits
<1>4. CASE Reply
  <2>1. /\ daemon # "accept" /\ daemon' = "accept" /\ UNCHANGED <<push, queue>>
        /\ \A m \in Nodes : m # cur.node => verdict'[m] = verdict[m]
    BY <1>4 DEF Reply, BaseInv, Shape
  <2>2. \A i \in 1 .. Len(queue) : queue[i].node \in Nodes
    BY Elements
  <2> QED
    BY <1>1, <2>1, <2>2 DEF Waits
<1> QED
  BY <1>2, <1>3, <1>4 DEF Daemon

LEMMA OneEachNext == BaseInv /\ OneEach /\ [Next]_vars => OneEach'
<1> SUFFICES ASSUME BaseInv, OneEach, [Next]_vars PROVE OneEach'
  OBVIOUS
<1>1. CASE LoseAnnounce
  <2>1. /\ queue # <<>> /\ queue' = Tail(queue) /\ UNCHANGED <<push, verdict, daemon, cur, strayed>>
        /\ queue \in Seq(Request)
    BY <1>1 DEF LoseAnnounce, BaseInv, Shape
  <2>2. \A i \in 1 .. Len(queue') : i + 1 \in 1 .. Len(queue) /\ queue'[i] = queue[i + 1]
    BY <2>1, QueueTail
  <2>3. ASSUME ~strayed, NEW i \in 1 .. Len(queue')
        PROVE  /\ Waits(queue[i])' /\ verdict'[queue'[i].node] = None
               /\ \A j \in 1 .. Len(queue') : queue'[i].node = queue'[j].node => i = j
               /\ daemon # "accept" => queue'[i].node # cur.node
    BY <2>1, <2>2, <2>3 DEF OneEach, Waits
  <2> QED
    BY <2>1, <2>3 DEF OneEach, Waits
<1>2. CASE RepeatAnnounce
  BY <1>2 DEF RepeatAnnounce, OneEach
<1>3. CASE AcceptTimeout \/ UNCHANGED vars
  BY <1>3 DEF AcceptTimeout, vars, OneEach, Waits
<1> QED
  BY <1>1, <1>2, <1>3, OneEachPusher, OneEachDaemon DEF Next

-----------------------------------------------------------------------------
(* Theorems                                                                *)

LEMMA PushInit == Init => PushInv
<1> SUFFICES ASSUME Init PROVE PushInv
  OBVIOUS
<1>1. \A n \in Nodes : ~Told(n)
  BY DEF Init, Told, NoPush
<1>2. OneEach
  BY DEF Init, OneEach
<1> QED
  BY <1>1, <1>2, BaseInit DEF PushInv, VerdictOK

LEMMA PushNext == PushInv /\ [Next]_vars => PushInv'
  BY BaseNext, VerdictNext, OneEachNext DEF PushInv

\* The inductive invariant of the push commands and the daemon.
THEOREM PushInvariance == Spec => []PushInv
  BY PushInit, PushNext, PTL DEF Spec

\* Type correctness, what the serve threads serve and when a verdict may be under way
\* included.
THEOREM TypeCorrect == Spec => []TypeOK
<1>1. PushInv => TypeOK
  <2> SUFFICES ASSUME PushInv PROVE TypeOK
    OBVIOUS
  <2> USE DEF PushInv, BaseInv
  <2>1. ASSUME NEW n \in Nodes
        PROVE  /\ push[n].stage \in Stages /\ push[n].id \in 0 .. pushes
               /\ push[n].file \in Files \cup {None}
               /\ push[n].stage # "idle" => [path |-> push[n].path, mode |-> push[n].mode] \in Targets
               /\ push[n].since \in 0 .. Len(writes) /\ push[n].ok \in BOOLEAN
    <3>1. push[n] \in Command /\ CommandOK(n) /\ pushes \in Nat /\ Len(writes) \in Nat
      BY PushAssumption DEF Shape
    <3> QED
      BY <3>1 DEF CommandOK, Command
  <2>2. ASSUME NEW n \in Nodes
        PROVE  /\ serving[n] # None => serving[n] = push[n].file /\ push[n].stage \notin {"idle", "done"}
               /\ verdict[n] # None => verdict[n] \in {"verified", "failed"} /\ push[n].stage = "wait"
    BY DEF CommandOK, Shape
  <2>3. ASSUME NEW i \in 1 .. Len(queue) PROVE queue[i].node \in Nodes /\ Len(queue[i].body) \in 1 .. Cap
    BY Elements DEF RequestOK
  <2>4. (daemon = "accept") = (cur = None)
    BY PushAssumption DEF WorkOK, Work
  <2>5. ASSUME NEW k \in 1 .. Len(writes) PROVE writes[k].file \in Files
    BY Elements
  <2> QED
    BY <2>1, <2>2, <2>3, <2>4, <2>5 DEF TypeOK, Shape
<1> QED
  BY <1>1, PushInvariance, PTL

\* A push that prints VERIFIED has stored its own file under its own path, whatever
\* announces were queued, repeated, lost or given up on by any number of pushers.
THEOREM VerifiedPushStored == Spec => []VerifiedIsStored
<1>1. PushInv => VerifiedIsStored
  BY DEF PushInv, VerdictOK, Told, Kept, VerifiedIsStored, Stored
<1> QED
  BY <1>1, PushInvariance, PTL

\* As long as no announce has outlived its command, the daemon writes nothing but the
\* waiting push's file to its path.
THEOREM PullIsThePush == Spec => []NothingMisplaced
<1>1. PushInv => NothingMisplaced
  <2> SUFFICES ASSUME PushInv, ~strayed, daemon \in {"chmod", "reply"}, outcome = "verified",
                      Plain(push[cur.node].mode, push[cur.node].path)
               PROVE  /\ Len(writes) # 0
                      /\ writes[Len(writes)].path = push[cur.node].path
                      /\ writes[Len(writes)].file = push[cur.node].file
    BY DEF NothingMisplaced
  <2> DEFINE p == push[cur.node]
  <2>1. WorkOK /\ p.id = cur.id /\ cur.node \in Nodes
    BY DEF PushInv, BaseInv, OneEach, Waits, WorkOK, Work
  <2>2. p.path \in Seq(Nat) /\ p.mode \in Nat
    BY <2>1 DEF PushInv, BaseInv, Shape, Command
  <2>3. svu_announce_decode(svu_announce_encode(p.mode, p.path)) = [mode |-> p.mode, path |-> p.path]
    BY <2>2, AnnounceRead
  <2>4. [mode |-> cur.mode, path |-> cur.path] = [mode |-> p.mode, path |-> p.path]
    BY <2>1, <2>3 DEF WorkOK
  <2>5. p.path = cur.path
    BY <2>4
  <2> QED
    BY <2>1, <2>5 DEF WorkOK
<1> QED
  BY <1>1, PushInvariance, PTL
=============================================================================

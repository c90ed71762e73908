# csp-linksim in TLA+

csp-linksim injects faults into a CSP (Cubesat Space Protocol) link, measures what
they do to file uploads, and carries an uploader of its own, SVU, that checks its
result. An instrument has to be right about what it did (which packets it dropped)
and about what it saw (what was lost, and whether the instrument itself lost it);
the uploader has to be right about success. This directory models those parts,
checks them with TLC on small instances, and proves the central claims with TLAPS
for every value of the constants.

Paths below are relative to `src/`.

## The system

| Part | State | Operations | Talks to |
|---|---|---|---|
| SVU tracker, `lib/ci_svu.c` | payload buffer, bitmap of bytes, byte count, expected digests | `ci_svu_new`, `ci_svu_accept`, `ci_svu_verify` | called by the client |
| SVU client, `svu/svu_session.c` | round, attempt, ranges to ask for, tracker, output file | `svu_client_run`: control exchange, drain, verdict, re-request, write | request, response and data over CSP |
| SVU sender, `svu/svu_serve.c` | the file and its manifest; accept queue | `svu_serve_loop`: accept, answer, close, blast | client |
| SVU push and daemon, `svu/svu_push.c`, `svu_daemon.c`, `svu_apm.c` | announce, serving thread, stop flag | announce, pull, chmod, verdict | runs a transfer in the other direction |
| Drop rule, flow index, `lib/ci_rule.c`, `ci_dtp.c`, `ci_rdp.c` | epoch and last sequence number of a flow | `ci_rule_match`, `ci_flow_index`, `ci_rule_decide` | called by all injectors |
| Gilbert-Elliott chain, `lib/ci_ge.c` | GOOD or BAD, step counter | `ci_ge_fill`, `ci_ge_state_step` | drop rule's vector, or per attempt |
| Drop shim, `inject/ci_drop_iface.c` | tracker, chain, counters, decision log | `ci_drop_iface_nexthop`, `_enable_ge` | between libcsp and a real interface |
| Measurement core, `lib/ci_meas.c` | unwrapped sequence range, bitmap, counts; ring of recent data frames | feed, loss, trust guard, suspect flags, pairing of data with acknowledgements | called by the monitor |
| Monitor, `apm/csp_monitor_apm.c` | running flag, drainer thread, previous counters; remotes and baselines | start, stop, status, drainer, poller, verify | promiscuous queue of libcsp, CMP |
| Loss hook, `apm/csp_loss_apm.c` | hooked interface, saved `nexthop`, counters | start, stop, status, `loss_nexthop` | a live interface, other modules that hook it |
| Link test, `apm/csp_link_apm.c` | probe counts, two snapshots of the far end's counters | probes, snapshots, direction split | ping and CMP |
| ZMQ proxy, `proxy/zmqproxy.c` | delay queue, time stamps of the half-duplex node, counters, drop log, stop flag | lossy forwarding, delayed send, capture | ZMQ |
| Bridge, `tests/e2e/ci_inject_bridge.c` | router queue, duplicate filter, counters | pump | two CSP interfaces, the drop shim |

What is hard in them:

* **SVU** - a request that timed out is still answered later; frames of an older round,
  an older call or an older sender arrive in a later one and carry nothing that is
  checked; manifest chunks are not numbered; the sender may be replaced in mid-call;
  the buffer pool and the disk run out; a re-request names only the first ranges; a pusher
  stops waiting while the daemon still pulls.
* **Injector** - the 16-bit sequence number wraps under repeats; a drop must free the
  buffer exactly once; the log is written before the real interface accepts a frame;
  two implementations of one random chain have to agree.
* **Monitor** - three threads (router, drainer, shell) share a bounded queue, a buffer
  pool and counters of 8 bits; starts fail half-way.
* **Monitor's poller** - the far end's counters wrap, restart at zero, and are read
  before or after the packet that carries them; the local ones are read at other times.
* **Loss hook** - a pointer other threads call through is replaced and put back while
  they are inside it, and while another module may have put its own hook on top.
* **ZMQ proxy** - two threads take frames from and put them back into one bounded queue,
  and share the half-duplex node's time stamps; a signal may come between a test of the
  flag and a poll that blocks.
* **Bridge** - what it has sent comes back to it and must not be sent again.

Correct means: a success of SVU is never reported on wrong bytes, a failed transfer
leaves the old file, the transfer ends, and it succeeds when the link lets it; the
injector's decision belongs to the packet and not to its arrival, its log is what
happened; the monitor's loss is what the captured packets say, and its own losses are
never taken for the link's; a hook that is taken off leaves the interface as it was, and
a split of losses by direction blames no direction for what was lost in none. `PROJECT.json` lists the single hazards with their lines.

## Modules

| Module | Models | Extended by |
|---|---|---|
| `SvuTracker` | `lib/ci_svu.c` | `SvuTransfer` |
| `SvuTransfer` | `svu/svu_session.c`, `svu/svu_serve.c`, the link between them | `MCSvuTransfer`, `SvuTransferProofs` |
| `VerifiedUpload` | the abstract promise of one transfer | instantiated by `SvuTransfer`, which implements it, and `SvuPush`, which relies on it |
| `SvuPush` | `svu/svu_apm.c`, `svu/svu_push.c`, `svu/svu_daemon.c`, announce of `svu/svu_proto.h`; a pull is a `VerifiedUpload` | `MCSvuPush`, `SvuPushProofs` |
| `FlowIndex` | `lib/ci_rule.c`, `lib/ci_dtp.c` | `GilbertElliott` |
| `GilbertElliott` | `lib/ci_ge.c` | `DropShim` |
| `DropShim` | `inject/ci_drop_iface.c`, a sender and a real interface around it | `MCDropShim`, `DropShimProofs` |
| `SeqTracker` | sequence tracker and loss of `lib/ci_meas.c` | `Monitor` |
| `Monitor` | capture side of `apm/csp_monitor_apm.c`, libcsp's promiscuous queue | `MCMonitor`, `MonitorProofs` |
| `MonitorVerdict` | poller and direction verdict of `apm/csp_monitor_apm.c` | `Instruments`, `MonitorVerdictProofs` |
| `RttPairing` | ring of `lib/ci_meas.c`, round-trip rows of `apm/csp_monitor_apm.c` | `Instruments` |
| `LossHook` | `apm/csp_loss_apm.c`, senders and another hook around it | `Instruments`, `LossHookProofs` |
| `LinkProbe` | `apm/csp_link_apm.c` | `Instruments` |
| `Bridge` | pump of `tests/e2e/ci_inject_bridge.c`, libcsp's router queue and duplicate filter | `Instruments` |
| `Instruments` | one of the five above in each behaviour | `MCInstruments`, `InstrumentProofs` |
| `ZmqProxy` | lossy proxy of `proxy/zmqproxy.c` | `MCZmqProxy`, `ZmqProxyProofs` |

Definitions whose name ends in a word after the name of another one and whose comment
begins "Faulty variant" are mutations of the code used to show that a property can
fail; no specification uses them.

### SvuTracker and SvuTransfer

The tracker is a record; `covered` is the set of offsets whose bit is set and
`received` the count the code keeps beside it. SHA-256 is taken as injective: a digest
is the block it digests. Block arithmetic is done modulo `Word` (2^32 in the code).
A request's intervals are a set of pairs: the code's list is sorted, disjoint and at
most `MaxIntervals` long, so `svu_req_encode` and `svu_req_decode` carry it unchanged.

`pc` is the place in `svu_client_run`: `ctrl` (about to open a connection), `hdr` and
`man` (reading the response), `drain`, `open`, `write`, `done`. One action is one step
between two blocking calls. `backlog` is the sender's accept queue; an entry is *live*
while the client's connection for it is open. `data` holds the frames in flight or in
the data socket as a set, so they arrive in any order; identical frames in flight are
one element, and `RecvData` may keep a copy to deliver it again. Abstractions:

* a manifest packet holds one digest (the code packs several): what matters is that
  packets are unnumbered, can be lost or repeated, and the client counts digests only;
* only these packets are repeated on a control connection, not the response's header in
  front of them, which the client would read as a digest too many or too few;
* time: a time-out is free if nothing more can come and otherwise a counted fault;
* a failed `csp_connect`, `csp_buffer_get` or `malloc` in `ctrl_exchange` has the same
  effect as a lost request;
* the session number is not modelled as the client never compares it;
* the programs refuse empty files before they call the library, and so have none.

Bytes 0 and 1 and a block of two bytes are enough for blocks that agree, differ, are
full and are short; the files share a byte so that a mixture can look right.

### SvuPush

Composition by the abstract specification: the daemon's pull takes the steps of
`VerifiedUpload`, where *offered* is what the announcing node serves while the pull
goes on, so that `SvuPush` need not know how a transfer works. `push[n]` is the command
on node n (`serve`, `wait`, `stop`, `done`), `serving[n]` what its serve thread serves,
`queue` the announces at the daemon. An announce carries no file: the daemon pulls
whatever the node serves by then. The verdict goes back on the announce's connection
and reaches only the push that still waits on it. Paths are short sequences of symbols
and are cut as the code cuts them; the magic number is one symbol. `writes` is what the
daemon has stored. A pull stores the file whole (see `svu_short_write`). A command
that fails before it serves anything changes nothing and is left out.

### FlowIndex, GilbertElliott, DropShim

A frame is the parsed view the injectors build. The draw is an arbitrary function
of seed and index below `DrawSpace` (a parameter; proofs need nothing of it). A DTP
fragment's offset is its number times the sender's `Stride`, which need not be the
tracker's `Mtu - Overhead`. `epoch` is a natural: the code's `uint32_t` overflows after
2^48 packets. `nexthop` is one action with its whole effect, as the code calls the real
interface synchronously; `Transmit` is the real interface's thread.

### SeqTracker, Monitor

Positions are integers, as the code's `uint64_t` position below zero has the same bit
in the bitmap because 2048 divides 2^64. `pc` is the drainer's place, `cmd` the shell's.
Each read of a shared counter that can interleave with the router is a step of its own,
except those that make up one row. The window timer may fire at every pass, so windows
of every length occur. `heard`, `origin`, `owed`, `failed`, `stale` and `astray` are
history. `owed` is the number of clones lost while the drainer compares the two counters
(`Compared`), less those its flagged rows have told of; a loss at any other time changes
it not, for no row can tell of it: before the drainer first reads the counters, between a
row and their second reading, and after the drainer has left its loop. `astray` says that
a packet was out of the tracker's reach (`OutOfReach`), which is when the signed distance it
computes, or its bitmap, can no longer be right. libcsp's test of the mode, clone and
enqueue (`Promisc`) are one step, so that a clone begun before a stop turns the mode off
and queued after its drain does not occur.
The presence rows are left out, one RDP connection is on the matched port, and the
round-trip ring and the poller, which touch none of this, have modules of their own.

### MonitorVerdict, RttPairing

`mpc` is the poller's place. A poll is three steps: the query goes out (and the far end
counts it, puts its counters into the answer and counts the answer, in that order), the
reply arrives or times out, and the row is recorded under the lock. User packets go
between any two of them. What the verdict should say is kept beside it in `past`: what
was lost since the baseline, what the far end has counted since the sample, what lay
between sample and baseline, and which polls of other targets are on which side of it.
`others_q` and `others_r` are the sums the code keeps, `Minus` is unsigned subtraction.

In `RttPairing` two ends exchange numbered packets in order; each frame may miss the tap,
the other end or both. `tape` records what each slot of the ring has held, so that a
pair can be traced to the transmission it came from.

### LossHook

A function pointer is the interface whose driver it is, `"loss"`, `"other"` or null, so
that the chain of hooks of an interface can be walked. `start` is three steps (parameters
and counters, the saved pointer, the hook), `stop` two (unhook, clear); a frame is read
the pointer for, decided on, counted, held for its air time, and passed on through
`loss_real_nexthop` as it is *then*. A counter is read and written in two steps, the
reading of `loss_sent` together with the decision; the three writes that end a stop are one
step. A frame that calls a null pointer, another interface's driver, or itself without end is `fault`.
Whether a given frame is dropped is `FlowIndex`'s and `GilbertElliott`'s subject.

### LinkProbe

An exchange with the far end is one step with one of four fates: the query dies, it
arrives and is not answered, the answer dies, all is well. The far counters wrap, and may
be cleared by a restart; packets of others may be counted between the snapshots.

### ZmqProxy

`pc` is the forwarding loop's place, `wpc` the delay thread's. The loop's steps are the
ones between which another thread can act: the test of the flag, entering the poll, the
frame, and for a frame of the half-duplex node the two places its power-up time stamp is
read. Its test for a warm transmitter and its test-and-set of the power-up's start
(`zmqproxy.c:729-732`) are one step, and so are the two writes of a transmission's mark
(562-563). The delay thread takes, looks, sends or puts back, and marks the transmission. A
frame is its sender and receiver, whether it fits the buffer, whether it is in the
rule's scope and what the rule decides. A frame too short for a header is judged by the
header left in the buffer. Time is in ticks, and none passes while a frame is handled.
`g_malformed_frames` has two writers: the loop in the modes that parse, which rejects the
frame, and the capture thread on frames that were sent. In a mode that parses, what is
sent has passed the loop's test, so that the counter is the loop's rejections there and
nothing but the capture thread's findings elsewhere; `FrameInOnePlace` accounts for it
accordingly.

### Bridge

`qfifo` is libcsp's router queue: what either side sends and what the bridge hears of its
own. The pump is three actions, by what it decides on the head of the queue: a duplicate,
its own echo, or a frame to pass on. The filter forgets when it likes, which stands for
its 100 ms. Whether an entry is an echo is recorded but not looked at by the pump.

## Runs

| Run | Bounds | What it shows |
|---|---|---|
| `svu_transfer` | three files of 2 to 4 bytes, the largest with a block count that wraps; 3 rounds, 2 attempts, 1 interval, 3 faults, 1 restart, repeated chunks, full disk | `NothingUnverifiedIsWritten`, `ReRequestIsTheDamage` |
| `svu_upload` | two files, one-byte frames, 8 rounds, 4 attempts, 3 faults, 1 restart; chunks not repeated, disk has room | `VerifiedMeansSource`, `ImplementsUpload`, `Terminates`, `Converges` |
| `svu_short_write` | one file, no faults but the disk | violates `VerifiedMeansSource` |
| `svu_push` | two nodes, two pushes, two files, three targets, one fault | `VerifiedIsStored`, `NothingMisplaced`, `PushReturns` |
| `svu_push_name` | one push with `-p` of a path that fits only without | violates `StoredUnderItsName` |
| `drop_shim` | sequence space of 8 entered 2 before its wrap, 7 transmissions, window 2, four rules, both flows, pool 2, queue 1 | `IndexIsIdentity`, `LogAccounts`, `BuffersConserved`, `ChannelReplays` |
| `drop_wrap` | as above, 6 transmissions, repeats may go back over the wrap | violates `DecisionIsPure` |
| `monitor` | 4 packets, up to one lost between two of them, late by up to 3; sequence space 6 entered 2 before its wrap and passed once round, bitmap of 3, queue 1, pool 2, counters modulo 3, 2 starts | `LossCounts`, `InstrumentLossIsFlagged`, `StopLeavesNothing`, `StopReturns` |
| `monitor_gap` | as above, 1 start, a link that loses nothing and only repeats the newest packet | violates `InstrumentLossIsNotLinkLoss` |
| `zmq_proxy` | seven command lines, one of which is refused; delay queue of 2, 3 frames until tick 4 of 6, power-up, power-down and delay of one tick | `FrameInOnePlace`, `LogAgainstWire`, `MalformedOnce`, `PowerUpRespected`, `StopIsTaken`, `DelayedFrameLeaves` |
| `instruments` | loss hook: 2 senders, 2 interfaces, 2 frames, 2 starts, one call inside another refused. Link test: 3 probes (0 and 9 refused), 2 tries of a snapshot, 1 packet of others, counters of 16 values about to wrap. Verdict: 2 targets, 2 user packets, 2 rounds, 1 restart, counters of 32 values about to wrap. Round-trip ring of 2, 7 frames, 6 sequence numbers, a clock of 4. Bridge: router queue of 3, filter of 2, 4 arrivals of 3 frames, echoes on both sides | `PacketConsumed`, `HookChain`, `FaultOnlyAfterRacedStop`, `DeliveredNotNegative`, `DropsOnHookedIface`; `DirectionSplit`; `VerdictAccounts`, `NoFalseReboot`, `PollerStops`; `PairsAreGenuine`; `PassedOnOnce` |
| `monitor_verdict` | as above | violates `OtherPollsDoNotShow` |

Each passing run checks its module's type invariant as well (`svu_upload` shares
`svu_transfer`'s). The bounds let every limit be met and passed: more damaged ranges
than a request holds, attempts and rounds used up, a queue and a pool that are full
and a wrap of every counter, in combination with up to three faults. `svu_upload` has
more rounds and attempts than faults because `Converges` is about a link whose faults
run out first; one interval per request makes every repair take several rounds.

The five instruments of `instruments` share no state and no threads with one another, so
that `Instruments` runs one of them in each behaviour (`tool`) instead of their product.
Their bounds are small but each limit is passed in them: every counter wraps, the queues
and the ring are full, a snapshot uses up its tries, the filter forgets between a frame
and its echo, two frames meet in the loss hook while it is stopped and started again.
Two tries per snapshot instead of the code's three lose nothing, as a try is a repeated
step. `zmq_proxy` stops time at a bound rather than the traffic, so that all that was
delayed comes due.

**Fairness.** `SvuTransfer!FairSpec` asks that the client and the serve loop keep
running, which is what a scheduled process that never blocks without a time-out does;
the link owes nothing, its faults are merely finite in number. `Monitor!FairSpec` asks
the same of the drainer thread and of a stop command that has been given; nothing is
asked of start commands or of traffic. `SvuPush!FairSpec` asks it of the daemon and of
the steps of a push under way, its read's time-out included; the serve thread, which
looks at its stop flag only after two seconds without a request, is fair only while the
daemon does not pull from it. That a pull ends is `SvuTransfer`'s `Terminates`.
`ZmqProxy!FairSpec` asks that the forwarding loop and the delay thread keep running and
that time passes; nothing is asked of publishers, the capture thread or the signal.
`Instruments!FairSpec` asks that the poller's thread keeps running, none of whose calls
blocks without a time-out; the other instruments owe nothing, as nothing but safety is
claimed of them.

## Findings

* `svu_short_write`: `svu_client_run` looks at neither `fwrite` nor `fclose`, so a full
  disk gives a short file and VERIFIED (`svu/svu_session.c:222`).
* `svu_push_name`: a path longer than an announce (250 bytes, 242 with `-p`) is cut
  without a word; the file is stored under the shorter name and the push reported as
  VERIFIED under the longer (`svu/svu_proto.h:137`).
* `drop_wrap`: `ci_flow_index` takes the epoch from the packet seen last; a packet from
  before a wrap that is repeated after one from behind it is put in the later epoch, and
  so has another index than the first time (15 instead of 7 in the run's sequence space of
  8) and another decision (`lib/ci_rule.c:77`).
* `monitor_verdict`: the polls of the other targets are counted from the start and
  subtracted from counters whose baseline is taken at the far end's first answer; after
  one missed poll a clean link is reported as 100 % uplink loss
  (`apm/csp_monitor_apm.c:352`).
* `monitor_gap`: a clone lost between a `#WINDOW` row and the second reading of the
  counters (`apm/csp_monitor_apm.c:262`) is in no window, so that the next row shows a
  loss without a flag on a link that loses nothing. The comments (lines 33-36, and
  `lib/ci_meas.h:96`) say that instrument loss is never mistaken for link loss. A clone lost
  after start has turned promiscuous mode on and before the drainer first reads the
  counters (166-167) is missed in the same way; the property's condition leaves it aside.

Four more exceptions contradict a comment of the source. The claim without the exception
is stated next to the property that makes it, and TLC refutes it when it takes that
property's place in the component's passing run:

* `NothingStale` (for `StopLeavesNothing`): a start command that fails after promiscuous
  mode is on does not drain the queue, and with a failed `fopen` does not turn the mode
  off (`apm/csp_monitor_apm.c:489`); the next capture begins with the old clones, which
  the comment of the drain (536-538) rules out.
* `StopIsNoticed` (for `StopIsTaken`): a SIGINT between the test of `g_stop` and the poll
  interrupts nothing, and without traffic the proxy stays there (`proxy/zmqproxy.c:699`),
  where the comment (583-584) has the loop notice it on the next iteration.
* `BlurIsMarked` (for `DirectionSplit`, which bounds the error): packets of others blur
  the split of `csp_link` without the mark its header comment promises
  (`apm/csp_link_apm.c:42-44` and 240), as the code cannot see them.
* `CleanAfterStop` (for `FaultOnlyAfterRacedStop`): `csp_loss stop` while a frame is in
  the hook lets it go on through a null pointer (`apm/csp_loss_apm.c:468`), where the
  usage (line 6) says "link is clean again". The same stop with another module's hook on
  top leads the next frame there, or after another start to a foreign driver.

Exceptions the properties make, of which no line of the repository was found to say
otherwise:

* an announce whose pusher has given up is still carried out later, with whatever file
  its node serves then (`NothingMisplaced` is about the rest);
* a late packet from before the first captured one hides a hole in the loss figure, and
  nothing is said of a run with a packet half a sequence space or a bitmap width away from
  the newest (`LossCounts`);
* clones lost after the last row of a run are in no row, and a counter that goes once round
  in a window shows nothing (`InstrumentLossIsFlagged`);
* a frame lost to a full delay queue is in the log as kept, and one the delay thread
  could not put back is in no counter (`LogAgainstWire`, `FrameInOnePlace`); a frame too
  short for a header is judged by the header of the frame before it;
* the round-trip ring does not tell directions apart, so its pairs are right while the two
  sequence spaces do not meet, and a second acknowledgement after a repeat is paired
  with the transmission before (`PairsAreGenuine`).

One comment is narrower than the code without a property to show it: the bridge's says that
reflections of its own transmissions are in `dup_out` (`tests/e2e/ci_inject_bridge.c:331-332`).
Those of frames it sent on the ingress are heard there and counted in `dup_in` while the
filter remembers them (`PassedOnOnce` says what a zero is evidence of).

## Proofs

Each theorem holds for all constants that satisfy the named assumptions of the
modules (`ByteAssumption`, `BlockAssumption` and `TransferAssumption`; `FlowAssumption`
and `ShimAssumption`; `PushAssumption`; `LossAssumption`; `ProbeAssumption`,
`RttAssumption` and `BridgeAssumption`; `VerdictAssumption`; `SeqAssumption` and `MonitorAssumption`; `ProxyAssumption`), which
TLC evaluates in the runs.

**SvuTransferProofs**, first about the tracker. `NblocksNeverWrong`: the wrapped block count is the true one or 0,
and `ci_svu_new` refuses 0. `ManifestDetermines`: equal length and manifest, equal
payload, since every offset lies in the block `ci_svu_manifest` digests for it.
`AcceptOK`: the byte count stays the number of covered offsets. `VerifiedIsTheFile`: with a
file's size and manifest the verdict is COMPLETE_VERIFIED exactly when every byte has been
covered and the payload is the file (from `VerifiedIsWhole` and `ManifestDetermines`).

Then about the session. The inductive invariant `IInv` is `TypeOK` with

* `OneLiveRequest`: at most one waiting request is live, and none while answer
  packets are under way, so the packets the client reads belong to one answer;
* `ClosedConn`: no packet and no chunk is left over outside an exchange;
* `Progress`: a complete, verified tracker exists at `open` and `write`, and the output
  file is untouched before;
* `AnswerInOrder`: packet k of an answer, counting what was read and what is under way,
  is the response's packet k or a later one, later by at most the number of packets
  lost, so that a full count of chunks can only be all of them in order;
* `GenuineManifest`: the tracker's digests are the manifest of a file offered;
* `VerifiedMeansSource`.

The last three are conditional on `CtrlMayDuplicate` (and the last on `DiskMayFill`)
being false: without numbers on the chunks a lost and a repeated one make a wrong
manifest of the right length, which `NothingUnverifiedIsWritten` does not depend on.
From it: `TypeCorrect`, `OnlyVerifiedIsWritten`, `SuccessIsGenuine`, and
`TransferImplementsUpload` (step simulation of `VerifiedUpload`; `disk` and `result` are
its `content` and `outcome`).

`ReRequestHolds` adds `Asked`: from the verdict of a silent drain to the end of the next
exchange the ranges held are those of the tracker, which does not change in between. What
they are is a matter of the operators: the maximal runs of uncovered bytes begin at
different offsets and together are the missing bytes (`RunsDiffer`, `RunsAreTheMissing`), the
range of a bad block is the block (`RangeIsTheBlock`), and of finitely many ranges with
different beginnings `push_interval` keeps some, at most as many as there is room for, and
all when there is room (`FirstRangesFew`).

What makes the transfer converge is proved of each single round. `calm` is a history
variable: nothing was under way when the round began, and since then there has been no fault
and no restart. While it is true the round is where `InRound` says: the answer is the
manifest in order, the frames under way are those of the blast, and a byte that was asked
for is right or still coming. The frames of a blast are pieces of the file (`BlastGenuine`)
that together hold every byte asked for, clamped ranges included (`BlastReaches`), and accepting
one makes its bytes right and none wrong (`AcceptRepairs`). From it: `CalmRoundRepairs` (what the round
asked for is repaired, in one exchange), `CalmRoundKeeps` (nothing else gets worse),
`CalmRoundVerifies` (when nothing else was wrong, the verdict is VERIFIED),
`CalmRoundShrinks` (with `before`, the bytes that were wrong when the round began: strictly fewer
are wrong at the end of its drain, since a request made after a bad verdict names a wrong
byte whatever `MaxIntervals` is, so that no more such rounds are needed than the file has bytes), and
`FaultFreeUpload`: until the first fault there is one round and one exchange, and the call
fails for no reason but an output file that cannot be opened or a wrapped block count.

**DropShimProofs.** `BaseInv` (`TypeOK` and `BuffersConserved`) is inductive by itself
and gives `TypeCorrect` and `DropContract`. `IndexExact` needs `IndexInv`: the packet
sent last lies within `Window` of the newest (`LastInWindow`), and the tracker's epoch
and last number are quotient and remainder of `isn` plus that packet's number
(`TrackerExact`); two packets less than `Half` apart then wrap exactly when the code
says so (`EpochExact`). It assumes `Aligned`: repeats do not go back over a wrap and the
fragment size is the tracker's. Both are needed (`drop_wrap`; the second is the
shim's fixed overhead of 4 bytes). `DecisionsArePure` follows under the same assumption,
since in identity mode the rule decides on the index that is logged (`DecidedByRule`).

`ReplayHolds` compares two computations of the burst-loss chain, one step per transmission
and a recursive function. The invariant `ChainExact` says that the states the chain has been
in follow the draws from GOOD; `FillFollows`, that a function which does is the one
`ci_ge_fill` defines: two that do would differ first at some index, which is impossible
(`Least` stands in for induction). `AccountsHold` needs no strengthening, but that an entry
and a frame added at the end take the same place and move no other (`PlaceAtEnd`,
`BothGrow`), and that a transmission leaves queue and bus together as they are
(`TransmitKeeps`).

**SvuPushProofs.** `PushInv` says where the work in hand comes from: a queued announce
decodes to the path and mode its push encoded (`AnnounceRead`, for every path that fits
and is not read as the magic number), the daemon's current request belongs to a push or
to one that has given up (`RequestOK`, `WorkOK`), at most one announce of a push is about
(`OneEach`), and a verdict is told only of what was kept (`VerdictOK`). Neither
`VerifiedIsStored` nor `NothingMisplaced` is inductive without: the verdict travels apart
from the file. From it: `TypeCorrect`, `VerifiedPushStored`, `PullIsThePush`. The pull
enters only through the steps of `VerifiedUpload`, so with `TransferImplementsUpload` the
argument reaches from the link to the printed word.

**LossHookProofs.** `HookInv` has three layers, each conditional on what spoils it. As long as
stop has found its hook on top (`~buried`), every pointer is where it belongs (`CleanOK`);
as long as no stop was raced, every frame in the hook has a way to its driver
(`FramesOK`); while one frame at a time is in the hook, what it has read of the counters is
current (`CountsOK`). What holds always is in `CommandOK` and `HooksOK`. From it:
`TypeCorrect`, `OnlyRacedStopsFault`, `ChainRestored`, `EveryPacketConsumed`,
`NeverNegative`, `DropsOnlyWhereHooked`, for any number of threads, interfaces and starts.

**InstrumentProofs** is about three instruments and the composition. The bridge, `BridgeInv`: the entries of the queue the split horizon takes for its own
are exactly the echoes (`EchoesOurs`; this is where the two sets of sources must be
disjoint), and on each side arrivals are what was passed on, swallowed or still waits
(`Counted`). The lemmas `PlacesAppend` and `PlacesTail` say how the number of waiting frames
changes at either end of the queue. From it: `BridgeTypesHold`, `EveryFrameOnce`.

The link test, `LinkInv`: what each stage has recorded (`Stages`), and that the far end's
counters are ahead of the opening snapshot by the probes that reached it and the answers it
gave (`FarKnown`). How far is a range, which every failed try and every packet of others
widens by one, and it holds modulo the width of the counters. `ProbeAssumption` keeps the
range below one turn, so that the unsigned subtraction at the end yields a number in it.
From it: `LinkTypesHold`, `SplitHolds`.

The round-trip ring, `RttInv`: every slot holds the transmission that `tape` has for it, and
is valid unless a row used it (`RingHolds`); an end has sent what the other has received
(`Handshake`). While the numbers of the two directions do not meet, neither end has gone
round the sequence space (`NoTurn`), so a number in the ring is one packet (`OnePacket`). From
it: `PairsHold`.

The composition, `Instruments`: a step of it is a step of one instrument and a stutter of the
other four, so that its behaviours are behaviours of each (`InstrumentsApart`). With that,
what is proved of `LossHook`, `LinkProbe`, `MonitorVerdict`, `RttPairing` and `Bridge` alone
holds of the specification the run checks: `InstrumentsTypesHold`, `InstrumentsCorrect`.

**MonitorVerdictProofs.** `VerdictInv` counts modulo the width of the counters, as
congruences (`Cong`): what is missing in a direction and what explains it agree
(`AccountsOK`); the far end's counters are ahead of the last sample by the packets since
(`FarOK`), those in an answer by the packets between the two samples (`AnswerOK`), both as
long as the far end has not restarted in between; and these packets are fewer than half a
turn (`Order`), which is why a counter that is behind by less cannot have wrapped
(`BehindByWrap`). Neither property is inductive without: the account of a sample is about
an answer that was filled in at the far end some packets ago. It assumes what
`VerdictAssumption` says: an even width, and fewer packets than half a turn in a run.
From it: `VerdictTypeCorrect`, `RestartsAreReal`, `VerdictIsAccounted`.

**MonitorProofs.** What a row reports is computed from the tracker, what was lost from the
packets themselves, and nothing but the history ties the two together. The invariant:

* `Represents` (in `Tracked`): the tracker is the set of packets captured since it was
  reset, shifted by a constant `o` that is right modulo the sequence space; a bit of the
  bitmap is set exactly for the captured positions of the last `Win`, the three counters
  are the set's cardinality and the repeats, and the highest position is in the set. It
  holds until a packet is fed that is out of reach (`astray`): within reach the signed
  distance the code computes is the true one (`FeedRepresents`) and a late packet has its bit
  still in the window;
* `Counted`: what is owed is what the two counters have advanced by since they were read,
  as `ci_u8_delta` computes it, plus a number of whole turns that is not negative. A row
  tells of the first two (a flag is set exactly for a difference that is not zero), so
  that the turns are left, which is `InstrumentLossIsFlagged`; and that has to hold until
  the counters are read again, when both differences are zero (`DeltaOnce`, `CountedOnce`:
  one more loss advances a difference by one or closes a turn);
* `Control` and `Fresh`: where the shell may be while the drainer runs, and that until a
  start command fails the queue is empty between captures and holds only clones of this
  one in between. Without the last two, `StopLeavesNothing` does not survive the step
  from a stop to the next start.

From it: `TypesHold`, `LossCountsHolds`, `InstrumentLossHolds`, `StopHolds`, for any sequence
space, bitmap, queue, pool and counters and for runs of any length, which may go round
the sequence space any number of times: `MonitorAssumption` limits none of them. That
the condition of `LossCounts` is met is a theorem of its own for runs that are short and links
that reorder little, `ShortRunsInReach`: with the code's figures (`ShortRun`), less than 32768
packets and a late one by less than 2048.

**ZmqProxyProofs.** Every frame has a number, and `Inv` says for each place where it can be,
which ones can be there.

* `Places`: no number is twice on the wire or in the delay queue or in both, nor in the
  hands of the delay thread and anywhere else; `Numbers`: those the loop has yet to see
  are above all others;
* `Accounted`: the cardinalities of the places add up to the frames taken, of which
  `FrameInOnePlace` is a consequence once the frame in the loop's hands is counted;
* `LogAgrees`: what subscribers have or can still get, against the log, with the frame in
  hand; its logging and its sending are two steps;
* `SmallOnly` and `CapturedOnce`: a frame too big for the buffer gets no further in the
  modes that parse, and the capture thread's findings are about frames sent, each looked
  at once; `NoWorker`: without the delay thread order is kept;
* `PowerUps`: while no frame is lost in the delay queue (`Lossless`, the condition of
  `PowerUpRespected`), every half-duplex frame held back is `Covered`, by one in front of it that
  was held for the power-up time, or by a transmission since it was held, or by one the
  delay thread is about to record. This is the interleaving: the loop reads the time stamp
  in two steps and the delay thread writes it between them.

From it: `TypesHold`, `OnePlaceHolds`, `LogHolds`, `MalformedHolds`, and the action property
`PowerUpHolds`. The last needs `PowerUp <= PowerDown`, which is true of the defaults (30 and
100 ms, `zmqproxy.c:60`) and which the code does not check of `-U` and `-O`: with a longer
power-up than power-down a node is taken for off again while its first frame waits.

Every invariant of the runs is stated by a theorem, those of `instruments` both of the
instrument alone and of the composition. So are the action properties `DropsOnHookedIface` and `PowerUpRespected`. Two of the statements a run refutes
are proved under the condition the counterexample lacks: `SuccessIsGenuine` (disks that store
what they are given) and `DecisionsArePure` (repeats that stay on their side of a wrap). Only
model-checked: liveness (`Terminates`, `Converges`, `StopReturns`, `PushReturns`, `StopIsTaken`,
`DelayedFrameLeaves`, `PollerStops`), which is out of the prover's reach. The safety half of
`Converges` is the theorems on calm rounds above.

## Not modelled

* Byte layouts, logging, option parsing, network setup (`svu_net.c`), the arithmetic of
  SHA-256 and splitmix64, floating-point thresholds. The file offset of `svu_serve.c:71`
  wraps only within a payload of 4 GiB and is taken not to.
* Unsynchronised use of data the language or a library leaves undefined: one ZMQ socket
  used by the forwarding loop and the delay thread, the loss hook's log closed while a
  frame writes to it, its flow tracker shared by transmitting threads.
* The plain proxy, which is libzmq's own loop, and the connection monitors; the loss
  hook's scan of `/proc` for competing processes; air time and pacing of the bridge and
  its CAN variant `ci_inject_can.c`.
* Packets of third parties in the verdict (the printed caveat is about them), RDP's
  extended acknowledgements in the round-trip rows, the monitor's `verify`, which is a
  file hash, and round-trip figures of `csp_link`.
* The loss hook together with the other instruments: they meet in the interface's pointer
  only, which `LossHook` models by another module's hook.
* `apm/csp_shell_apm.c`, which runs a program and has no state; test hosts, scripts,
  captures, figures.

## Plan

No safety property of a passing run is left unproved. What could follow: abstract
specifications of the shim (a filter that applies one decision per identity) and of the
monitor (a loss figure over the set of packets) with the refinement proofs, for which
`DecidedByRule` and `Represents` are the mappings; and the second CAN fixture of the bridge.

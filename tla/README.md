# A verification project for hwwctl

hwwctl starts hardware-wallet emulators for tests and shows each of them to the
desktop as a `/dev/hidraw*` device. A long-lived daemon owns the emulators and
their bridges; short-lived `hwwctl` commands drive it over a Unix socket, and
start it when it is not there. This directory holds TLA+ models of that system,
the TLC configurations that check them, and theorems about them with proofs for
TLAPS. Paths below are relative to `src/crates/`.

## 1. The system

### Components

| Component | State it keeps | Operations | What is hard |
|---|---|---|---|
| Daemon main loop, `hwwctl/src/daemon/mod.rs` | listener, registry handle, a tokio `Notify` for shutdown | accept, spawn a handler per connection, wait for the notification, exit | `select!` between accept and notification; `process::exit` over running tasks |
| Connection handler, `mod.rs:106-171` | one request, one stream | read a frame, dispatch, write the reply, notify after a shutdown | clients that hang up; order of reply and notification |
| Signal task, `mod.rs:64-75` | armed once | drain the registry, notify | races the main loop and the handlers |
| Instance registry, `daemon/registry.rs` | map from ids to instances, a channel of 64 commands, one-shot replies | start, stop, status, logs, bridge_stats, shutdown | awaits inside a command while others queue; partial failure |
| Spawn, `daemon/spawn.rs`, `hidraw_scan.rs` | what one start has built so far | spawn, seed, bridge, settle, register, undo | every step can fail with something to undo; ids can collide |
| Instance logs, `daemon/instance.rs` | two rings of lines, four counters | append, count, collect, tail, snapshot | readers race the drain task; relaxed counters; overflow |
| Client and auto-spawn, `client.rs`, `auto_spawn.rs` | nothing but the socket path | connect, unlink, spawn a daemon, poll, send, receive | no lock on the path; crashed daemons; concurrent clients |
| Control protocol, `control/src/lib.rs` | none | frame, parse, resolve the socket path | truncated and oversized frames |
| GenericBridge, `bridge/src/generic.rs` | running flag, shutdown senders, task handles, a thread with the UHID device, relay and reader tasks | start, stop, drop | four tasks per start that end for different reasons; reconnects; abort |
| TrezorBridge, `bridge/src/trezor.rs` | the same over UDP | the same | its own shutdown test |
| VirtualHidDevice, `bridge/src/uhid.rs` | the kernel device | create, poll, send, destroy on drop | |
| GenericEmulator, TrezorEmulator, `emulators/src/` | child, status, output ring | start, stop, probe, drop | a start over an old child; futures dropped half-way; probes that answer for somebody else |
| Bundler, `bundler/src/` | bundle directories and manifests on disk | list, download, extract, remove | failure or crash between any two steps |
| Trezor clients and decoder, `protocol/src/` | a UDP socket | exchanges with timeouts, button acks, decoding | answers that come late or in part, with nothing in them that names the request |
| Output, wallet configuration | none | formatting, tables | |

### How they interact

A client connects to the socket (or spawns a daemon and polls), writes one
frame and reads one reply. The main loop accepts and spawns a handler; the
handler sends a command to the registry over the bounded channel and awaits the
one-shot reply; the registry task executes one command at a time, suspending at
the awaits of `spawn.rs`, of `Bridge::start`/`stop` and of `Emulator::stop`. A
registered instance owns a simulator child (`kill_on_drop`) and a bridge, whose
thread owns the UHID device; host reports go thread, channel, relay task,
emulator socket, and back through a reader task. Shutdown is a command to the
registry followed by `notify_waiters` on the main loop's `Notify`.

### What makes each part correct

- **Registry**: every command is answered exactly once and, while simulators
  respond, eventually; replies are those of an atomic map; a simulator and a
  device always belong to one instance or to the command under way; a
  `Stopped` or `ShuttingDown` reply is true when it is sent.
- **Daemon**: the process exits only after a drain has been answered; handlers
  and registry agree on who waits for what; requests that are read get served.
- **Auto-spawn**: clients find a daemon; clients that take turns share it; a
  dead daemon's file is got over; an exiting daemon leaves none.
- **Bridges**: reports arrive once and in order; a stop is final; the device
  goes when the bridge does.
- **Instance logs**: a ring holds the newest entries in order; counters never trail
  the log and never go back.
- **Emulators**: no process without an owner; `Stopped` and `Running` mean what they
  say; start and stop return.
- **Bundler**: an installed bundle is whole, or known not to be.
- **Wire clients**: a message is put together whole; an answer is the answer to the
  request that was sent, unless an earlier request failed; a button is confirmed
  only where one was asked for; every exchange ends.

## 2. Modules

| Module | Models | Built on |
|---|---|---|
| `Registry` | registry, spawn, and the child and device of each start | |
| `LinearRegistry` | what the registry promises: commands on a set of ids, each at one instant | |
| `Daemon` | main loop, handlers, signal task, process exit | EXTENDS `Registry` |
| `Bridge` | GenericBridge (TCP, Unix stream, Unix datagram) and TrezorBridge (UDP) | |
| `AutoSpawn` | clients and daemons around the socket path | |
| `Bundler` | the bundle directory of a wallet, and the downloads and removals that change it | |
| `Emulator` | GenericEmulator and TrezorEmulator: one handle, its processes, its port | |
| `InstanceLogs` | rings, counters and the queries of one instance | |
| `TrezorWire` | TrezorWireClient and TrezorDebugLink against a simulator | |
| `MCRegistry`, `MCDaemon`, `MCBundler`, `MCInstanceLogs` | request sets, bundle contents and symmetry for TLC | EXTENDS the module |
| `Registry_proofs`, `AutoSpawn_proofs`, `Bundler_proofs`, `Emulator_proofs`, `Bridge_proofs`, `InstanceLogs_proofs`, `TrezorWire_proofs` | theorems | EXTENDS the module |
| `Daemon_proofs` | theorems | EXTENDS `Daemon`, `Registry_proofs` |

`PROJECT.json` maps every definition that models code to its lines.

### Registry

Callers are the tasks that hold a `Registry` handle. A call goes `idle`,
`sending` (suspended for a channel permit), `waiting` (for its one-shot reply).
The registry task is `pc`, the await at which it is suspended: `recv`, the awaits of
a start (`starting`: skip-probe delay; `seeding`; `settling`: the 500 ms before
the bridge; `connecting`; `hidraw`), those of undoing one (`undo_seed`,
`undo_bridge`: `emu.stop()`), and those of taking an instance down
(`bridge_down`, `emu_down`). Between two awaits everything is one action,
because no other task writes what the registry owns. `cur`, `curId`, `curProc`
and `victims` are the locals that live across an await: whose command it is,
what it works on before it is in the map, and the snapshot of ids of a stop or a
shutdown.

`emu[p]` and `dev[p]` are the world: a simulator is `up`, `hung`, `dead` (died
by itself, not yet reaped); a device is `open`, or `closing` once its thread has
been told to exit, which happens a little after `bridge.stop()` returned or the
bridge was dropped. Start takes a pair `p` that is completely free. What is
abstract: ports (a lost port race shows as a failing seed or connect), serials,
profile directories (`/tmp/hwwctl-<id>`, which the code never removes), log
contents. The `StartupTimeout` arm of `start_bitbox02` is left out because
`skip_probe_delay` makes `emu.start()` set `Running` unconditionally
(`emulators/src/generic.rs:459-472`).

`Faults` switches environment faults: `crash` and `hang` of simulators,
`id_collision` of `random_suffix`. Steps of a start may fail in every
configuration.

### Daemon

Extends the registry with connections (`conn`, `wire`, `open`), the main loop
(`main` between and inside selects, `wake` for "the future of this select has
been notified"), and the signal task. `Accept` and `Break` are both enabled when
a connection and the notification are ready, which is the random branch order of
`tokio::select!`. `notify_waiters` reaches only a select under way. A frame is a
request, `garbage` (read or parse error) or `nothing` (end of stream). With the
process gone nothing of it moves any more; simulators do, since
`process::exit` runs no destructors. Devices are left as they were by the
model; the kernel removes them with the process.

### Bridge

One handle and, per start, a generation of its own: thread `dev`, channel
`chan`, relay, readers, connections. A report is its number in the order the
host wrote it. The transports differ in what `start` awaits (TCP connects), when
the relay connects (Unix: on the first report), what ends a task, and which tasks
a stop aborts; these differences are the disjuncts on `kind`. Abort is
asynchronous: a task that is being polled finishes that poll (`aborting`), and
`StopDone` assumes only that such a poll is over after the 200 ms of the code.
Left out: data from the emulator to the host, the intercept channel, and the
datagram client path that two bridges of one process would share.

### AutoSpawn

Every system call on the path is one step of a client or a daemon: connect,
exists, unlink, spawn; exists, unlink, bind, remove. bind and listen are one
step. The file is named by the daemon that bound it. A client slot is one
invocation. What a daemon does while it listens is module `Daemon`'s subject;
here it may leave its loop at any time. An unlink that the system refuses is
ignored in two places: the client spawns its daemon all the same, and the
daemon that cannot remove its file ends as one that was killed does. `raced` and
`upset` are history
variables: whether searches, start-ups and exits ever overlapped, and whether a
daemon ended or a call was refused.

### Bundler

A task is one call of `download` or `remove`. The disk is a release per file
(or `Torn`, where a writer stopped in the middle of an entry), the manifest,
and two files all calls share: the temporary file of the transfer and the
archive. Each of these is the set of calls whose bytes are in it, so that a file
that several calls wrote can be told from a sound one: reading it may fail at any
entry. A release may bring a `manifest.json` of its own, as
`scripts/build/bitbox02.sh` packs one; it is unpacked like any other file,
before or after the rest. `remove_dir_all` takes everything at once or fails after some of
it. The steps are the awaits and the file system calls that another call can
come between; a `Drop` lets the extraction run on in its blocking thread
(`detached`), or begin there when a thread is free (`adrift`), a `Kill` stops
everything. An archive that cannot be removed stays, and nobody is told
(`UnlinkArchive`). The search for the program has all three stages of
`find_emulator_binary`: a known name, any executable, the name of the wallet.
`raced`, `touched` and `stuck` are history variables: whether two calls were ever
under way at once, which call changed the installation last, and whether an
archive could not be removed. A manifest that is missing and one that does not parse
are the same to every reader. Within the repository only the daemon's reading
side and the end-to-end tests use the bundler, so any caller of its public
methods is allowed.

### Emulator

One handle (`GenericEmulator` or `TrezorEmulator`; both run the same steps)
lives through starts, stops and its drop. `pc` is the await it is suspended at,
`child` is `self.child`, and `leaving` is the child that a start has spawned and
not stored yet, or that a stop has taken. `kind` is how the handle finds out that
the simulator is ready: `stream` connects, `udp` sends an empty datagram, `delay`
only waits. The datagram goes out on a socket that is not connected, to which the
system reports no error, so `Reachable` is always true for `udp`. The world is
`proc`, the processes a signal is on the way to (`killed`), and who listens at the
port, which may be a program that has nothing to do with us. `Cancel` is the drop
of a future at an await: it drops what `leaving` holds, and `kill_on_drop` kills
it. A process that wants a taken port dies. `clean` is a history variable: since
the current child was spawned nobody else was there to answer a probe.

### InstanceLogs

Three parties around one instance. The reader tasks of the simulator's output
push lines into `emuRing`. The drain task of `spawn.rs` takes a report from the
intercept channel, adds to two counters, and logs it in `bridgeRing`; the two
additions are relaxed, so `Count` may do them in either order. The registry
answers `logs`, one lock after the other, and `bridge_stats`, one relaxed load
after the other (`Load`, in any order), and stops the instance, which aborts the
drain task at its only await. Time is a small number here because sorting and
the tail depend on it; the sort is stable. `lines` and `drained` are histories of
all that was ever written. All reports have one size.

### TrezorWire

One client on one connected UDP socket, on the main port (`wire`) or the debug
port (`debug`), runs its exchanges one at a time: a request, and the packets of
its answer until the announced length is there. A packet is the call it answers,
its kind, its place in its message and the number of continuations announced;
the client looks at no more than the code does, so it cannot see the call. Only
an empty socket times out, since tokio polls the receive before the timer. With
the simulator down a datagram is gone and the error waits for the next receive or
send. The simulator is external: it answers requests in order, may ask for a
button any number of times, may die and come back, and packets may be lost.
`recv_with_confirm` reads 10 messages; the runs set `MaxRounds` to 2. A press on
the debug link arrives or not with the simulator.

## 3. Runs

| Run | Question | Bounds |
|---|---|---|
| `registry` | Does the registry keep what it promises under all interleavings and faults? `TypeOK`, `NoLeak`, `SoleOwner`, `OneReply`, `ShutdownDrains`, `StoppedIsGone`, `EveryCallReturns`, and `Linearizable`, the refinement of `LinearRegistry` | 2 callers, 2 ids, 2 processes, channel of 1; crash, hang, colliding ids |
| `daemon` | Do handlers and registry agree, does exit follow a reply, does the registry keep its specification, is every request served? | 1 connection and a signal, 1 id, 2 processes; hang-ups, failing accepts, crashes |
| `bridge` | Do reports arrive once, in order; is a stop final; does the device go? | 4 transports, 2 starts, 2 reports in all, 2 connections |
| `autospawn` | Do clients share a daemon, find one, get over dead ones? | 2 clients, 4 daemons (one by hand); all faults |
| `bundler` | Can a success be trusted, is the archive always cleaned up, does every download end with a word? | 3 calls, 3 releases, 3 files; all faults |
| `emulator` | Does every process have an owner, do `Stopped` and `Running` mean it, do calls end? | 3 processes, 3 kinds of probe; all faults |
| `trezor_wire` | Are messages whole, how far can answers lag, what is confirmed, do exchanges end? | 2 links, 4 requests, 4 exchanges, 2 rounds, answers of up to 2 packets, 1 loss or restart |
| `instance_logs` | Do the rings keep the newest, do the counters lead, do snapshots go back? | rings of 2, 3 lines, 3 reports, 2 queries, 2 instants |
| `daemon_lost_wakeup`, `daemon_orphan`, `autospawn_stale`, `logs_tail` | see Findings | as small as the behaviour allows |

Why the bounds are enough. Two callers and a channel of one place give a full
channel, a command under way, and one queued behind it, which is every position
a command can have. Two ids allow a shutdown that takes down more than one
instance, and a collision; a stop names only the first of them, since the ids are
interchangeable and the other is there to be left alone; two processes allow a registered instance with a
start under way, or two registered ones. That the invariants hold with more of
each is proved. For the daemon one connection and the signal are two that may
drain at once, and the proofs cover any number of connections. In the bridge,
two starts let tasks of one start meet the next; two reports make an order, and
let one be lost or queued, both of one start or one of each (`MaxTotal`); two
connections make a reconnect. Three spawned
daemons let two concurrent clients each start one over the file of a third that
crashed, and the fourth is started by hand among them. Three calls of the
bundler let a success follow a failure that damaged an earlier success, and let
one call come between two others; of the three releases one has its program
under a known name, one under a name that only the fallback finds, beside a
manifest of its own, and one has nothing that the search finds. Three processes give an emulator handle a
predecessor, a child and a successor, of which the predecessor may hold the port.
Four exchanges let two answers be late at once and a third call read the first of
them; two rounds let a call be confirmed once and run out of rounds. Rings of two
overflow with the third entry; two queries let one snapshot follow another.
`Permutations` symmetry is used on the calls of `bundler` and on the directions
of `instance_logs` only, whose properties are all safety; never in a run
that checks a liveness property.

`CHECK_DEADLOCK FALSE` is set in the `Bridge`, `AutoSpawn`, `Bundler`, `Emulator`,
`TrezorWire` and `InstanceLogs` runs: a handle, a client or a writer whose bounded
supply is used up stops; `EndIsReported` states for every state that a download
under way can go on. In `Registry` and `Daemon` deadlock is checked: a state in which
everybody waits for everybody would be reported.

### Fairness

- Weak fairness of the registry's, handlers', relays' and main loop's steps: tokio
  polls every task that is ready. The seeding step is apart from the others
  (`SeedStep`) and is not enabled while the simulator hangs, because the code
  has no timeout there.
- Strong fairness of `Send` and `Accept`: tokio hands out channel permits, and the kernel
  the listen backlog, first come first served, although the condition a
  waiting task needs comes and goes.
- `Break`, the branch of the select for the notification, is weakly fair. It is
  not strongly fair: branch order is random, but a notification is lost with one
  loss of the race.
- Weak fairness of the threads that own devices: they poll every millisecond.
- In `Emulator`, weak fairness of the steps of a start or stop under way, strong
  fairness of `GiveUp` (after the deadline every failing probe ends the wait), and
  weak fairness of the end of a process that was sent SIGKILL. A simulator need never
  listen and need not obey SIGTERM.
- In `TrezorWire`, weak fairness of the client's step only: it is polled, and its
  timer goes off over an empty socket. `InstanceLogs` has no liveness property.
- No fairness for clients, hosts, emulators, signals, the owner of a bridge, and
  faults. `ReportsArrive` and `SearchEnds` name these as the ways out, and
  `EveryCallReturns` the hanging simulator (`Stalled`).

### Findings

Each is a run that TLC finds violated; `PROJECT.json` quotes the text it contradicts.

1. `daemon_lost_wakeup` - a shutdown notification that races a new connection is
   lost, and the daemon stays (`mod.rs:78`).
2. `daemon_orphan` - a start queued behind a shutdown leaves its simulator running
   after the daemon (`registry.rs:180`).
3. `autospawn_stale` - a client unlinks a live daemon's socket (`auto_spawn.rs:42`).
4. `logs_tail` - a tail over both sources drops reports that are newer than the
   lines it keeps (`daemon/instance.rs:124`).

Seen while modelling and not run: `--no-wait` still waits for seeding and the
bridge (`spawn.rs:210`, against `docs/cli.md:69`); `timeout_secs`, which
`docs/cli.md:70` and `control/src/lib.rs:134` call an override of the start-up
timeout, has no effect with the probe skipped; the documents contradict each other on
the `stop` of an unknown id: a success in `docs/cli.md:93` and
`control/src/lib.rs:112`, `INSTANCE_NOT_FOUND` in `docs/cli.md:203` and
`control/src/lib.rs:335`; `registry.rs:191` makes it a success, which is what
`Registry` does (`StopUnknown`), while `LinearRegistry` allows either reply, so that
`Linearizable` takes no side; `BadRequest` is never sent (`control/src/lib.rs:324`, a frame
that does not parse closes the connection); `status` reports an instance whose simulator
died as running; a Shutdown whose client hangs up before the reply drains
the registry and leaves the daemon up (`mod.rs:123`); the exit of the daemon cuts
off handlers of other connections that have read a request (`mod.rs:79`);
`stop` of a Unix-socket bridge aborts neither its relay nor the relay's reader,
which stays connected to an idle emulator (`bridge/src/generic.rs:280, 318`);
`TrezorBridge::stop` leaves its thread and its device (`bridge/src/trezor.rs:195`
waits for a value nobody sends, against `bridge/src/lib.rs:150`), but nothing
creates a TrezorBridge.
In the emulators: the UDP probe says reachable with nobody listening
(`emulators/src/trezor.rs:151-154` and `generic.rs:299-304` expect an error that an
unconnected socket never gets); a spawn that fails leaves `Starting`, and start is then
an `Ok` without effect until a stop; a dropped stop leaves `Running` without a child;
a start behind the fixed delay sets `Running` also when the simulator is dead or lost
its port to somebody else. In the wire clients: an answer that comes after its
timeout is returned as the answer to the next request.
In the bundler: an extraction that fails has overwritten files of the installed
bundle (`bundler/src/lib.rs:207`, against `lib.rs:173-174`); a failed transfer leaves its temporary file, which no later step
removes and `dir_size` counts (`lib.rs:200` unlinks only the archive path); two
overlapping downloads can rename or remove each other's archive, and install
files of one release under the manifest of another; a release whose binary has a
less preferred name than that of an older release gets a manifest that points to
the older binary (`find_emulator_binary`, `lib.rs:283-288`); a tarball's own
`manifest.json` replaces the installed one before the rest is unpacked.
Four of the six build scripts ship their program under a name that the search does
not know: `scripts/build/coldcard.sh:77` (`micropython`, "for consistency with
BundleManager discovery"), `specter.sh:36` (`micropython_unix`), `ledger.sh:47`
(`speculos-runner.sh`) and `jade.sh:34` (`jade-runner.sh`), against
`bundler/src/lib.rs:274-281`; their bundles go through the fallback, which takes
whichever executable the directory lists first (`lib.rs:290-300`), or, if there is none,
the name of the wallet (`lib.rs:302-303`). The download is `Ok` and `Installed` then too,
although `emulator_binary_path` leads nowhere (`lib.rs:145`). The names that
`emulators/src/wallet_config.rs:265-347` lists as `binary_candidates` fit two of the
four, but nothing reads them.

## 4. Proofs

Every safety invariant and every action property of the passing runs, and the
refinement of `LinearRegistry`, is proved by TLAPS for every value of the
constants that satisfies the modules' assumptions (`RegistryAssumption`,
`DaemonAssumption`, `AutoSpawnAssumption`, `BundlerAssumption`,
`EmulatorAssumption`, `BridgeAssumption`, `LogsAssumption`, `WireAssumption`; no finiteness is assumed, and no particular set
of faults). `EndIsReported` is the exception: one of its two parts is proved. The
assumptions ask that numbers are numbers and that a stop names an id, and that
`None` is none of the values it stands beside: not a caller or a process, nor
one of the records for which `flow` and `drain` would be `None`.

| Theorem | Statement |
|---|---|
| `RegistryTypes` | `RegSpec => []TypeOK` |
| `RepliesOnce` | `RegSpec => []OneReply` |
| `NothingLeaks` | `RegSpec => []NoLeak` |
| `OwnersAreSole` | `RegSpec => []SoleOwner` |
| `DrainsBeforeReply` | `RegSpec => ShutdownDrains` |
| `StoppedIsTrue` | `RegSpec => StoppedIsGone` |
| `RegistryLinearizable` | `RegSpec => Linearizable`, that is `RegSpec => Promise!AbsSpec` |
| `RepliesFit` | `RegSpec => []AnswersFit` |
| `NobodyOvertakes` | `RegSpec => ServedInOrder` |
| `CommandsComeToAnEnd` | `RegSpec => CommandsProgress` |
| `DaemonTypes` | `Spec => []DaemonTypeOK` |
| `HandlersAgree` | `Spec => []HandlersMatch` |
| `ExitIsAnnounced` | `Spec => []ExitFollowsReply` |
| `DaemonKeepsRegistry` | `Spec => RegistryKept` |
| `DaemonKeepsInvariants` | `Spec => [](OneReply /\ NoLeak /\ SoleOwner)` |
| `DaemonLinearizable` | `Spec => Linearizable /\ StoppedIsGone /\ ShutdownDrains` |
| `NobodyForgotten` | `Spec => []HandlersHeard` |
| `RequestsInTurn` | `Spec => ServedInOrder /\ CommandsProgress /\ []AnswersFit` |
| `WakeupsLostToAccept` | `Spec => WokenExits` |
| `OrphansAreLateStarts` | `Spec /\ [][~LateStart]_vars => [](NothingAfterDrain /\ ("accept" \notin Faults => NothingOutlivesDaemon))` |
| `SpawnTypes` | `SpawnSpec => []SpawnTypeOK` |
| `ExitsAreClean` | `SpawnSpec => []NoFileAfterExit` |
| `TurnsShare` | `SpawnSpec => []TurnsShareDaemon` |
| `TurnsKeepPath` | `SpawnSpec => PathKeptInTurn` |
| `TurnsUnlinkStale` | `SpawnSpec => UnlinksInTurn` |
| `SearchIsBounded` | `SpawnSpec => OneSpawnPerCall` |
| `BundlerTypes` | `Spec => []BundlerTypeOK` |
| `ArchivesGo` | `Spec => []ArchiveRemoved` |
| `SuccessesAreWhole` | `Spec => []SuccessIsWhole` |
| `EndsAreReported` | `Spec => []EndReported`, the part of `EndIsReported` without ENABLED |
| `SearchFinds` | `EmulatorBinaries # {}`, and the first known name if one is there |
| `DownloadsAreBounded` | `Spec => DownloadsProgress` |
| `EmulatorTypes` | `Spec => []EmuTypeOK` |
| `NothingOrphaned` | `Spec => []NoOrphan` |
| `StoppedMeansDown` | `Spec => []StoppedIsDown` |
| `ProbeFindsChild` | `Spec => []RunningHoldsPort` |
| `CallsAreNotSetBack` | `Spec => CallsGoOn` |
| `BridgeTypes` | `BridgeSpec => []BridgeTypeOK` |
| `ReportsInOrder` | `BridgeSpec => []InOrder` |
| `StopIsFinal` | `BridgeSpec => StoppedIsSilent` |
| `NothingIsLost` | `BridgeSpec => []Complete` |
| `EndsAreFinal` | `BridgeSpec => EndsForGood` |
| `DevicesEnd` | `BridgeSpec => DevicesGoDown` |
| `LogsTyped` | `Spec => []LogsTypeOK` |
| `RingsNewest` | `Spec => []RingsKeepNewest` |
| `CountersLeadTheLog` | `Spec => []CountersLead` |
| `SnapshotsGrow` | `Spec => SnapshotsMonotone` |
| `AnswersAreWhole` | `Spec => []AnswersWhole` |
| `WireTypes` | `Spec => []WireTypeOK` |
| `WholeMessages` | `Spec => []MessageIsWhole` |
| `AnswersLagBounded` | `Spec => []LagBounded` |
| `AcksFindTheirFlow` | `Spec => []AcksExpected` |
| `ExchangesAreBounded` | `Spec => ExchangesProgress` |

**Registry.** `TypeOK` is not inductive: `UndoStart` writes `emu[curProc]`, which
is in range only if there is a `curProc`. `TypeInv` adds `TaskHolds`, which says
for each `pc` which of `cur`, `curId`, `curProc` are set. `OneReply` is inductive
relative to `TypeInv`; each step is one of four kinds (a command is sent,
answered on receipt, taken up, answered after its awaits), and each kind is a
lemma. `NoLeak` alone is not inductive, since taking down one of two ids with the
same process would leave the other without a child, so it is proved together with
`SoleOwner`, and with `DeviceFirst`: in the awaits of a stop the device of `curProc`
has been told to go already. This conjunction is `Ownership`.

`RegInv` joins these with what relates a command to its request, `ServesRequest`:
in the awaits of a stop `victims` is the one id asked for, and in those of a shutdown
it covers whatever is registered. Nothing else says that the id a `Stopped` reply
is about is the one that was taken down. With it, the step that answers a shutdown
finds an empty map, and `Ownership` leaves no simulator and no device
(`DrainsBeforeReply`); the step that answers a stop leaves the id out of the map
and no process without an instance (`StoppedIsTrue`). The refinement mapping
shows the map of `LinearRegistry` as `Visible`, what is registered together with
the victims that are not taken down yet, and of a reply its tag and ids; a command
takes effect in the step that answers it (`AnswerSettles`), and the steps before
it, whose awaits let others queue, change nothing a caller can see (`Invisible`).
`AnswersFit` is inductive beside `RegInv`: what is written to a slot is of the kind its
request asks for, because in the awaits of a command `cur` is a caller whose request
is of that kind, and a slot that is written keeps its request.

**Daemon.** `StepOfRegistry` shows that a step of the daemon is a step of the registry
or leaves all of the registry's variables alone; hence `RegistryKept`, and with it
the registry's theorems, the refinement included (`DaemonLinearizable`), inside the
daemon. The invariants are proved together
(`DaemonInv`): `HandlersMatch` needs the registry's `TypeInv`, to know whose command is
answered, and `ExitFollowsReply` needs `NotifiersTold` - a handler about to notify
the main loop has written its reply - because what wakes the loop comes a step
after what justifies it.

**Emulator.** `HandleInv` adds three facts to the four properties: `CallHolds` says
when the call in progress has a child in its hand; `HolderLives`, that a process at
the port is alive; and `OnlyChildBinds`, that while `clean` holds no other process
than the child can be at the port. Without the last, a probe that succeeded says
nothing about who answered it. `StoppedIsDown` rests on `NoOrphan`: with no child and
no call everything that lives has been killed.

**AutoSpawn.** `SpawnInv` joins the type invariant, `Cleaned` (the file at the path
belongs to a daemon that listens, has not reached its clean-up, or ended
without it) and
`Turns`: while nothing has raced, at most one client searches and at most one
daemon starts up, never both; what serves has its file at the path; and nothing
serves while a client that found no daemon is on its way to spawn one, or while
one starts up. `TurnsShareDaemon` follows, and
would not be inductive by itself: nothing in it keeps a second spawn away. `Turns` is
also what `TurnsUnlinkStale` needs: a client about to unlink found no daemon, and
nothing can have come to serve since.

**Bundler.** `BundlerTypeOK` needs `CallInv`: whoever wrote the temporary file or
the archive downloads a release, and what is left to unpack belongs to the
release being read. `ArchiveRemoved` follows from `ArchiveHasCleaner`, which
holds however calls overlap: a file at the archive path implies a call that has
renamed one there and will still remove what it finds (or was killed or dropped).
`SuccessIsWhole` is proved by `TurnInv`: while nothing has raced, at most one call is under
way; the temporary file, then the archive, is its own; what it has unpacked so
far is of its release, and the binary it found is what a search finds; and the
promise of the last success stands until the next call touches the directory.
Nothing is assumed of the names in a tarball: that the binary of the manifest
exists is claimed, and follows, for a release with some program in it
(`HasProgram`); without one the manifest names no file, and the call succeeds all the
same.

`EndReported` is inductive with two facts beside it: only a call that began a
download has a release, and a detached extraction has no caller left to tell.

**Bridge.** `BridgeInv` treats each start by itself. `Flow` relates four values, the
number of reports the thread has read, the report in hand, the channel, and what
the emulator received: received, in hand, queued are increasing and each below the
next. What a step may do with them is settled once, in lemmas without any state
(`FlowReads`, `FlowTakes`, `FlowHands`), and `FlowInOrder` turns the parts into the
one sequence of `InOrder`. For TCP `Unbroken` adds that no number is missing
while the emulator's end is open, and that what was received and what is queued
make up all that was read, unless the device is gone; without the second half the
next report could leave a gap. `Shape` says when a relay may be up: over TCP only on
connection 1, and only between a connect and the next stop, which is what
`StopIsFinal` needs. A generation not yet started has neither relay nor device;
otherwise a start could revive one.

**InstanceLogs.** `Newest` of an appended history drops the oldest entry exactly
when the ring is full, so `RingsKeepNewest` is inductive given the types.
`CountersLead` is not: `Exact` says which counters are ahead, namely those of the
direction in the drain task's hand that it has not left in `todo`. A snapshot never
exceeds the counters, which only grow, so a load never goes back
(`SnapshotsGrow`). `AnswerInv` carries the order of a history (`Chronicle`) through the
ring (`RingOfHistory`) into the half of an answer that has been read
(`EntriesOfRing`) and then into the whole (`OneBehindOther`); the half has to be in the
invariant, because the simulator and the drain task write between the two locks.

**TrezorWire.** `WireInv` is about the `Stream`: the packets read of an unfinished
message, those on the way to the client and those the simulator has yet to send, as
one sequence. While nothing is lost it is
`Fluent`: after a packet that closes its message comes a header, after any other the
next packet of the same message, and the last one closes its own. How it begins is
left open: a timeout that drops a message half-read leaves the rest of it there, and
the client refuses that packet by packet until a header comes. Hence what it puts
together is one message (`Whole`). For `LagBounded` the invariant has to look ahead,
at every answer still to be read and every request still to be answered: `Bounded`
gives each a number, at least the number of messages that end before it, such that
its call is no earlier than `Base` plus that number. `Base` is the call under way,
or the next one, less the errors so far: a call that fails leaves it where it is.
`AcksFollow` puts an acknowledgement behind a message of its own call, and, while no call has
failed, `Buttons` and `Expected` say that the simulator waits for it.

### Under the liveness properties

Liveness under fairness is out of the prover's reach. What it rests on and needs no
fairness is proved: that a step never sets the work under way back, and that the work is
bounded. Most of these theorems are action properties with a measure in them. What
is left between them and the liveness property is that a step is taken while
there is work: that one is enabled, and fairness. That the runs check.

| Liveness property | What is proved of it | Measure |
|---|---|---|
| `EveryCallReturns`, `RequestsServed` | `CommandsComeToAnEnd`, `NobodyOvertakes`, `NobodyForgotten` | victims left, then awaits left (`Rank`); the place in the queue |
| `SearchEnds` | `SearchIsBounded` | stages of a call and of a daemon's life |
| `CallsEnd` | `CallsAreNotSetBack` | stages of a call (`CallRank`), steps of a process to its death (`Doom`); the turns of `wait_for_ready` are left to the deadline |
| `ExchangeEnds` | `ExchangesAreBounded` | rounds left, then packets left |
| `ReportsArrive` | `NothingIsLost`, `EndsAreFinal` | the reports queued; the ways out, once taken, stay taken |
| `DeviceCloses` | `DevicesEnd`, `EndsAreFinal` | polling, top, gone |
| `EndIsReported`, its part with ENABLED | `SearchFinds`, `DownloadsAreBounded` | stages of a download, entries to unpack |

`CommandsProgress` says of a command under execution that it is answered in the
step, or nothing of it changes, or the same victims are left and fewer awaits, or
fewer victims are left. That a stop cannot come back to a victim it has dealt with is
in the last disjunct. `ServedInOrder` is stated on the queue: a step keeps every
place or serves the head. `SearchFinds` needs that a set of positions has a
least one, which `WellFoundedInduction` gives; of the stages of a download it is the
only one whose guard does not plainly complement the guard of the stage's failure.

### Around the findings

The runs of section 3 show what goes wrong; these theorems say under which condition it
does not.

- `WakeupsLostToAccept`: a notification that has reached a select stays until the
  process exits, unless that select accepts a connection. (One that comes between
  two selects reaches none.)
- `OrphansAreLateStarts`: in a behaviour without a start between the drain and the exit,
  nothing runs after the drain and nothing outlives the daemon. The step that
  fails without the hypothesis is `SpawnEmulator` and no other. The hypothesis is met
  by every behaviour in which no start is queued behind the shutdown. A listener that
  fails to accept ends the process without a drain, hence `"accept" \notin Faults`.
- `TurnsUnlinkStale`, `TurnsKeepPath`: what `auto_spawn.rs:39-41` takes for granted is
  true as long as searches, start-ups and exits do not overlap.
- `AnswersAreWhole`: the two rings are read one lock after the other while both are
  written, and may have overflowed; still the entries of one source are a run
  without holes, in time. `TailIsRecent` therefore fails only between the two sources.
  The sort itself is a fold, of which TLC computes what the prover cannot; with one
  source its input is in order already.

### Only model-checked

`EndIsReported` in its part with ENABLED, and all liveness (`EveryCallReturns`,
`RequestsServed`, `ReportsArrive`, `DeviceCloses`, `SearchEnds`, `CallsEnd`,
`ExchangeEnds`): ENABLED, and liveness under fairness, are out of the prover's
reach. The four runs that expect a violation refute what a document says and have
nothing to prove.

## 5. What is not modelled

- The decoder of `protocol/src/trezor.rs`: a pure function from the bytes of a packet
  to a line for display.
- The bytes of a frame in `control/src/lib.rs` and of a packet in
  `trezor_debug.rs`: a frame is a request, garbage or nothing, a packet its place in
  its message. A request of the wire client is one datagram whatever its length.
- Data from the emulator to the host in `Bridge`, except where its failure ends a
  task, and the datagram client path that two bridges of one process would share:
  no wallet the daemon starts uses that transport.
- `drain_output` of the emulators, which only tests call; replies to GET_REPORT and
  SET_REPORT of the UHID device.
- Output formatting and the constant tables of wallets (no state); build scripts,
  docs, the web site and the udev rules (no program logic).

What is modelled and no property decides:

- A shutdown whose client hangs up leaves the daemon up: no property fails over it.
- `RunningHoldsPort` speaks of a handle while `clean` holds: after a foreign listener or a
  predecessor that still lived was there to answer the probe it claims nothing.
- `AcksExpected` speaks of links on which no exchange has failed yet. After a timeout
  `LagBounded` bounds how far the answers are off; a confirmation may then meet no
  question, or another one.
- `MessageIsWhole` holds while no packet is lost. After a loss the client does put the
  next message into the one it has begun.
- `SuccessIsWhole` speaks of calls that take turns, and does not ask that the program in the
  manifest is of the release installed last (section 3).
- `ArchiveRemoved` does not reach what an extraction that goes on after a drop
  overwrites.

What is left out of a modelled step: an emulator that stops reading, so that a relay's
write blocks (`Bridge`); a transfer that stalls for ever, and the progress of a
download whose `create_dir_all` fails, which sends none (`BeginFails`).

Time is a number only in `InstanceLogs`: elsewhere a timeout is a step that may come
at any moment it can.

## 6. Plan

Done: `Registry` with `LinearRegistry`, `Daemon` over it, `Bridge`, `AutoSpawn`,
`Bundler`, `Emulator`, `TrezorWire`, `InstanceLogs`, and the proofs above. Left, in
this order:

1. Data from the emulator to the host in `Bridge`, and two datagram bridges in one
   process.
2. Framing of `control`, and the decoder, as operators over short byte sequences,
   checked against a reference definition.

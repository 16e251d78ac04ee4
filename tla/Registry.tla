------------------------------ MODULE Registry ------------------------------
(***************************************************************************)
(* The instance registry of the hwwctl daemon: crates/hwwctl/src/daemon/   *)
(* registry.rs (the actor that owns every instance) and spawn.rs (how a    *)
(* BitBox02 instance is brought up and undone when a step of it fails).    *)
(*                                                                         *)
(* Callers (connection handlers and the signal task) send commands over a  *)
(* bounded channel and wait for a one-shot reply.  The actor executes one  *)
(* command at a time; pc is the await it is suspended at, and the steps    *)
(* between two awaits are one action.  A simulator child process and the   *)
(* UHID device bridged to it share an index p \in Procs.                   *)
(***************************************************************************)
EXTENDS Integers, Sequences

CONSTANTS
    Callers,     \* tasks that send commands to the registry
    Ids,         \* instance ids: the 24-bit suffixes of random_suffix
    Procs,       \* bound: simulator processes, each with its UHID device
    QueueCap,    \* capacity of the command channel (64 in the code)
    Requests,    \* the requests callers make, a subset of Request
    Faults,      \* environment faults this instance allows
    None         \* no id, no process, no caller

Ops == {"start", "stop", "status", "logs", "bridge_stats", "shutdown"}

\* One command with its arguments.  id is the instance a stop or a query
\* names, None for "all instances", which a stop cannot ask for; wallet and
\* ready are a start's.
Request == [op: Ops, id: Ids \cup {None},
            wallet: {"bitbox02", "other"}, ready: BOOLEAN]

\* The faults: "crash", a simulator may die by itself; "hang", one may stop
\* answering; "id_collision", random_suffix may return a suffix in use.

\* Stands in the request slot of a caller that has no command under way.
Blank == CHOOSE r \in Requests : TRUE

ASSUME RegistryAssumption ==
    /\ QueueCap \in Nat \ {0}
    /\ Requests \subseteq Request /\ Requests # {}
    /\ \A r \in Requests : r.op = "stop" => r.id \in Ids
    /\ None \notin Callers \cup Ids \cup Procs

VARIABLES
    stage,      \* where each caller is: idle, sending, waiting
    req,        \* the request each caller made last
    reply,      \* its one-shot reply slot
    queue,      \* the command channel, as the callers whose command it holds
    pc,         \* the await the registry task is suspended at
    cur,        \* the caller whose command it executes
    curId,      \* the instance that command works on ...
    curProc,    \* ... and its process, while no map entry owns it
    victims,    \* the ids a stop or shutdown takes down
    instances,  \* the map from ids to instances, None where there is no entry
    emu,        \* each simulator child: none, up, hung, dead (not yet reaped)
    dev         \* each UHID device: none, open, closing (thread told to exit)

callVars == <<stage, req>>
taskVars == <<pc, cur, curId, curProc, victims>>
physVars == <<instances, emu, dev>>
regVars  == <<stage, req, reply, queue, pc, cur, curId, curProc, victims,
              instances, emu, dev>>

-----------------------------------------------------------------------------
(* Replies.                                                                *)

StartErrors == {"WalletUnsupported", "BundleMissing", "ResourceExhausted",
                "SpawnFailed", "BridgeFailed", "Internal"}
Codes == StartErrors \cup {"ok", "InstanceNotFound"}
Tags  == {"none", "started", "stopped", "status", "logs", "bridge_stats",
          "shutting_down", "error"}
Reply == [tag: Tags, ids: SUBSET Ids, code: Codes]

Ok(tag, ids) == [tag |-> tag, ids |-> ids, code |-> "ok"]
Err(code)    == [tag |-> "error", ids |-> {}, code |-> code]
NoReply      == Ok("none", {})

Answer(c, r) == reply' = [reply EXCEPT ![c] = r]
Answered(c)  == reply[c].tag # "none"

Registered == {i \in Ids : instances[i] # None}

-----------------------------------------------------------------------------
(* The caller's side: Registry::start, stop, status, logs, bridge_stats    *)
(* and shutdown all send one command and await its reply.                  *)

Call(c, r) ==
    /\ stage[c] = "idle"
    /\ stage' = [stage EXCEPT ![c] = "sending"]
    /\ req' = [req EXCEPT ![c] = r]
    /\ UNCHANGED <<reply, queue, taskVars, physVars>>

\* Mutant: an unbounded channel.
SendUnbounded(c) ==
    /\ stage[c] = "sending"
    /\ queue' = Append(queue, c)
    /\ stage' = [stage EXCEPT ![c] = "waiting"]
    /\ UNCHANGED <<req, reply, taskVars, physVars>>

\* mpsc send: suspended while the channel is full.
Send(c) ==
    /\ stage[c] = "sending"
    /\ Len(queue) < QueueCap
    /\ queue' = Append(queue, c)
    /\ stage' = [stage EXCEPT ![c] = "waiting"]
    /\ UNCHANGED <<req, reply, taskVars, physVars>>

\* The caller resumes from rx.await with the reply; its slots are spent.
Return(c) ==
    /\ stage[c] = "waiting"
    /\ Answered(c)
    /\ stage' = [stage EXCEPT ![c] = "idle"]
    /\ req' = [req EXCEPT ![c] = Blank]
    /\ Answer(c, NoReply)
    /\ UNCHANGED <<queue, taskVars, physVars>>

-----------------------------------------------------------------------------
(* The registry task.                                                      *)

\* rx.recv().await returns the command of c.
Recv(c, op) ==
    /\ pc = "recv"
    /\ queue # <<>>
    /\ c = Head(queue)
    /\ req[c].op = op
    /\ queue' = Tail(queue)

\* The registry suspends at await point `at` while it executes c's command.
Suspend(at, c, i, p) ==
    /\ pc' = at
    /\ cur' = c
    /\ curId' = i
    /\ curProc' = p

\* reply.send(r), then back to rx.recv().
Finish(c, r) ==
    /\ Answer(c, r)
    /\ Suspend("recv", None, None, None)
    /\ victims' = {}

AnswerQuery(c, op) ==
    /\ Recv(c, op)
    /\ LET i == req[c].id
       IN Answer(c, IF op = "status" /\ i = None THEN Ok(op, Registered)
                    ELSE IF i \in Registered THEN Ok(op, {i})
                    ELSE Err("InstanceNotFound"))
    /\ UNCHANGED <<callVars, taskVars, physVars>>

\* spawn::start fails before a child exists: wallet not wired in, no bundle,
\* no port, no profile directory, fork or exec refused.
RefuseStart(c) ==
    /\ Recv(c, "start")
    /\ \E code \in IF req[c].wallet = "other" THEN {"WalletUnsupported"}
                   ELSE {"BundleMissing", "ResourceExhausted", "Internal",
                         "SpawnFailed"} :
          Answer(c, Err(code))
    /\ UNCHANGED <<callVars, taskVars, physVars>>

\* A process index with no child and no device left.
Unused(p) == emu[p] = "none" /\ dev[p] = "none"

\* spawn::start up to the first await: the id is drawn, the simulator is
\* spawned and the registry sleeps out the start-up delay.
SpawnEmulator(c) ==
    /\ Recv(c, "start")
    /\ req[c].wallet = "bitbox02"
    /\ \E i \in Ids, p \in Procs :
          /\ i \notin Registered \/ "id_collision" \in Faults
          /\ Unused(p)
          /\ emu' = [emu EXCEPT ![p] = "up"]
          /\ Suspend("starting", c, i, p)
    /\ UNCHANGED <<callVars, reply, victims, instances, dev>>

\* The task resumes at one await of its command and runs to the next.
Advance(from, to) ==
    /\ pc = from
    /\ pc' = to
    /\ UNCHANGED <<callVars, reply, queue, cur, curId, curProc, victims>>

\* The delay is over.  skip_probe_delay marks the emulator Running without
\* looking at it, so start_bitbox02 always goes on to seeding: the Error and
\* "unexpected state" arms after emu.start() cannot be taken.
DelayOver == Advance("starting", "seeding") /\ UNCHANGED physVars

\* seed_bitbox02 pairs with the simulator over TCP.  It fails when the
\* simulator is dead or refuses; with one that does not answer it waits.
Seeded ==
    /\ Advance("seeding", "settling")
    /\ emu[curProc] = "up"
    /\ UNCHANGED physVars

SeedFails ==
    /\ Advance("seeding", "undo_seed")
    /\ emu[curProc] # "hung"
    /\ UNCHANGED physVars

\* bridge.start(): the UHID device is created before the TCP connect.
CreateDevice ==
    /\ Advance("settling", "connecting")
    /\ dev' = [dev EXCEPT ![curProc] = "open"]
    /\ UNCHANGED <<instances, emu>>

CreateDeviceFails ==
    Advance("settling", "undo_bridge") /\ UNCHANGED physVars

ConnectFails ==
    Advance("connecting", "undo_bridge") /\ UNCHANGED physVars

\* The UHID thread of p is told to exit: its shutdown sender is dropped.
Closed(p) == [dev EXCEPT ![p] = IF @ = "open" THEN "closing" ELSE @]

\* Mutant: the overwritten instance is not dropped.
InsertKeepingOld ==
    /\ instances' = [instances EXCEPT ![curId] = curProc]
    /\ Finish(cur, Ok("started", {curId}))
    /\ UNCHANGED <<emu, dev>>

\* instances.insert(id, inst) and the Started reply.  An entry already under
\* that id is dropped: its child is killed (kill_on_drop), its device closed.
Insert ==
    LET old == instances[curId]
    IN /\ instances' = [instances EXCEPT ![curId] = curProc]
       /\ emu' = IF old = None THEN emu ELSE [emu EXCEPT ![old] = "none"]
       /\ dev' = IF old = None THEN dev ELSE Closed(old)
       /\ Finish(cur, Ok("started", {curId}))

\* The bridge is connected: wait for the hidraw node if the caller asked to,
\* register the instance at once otherwise.
Connected ==
    /\ pc = "connecting"
    /\ emu[curProc] \in {"up", "hung"}
    /\ \/ /\ req[cur].ready
          /\ pc' = "hidraw"
          /\ UNCHANGED <<reply, cur, curId, curProc, victims, physVars>>
       \/ /\ ~req[cur].ready
          /\ Insert
    /\ UNCHANGED <<callVars, queue>>

\* Mutant: the wait runs out and the caller is told so, although the instance
\* is registered.
HidrawTimeoutFails ==
    LET old == instances[curId]
    IN /\ pc = "hidraw"
       /\ instances' = [instances EXCEPT ![curId] = curProc]
       /\ emu' = IF old = None THEN emu ELSE [emu EXCEPT ![old] = "none"]
       /\ dev' = IF old = None THEN dev ELSE Closed(old)
       /\ Finish(cur, Err("Internal"))
       /\ UNCHANGED <<callVars, queue>>

\* The hidraw node appeared or the wait ran out; both register the instance.
HidrawSettled ==
    /\ pc = "hidraw"
    /\ Insert
    /\ UNCHANGED <<callVars, queue>>

\* Mutant: an error path that returns without a reply.
UndoSilently ==
    /\ pc \in {"undo_seed", "undo_bridge"}
    /\ emu' = [emu EXCEPT ![curProc] = "none"]
    /\ dev' = Closed(curProc)
    /\ Suspend("recv", None, None, None)
    /\ UNCHANGED <<callVars, reply, queue, victims, instances>>

\* Error paths of start_bitbox02: emu.stop().await, then the bridge (if it was
\* built) is dropped as the function returns.
UndoStart ==
    /\ pc \in {"undo_seed", "undo_bridge"}
    /\ emu' = [emu EXCEPT ![curProc] = "none"]
    /\ dev' = Closed(curProc)
    /\ Finish(cur, Err(IF pc = "undo_seed" THEN "Internal"
                       ELSE "BridgeFailed"))
    /\ UNCHANGED <<callVars, queue, instances>>

\* Mutant: the entry is looked up, not removed.
TakeDownInPlace(c, i) ==
    /\ Suspend("bridge_down", c, i, instances[i])
    /\ dev' = Closed(instances[i])
    /\ UNCHANGED instances

\* stop_instance up to its first await: out of the map, relays aborted and
\* the UHID thread told to exit.
TakeDown(c, i) ==
    /\ Suspend("bridge_down", c, i, instances[i])
    /\ instances' = [instances EXCEPT ![i] = None]
    /\ dev' = Closed(instances[i])

\* Nothing under that id is no error here, whatever docs/cli.md:203 says.
StopUnknown(c) ==
    /\ Recv(c, "stop")
    /\ req[c].id \notin Registered
    /\ Answer(c, Ok("stopped", {}))
    /\ UNCHANGED <<callVars, taskVars, physVars>>

BeginStop(c) ==
    /\ Recv(c, "stop")
    /\ req[c].id \in Registered
    /\ victims' = {req[c].id}
    /\ TakeDown(c, req[c].id)
    /\ UNCHANGED <<callVars, reply, emu>>

\* Mutant: the registry leaves its loop after a shutdown.
ShutdownEndsLoop(c) ==
    /\ Recv(c, "shutdown")
    /\ Registered = {}
    /\ Answer(c, Ok("shutting_down", {}))
    /\ pc' = "ended"
    /\ UNCHANGED <<callVars, cur, curId, curProc, victims, physVars>>

ShutdownEmpty(c) ==
    /\ Recv(c, "shutdown")
    /\ Registered = {}
    /\ Answer(c, Ok("shutting_down", {}))
    /\ UNCHANGED <<callVars, taskVars, physVars>>

BeginShutdown(c) ==
    /\ Recv(c, "shutdown")
    /\ victims' = Registered
    /\ \E i \in Registered : TakeDown(c, i)
    /\ UNCHANGED <<callVars, reply, emu>>

\* bridge.stop() has slept its 200 ms; emulator.stop() sends SIGTERM.
BridgeDown == Advance("bridge_down", "emu_down") /\ UNCHANGED physVars

\* The child exited or was killed after 3 s: the next id of the snapshot.
StopNext ==
    /\ pc = "emu_down"
    /\ emu' = [emu EXCEPT ![curProc] = "none"]
    /\ \E i \in victims \cap Registered : TakeDown(cur, i)
    /\ UNCHANGED <<callVars, reply, queue, victims>>

\* Mutants: the reply does not wait for the rest of the snapshot; the
\* simulator is left running.
StopLastEarly ==
    /\ pc = "emu_down"
    /\ emu' = [emu EXCEPT ![curProc] = "none"]
    /\ Finish(cur, IF req[cur].op = "stop" THEN Ok("stopped", {})
                   ELSE Ok("shutting_down", {}))
    /\ UNCHANGED <<callVars, queue, instances, dev>>

StopLastWithoutKill ==
    /\ pc = "emu_down"
    /\ victims \cap Registered = {}
    /\ Finish(cur, IF req[cur].op = "stop" THEN Ok("stopped", {})
                   ELSE Ok("shutting_down", {}))
    /\ UNCHANGED <<callVars, queue, instances, emu, dev>>

\* The last of the snapshot is down: the reply.
StopLast ==
    /\ pc = "emu_down"
    /\ victims \cap Registered = {}
    /\ emu' = [emu EXCEPT ![curProc] = "none"]
    /\ Finish(cur, IF req[cur].op = "stop" THEN Ok("stopped", {})
                   ELSE Ok("shutting_down", {}))
    /\ UNCHANGED <<callVars, queue, instances, dev>>

-----------------------------------------------------------------------------
(* What happens around the registry.                                       *)

\* A simulator dies on its own.
EmuDies(p) ==
    /\ "crash" \in Faults
    /\ emu[p] \in {"up", "hung"}
    /\ emu' = [emu EXCEPT ![p] = "dead"]
    /\ UNCHANGED <<callVars, reply, queue, taskVars, instances, dev>>

\* A simulator stops answering: its sockets stay open.
EmuHangs(p) ==
    /\ "hang" \in Faults
    /\ emu[p] = "up"
    /\ emu' = [emu EXCEPT ![p] = "hung"]
    /\ UNCHANGED <<callVars, reply, queue, taskVars, instances, dev>>

\* The UHID thread of p exits: it was told to, or a report for the dead
\* simulator found its relay gone.
DevGone(p) ==
    /\ dev[p] = "closing" \/ (dev[p] = "open" /\ emu[p] = "dead")
    /\ dev' = [dev EXCEPT ![p] = "none"]
    /\ UNCHANGED <<callVars, reply, queue, taskVars, instances, emu>>

-----------------------------------------------------------------------------
RegInit ==
    /\ stage = [c \in Callers |-> "idle"]
    /\ req = [c \in Callers |-> Blank]
    /\ reply = [c \in Callers |-> NoReply]
    /\ queue = <<>>
    /\ pc = "recv" /\ cur = None /\ curId = None /\ curProc = None
    /\ victims = {}
    /\ instances = [i \in Ids |-> None]
    /\ emu = [p \in Procs |-> "none"]
    /\ dev = [p \in Procs |-> "none"]

\* One poll of run_loop, the seeding step apart.
TaskStep ==
    \/ \E c \in Callers :
          \/ \E op \in {"status", "logs", "bridge_stats"} : AnswerQuery(c, op)
          \/ RefuseStart(c) \/ SpawnEmulator(c)
          \/ StopUnknown(c) \/ BeginStop(c)
          \/ ShutdownEmpty(c) \/ BeginShutdown(c)
    \/ DelayOver
    \/ CreateDevice \/ CreateDeviceFails
    \/ ConnectFails \/ Connected \/ HidrawSettled \/ UndoStart
    \/ BridgeDown \/ StopNext \/ StopLast

SeedStep == Seeded \/ SeedFails

ProcStep == \E p \in Procs : EmuDies(p) \/ EmuHangs(p) \/ DevGone(p)

RegNext ==
    \/ \E c \in Callers :
          \/ \E r \in Requests : Call(c, r)
          \/ Send(c)
          \/ Return(c)
    \/ TaskStep
    \/ SeedStep
    \/ ProcStep

RegSpec == RegInit /\ [][RegNext]_regVars

\* Tokio polls every ready task and hands channel permits to senders first
\* come first served, a simulator that is not hung answers the seeding
\* session, and the UHID threads run.
RegFairness ==
    /\ WF_regVars(TaskStep) /\ WF_regVars(SeedStep)
    /\ \A c \in Callers : SF_regVars(Send(c)) /\ WF_regVars(Return(c))
    /\ \A p \in Procs : WF_regVars(DevGone(p))

RegFairSpec == RegSpec /\ RegFairness

-----------------------------------------------------------------------------
(* Properties.                                                             *)

\* Every variable stays in its range, and the queue within the channel.
TypeOK ==
    /\ stage \in [Callers -> {"idle", "sending", "waiting"}]
    /\ req \in [Callers -> Requests]
    /\ reply \in [Callers -> Reply]
    /\ queue \in Seq(Callers) /\ Len(queue) <= QueueCap
    /\ pc \in {"recv", "starting", "seeding", "settling", "connecting",
               "hidraw", "undo_seed", "undo_bridge", "bridge_down",
               "emu_down"}
    /\ cur \in Callers \cup {None}
    /\ curId \in Ids \cup {None}
    /\ curProc \in Procs \cup {None}
    /\ victims \in SUBSET Ids
    /\ instances \in [Ids -> Procs \cup {None}]
    /\ emu \in [Procs -> {"none", "up", "hung", "dead"}]
    /\ dev \in [Procs -> {"none", "open", "closing"}]

Owned(p) == curProc = p \/ \E i \in Ids : instances[i] = p

\* Nothing leaks (spawn.rs:176-250, registry.rs:187-211): at every await of
\* every command, error paths and id collisions included, each simulator
\* child and each UHID device that was not told to go belongs to a registered
\* instance or to the command under way, and whatever is owned has its child.
NoLeak ==
    /\ \A p \in Procs : emu[p] # "none" <=> Owned(p)
    /\ \A p \in Procs : dev[p] = "open" => Owned(p)

\* One owner (registry.rs:126-127): no two ids share a simulator, and the
\* process a command works on is in no map entry, so that stopping one
\* instance can never take down another.
SoleOwner ==
    /\ \A i, j \in Ids : instances[i] = instances[j] /\ i # j
                            => instances[i] = None
    /\ curProc # None => \A i \in Ids : instances[i] # curProc

\* The places the command of a waiting caller can be.
Queued(c) == \E k \in 1..Len(queue) : queue[k] = c

\* Exactly one reply (registry.rs:54-120, lib.rs:197): the command of a
\* waiting caller is in the channel once, under execution, or answered, never
\* in two of these and never in none, so no reply is lost or given twice.
OneReply ==
    /\ \A c \in Callers :
          /\ stage[c] = "waiting" <=> Queued(c) \/ cur = c \/ Answered(c)
          /\ Queued(c) => cur # c /\ ~Answered(c)
          /\ cur = c => ~Answered(c)
    /\ \A j, k \in 1..Len(queue) : queue[j] = queue[k] => j = k

\* Shutdown drains (registry.rs:172-181): at the moment ShuttingDown is sent,
\* nothing is registered, no simulator is left and no device is open.
ShutdownDrains ==
    [][\A c \in Callers :
          reply'[c].tag = "shutting_down" /\ ~Answered(c)
          => \A p \in Procs : emu'[p] = "none" /\ dev'[p] # "open"]_regVars

\* Stopped is true when it is sent (registry.rs:187-211): the instance is out
\* of the map, and no process lives that no registered instance owns.
StoppedIsGone ==
    [][\A c \in Callers :
          reply'[c].tag = "stopped" /\ ~Answered(c)
          => /\ instances'[req[c].id] = None
             /\ \A p \in Procs :
                   emu'[p] # "none" => \E i \in Ids : instances'[i] = p]_regVars

\* Every command is answered (registry.rs:129-184) behind a full channel, behind
\* starts that fail at any step and next to simulators that die or hang: the
\* only thing that holds a caller up for ever is the seeding session of a
\* simulator that hangs (spawn.rs:210), which has no timeout.
Stalled == pc = "seeding" /\ emu[curProc] = "hung"
EveryCallReturns ==
    \A c \in Callers : stage[c] = "sending" ~> stage[c] = "idle" \/ Stalled

-----------------------------------------------------------------------------
(* The promise.  An instance counts as registered until the command that   *)
(* takes it down is answered: that is when its removal becomes visible,    *)
(* because no other command is served in between.                          *)

Promise == INSTANCE LinearRegistry WITH
    registered <- Registered \cup victims,
    calling    <- {c \in Callers : stage[c] # "idle"},
    command    <- req,
    result     <- [c \in Callers |-> [tag |-> reply[c].tag,
                                      ids |-> reply[c].ids]]

\* The registry is linearizable (registry.rs:126-211): whatever the callers
\* interleave, however many awaits a command has and wherever a start fails,
\* the replies are those of commands executed at one instant each.
Linearizable == Promise!AbsSpec

=============================================================================

------------------------------- MODULE Daemon -------------------------------
(***************************************************************************)
(* The hwwctl daemon process: crates/hwwctl/src/daemon/mod.rs around the   *)
(* registry of module Registry.  The main loop accepts connections and     *)
(* waits for a tokio Notify; every connection has a handler task that      *)
(* reads one frame, dispatches it and writes one reply; a signal task      *)
(* drains the registry on SIGTERM or SIGINT.  The process ends when the    *)
(* main loop does (process::exit in main.rs), whatever the others do.      *)
(***************************************************************************)
EXTENDS Registry

CONSTANTS
    Clients,    \* connections; a slot is used again once it is closed
    Sig,        \* the signal task, as a caller of the registry
    Frames      \* what clients put on the wire, a subset of Frame

\* A frame is a request; "garbage" stands for one that does not parse and
\* "nothing" for a connection closed before its first byte.
Frame == [op: Ops \cup {"ping", "garbage", "nothing"}, id: Ids \cup {None},
          wallet: {"bitbox02", "other"}, ready: BOOLEAN]

ShutdownRequest == [op |-> "shutdown", id |-> None, wallet |-> "bitbox02",
                    ready |-> FALSE]

\* More faults: "hangup", a client may close its end early; "accept",
\* listener.accept() may fail.
ASSUME DaemonAssumption ==
    /\ Callers = Clients \cup {Sig} /\ Sig \notin Clients
    /\ Frames \subseteq Frame /\ Frames # {}
    /\ {f \in Frames : f.op \in Ops} \cup {ShutdownRequest} \subseteq Requests

VARIABLES
    conn,   \* each connection: idle, backlog, reading, dispatched, pong,
            \* notifying
    wire,   \* the frame its client sent
    open,   \* the client still has its end open
    main,   \* the main loop: loop (between two selects), select, exited
    wake,   \* the Notified future of the current select has been notified
    sig,    \* the signal task: armed, draining, done
    told    \* history: clients that were ever sent ShuttingDown

connVars == <<conn, wire, open>>
loopVars == <<main, wake>>
daemonVars == <<conn, wire, open, main, wake, sig, told>>
vars == <<regVars, daemonVars>>

Alive == main # "exited"

\* Stands for the frame of a connection that is closed.
NoFrame == CHOOSE f \in Frames : TRUE

-----------------------------------------------------------------------------
(* Clients.                                                                *)

\* A client connects and sends its frame.
Connect(c, f) ==
    /\ Alive
    /\ conn[c] = "idle"
    /\ conn' = [conn EXCEPT ![c] = "backlog"]
    /\ wire' = [wire EXCEPT ![c] = f]
    /\ open' = [open EXCEPT ![c] = TRUE]
    /\ UNCHANGED <<regVars, loopVars, sig, told>>

\* The client goes away; what it sent stays readable.
Hangup(c) ==
    /\ Alive
    /\ "hangup" \in Faults
    /\ conn[c] # "idle" /\ open[c]
    /\ open' = [open EXCEPT ![c] = FALSE]
    /\ UNCHANGED <<regVars, conn, wire, loopVars, sig, told>>

-----------------------------------------------------------------------------
(* The main loop.  Every iteration makes a new Notified future; one that   *)
(* loses its select, notified or not, is dropped.                          *)

EnterSelect ==
    /\ main = "loop"
    /\ main' = "select"
    /\ UNCHANGED <<regVars, connVars, wake, sig, told>>

Accept(c) ==
    /\ main = "select"
    /\ conn[c] = "backlog"
    /\ conn' = [conn EXCEPT ![c] = "reading"]
    /\ main' = "loop"
    /\ wake' = FALSE
    /\ UNCHANGED <<regVars, wire, open, sig, told>>

\* break, remove the socket file, return, exit.
Break ==
    /\ main = "select"
    /\ wake
    /\ main' = "exited"
    /\ UNCHANGED <<regVars, connVars, wake, sig, told>>

AcceptFails ==
    /\ "accept" \in Faults
    /\ main = "select"
    /\ main' = "exited"
    /\ UNCHANGED <<regVars, connVars, wake, sig, told>>

\* shutdown.notify_waiters() reaches the future of a select under way and
\* leaves no permit for a later one.
NotifyWaiters == wake' = (wake \/ main = "select")

-----------------------------------------------------------------------------
(* Connection handlers.                                                    *)

\* The handler of c goes on to step `to`; at its end the stream is dropped.
Proceed(c, to) ==
    /\ conn' = [conn EXCEPT ![c] = to]
    /\ UNCHANGED <<wire, open>>

HandlerReturns(c) ==
    /\ conn' = [conn EXCEPT ![c] = "idle"]
    /\ wire' = [wire EXCEPT ![c] = NoFrame]
    /\ open' = [open EXCEPT ![c] = FALSE]

\* read_frame fails or finds the end of the stream: the handler returns.
DropConnection(c) ==
    /\ Alive
    /\ conn[c] = "reading"
    /\ wire[c].op \in {"garbage", "nothing"}
    /\ HandlerReturns(c)
    /\ UNCHANGED <<regVars, loopVars, sig, told>>

\* Mutant: a ping waits for the registry, which is never asked.
PingAwaitsRegistry(c) ==
    /\ Alive
    /\ conn[c] = "reading"
    /\ wire[c].op = "ping"
    /\ Proceed(c, "dispatched")
    /\ UNCHANGED <<regVars, loopVars, sig, told>>

\* A ping is answered without the registry.
Ping(c) ==
    /\ Alive
    /\ conn[c] = "reading"
    /\ wire[c].op = "ping"
    /\ Proceed(c, "pong")
    /\ UNCHANGED <<regVars, loopVars, sig, told>>

WritePong(c) ==
    /\ Alive
    /\ conn[c] = "pong"
    /\ HandlerReturns(c)
    /\ UNCHANGED <<regVars, loopVars, sig, told>>

\* Mutant: the main loop is notified before the reply (the v0.1.1 code).
DispatchNotifying(c) ==
    /\ Alive
    /\ conn[c] = "reading"
    /\ wire[c].op \in Ops
    /\ Call(c, wire[c])
    /\ Proceed(c, "dispatched")
    /\ wake' = (wake \/ (wire[c].op = "shutdown" /\ main = "select"))
    /\ UNCHANGED <<main, sig, told>>

\* Mutant: the reply to a shutdown does not wait for the drain.
DispatchForgetting(c) ==
    /\ Alive
    /\ conn[c] = "reading"
    /\ wire[c].op \in Ops
    /\ Call(c, wire[c])
    /\ Proceed(c, IF wire[c].op = "shutdown" THEN "pong" ELSE "dispatched")
    /\ UNCHANGED <<loopVars, sig, told>>

Dispatch(c) ==
    /\ Alive
    /\ conn[c] = "reading"
    /\ wire[c].op \in Ops
    /\ Call(c, wire[c])
    /\ Proceed(c, "dispatched")
    /\ UNCHANGED <<loopVars, sig, told>>

\* Mutant: the handler gives up waiting for the registry.
WriteReplyTimedOut(c) ==
    /\ Alive
    /\ conn[c] = "dispatched"
    /\ stage' = [stage EXCEPT ![c] = "idle"]
    /\ HandlerReturns(c)
    /\ UNCHANGED <<req, reply, queue, taskVars, physVars, loopVars, sig, told>>

\* write_frame, then the stream is dropped.
WriteReply(c) ==
    /\ Alive
    /\ conn[c] = "dispatched"
    /\ ~(wire[c].op = "shutdown" /\ open[c])
    /\ Return(c)
    /\ HandlerReturns(c)
    /\ UNCHANGED <<loopVars, sig, told>>

\* A shutdown whose reply could be written goes on to notify the main loop;
\* with its client gone write_frame fails and WriteReply is the end of it.
WriteShutdownReply(c) ==
    /\ Alive
    /\ conn[c] = "dispatched"
    /\ wire[c].op = "shutdown" /\ open[c]
    /\ Return(c)
    /\ Proceed(c, "notifying")
    /\ told' = told \cup {c}
    /\ UNCHANGED <<loopVars, sig>>

NotifyShutdown(c) ==
    /\ Alive
    /\ conn[c] = "notifying"
    /\ HandlerReturns(c)
    /\ NotifyWaiters
    /\ UNCHANGED <<regVars, main, sig, told>>

-----------------------------------------------------------------------------
(* The signal task.  It waits for one signal in the life of the process.   *)

Signal ==
    /\ Alive
    /\ sig = "armed"
    /\ sig' = "draining"
    /\ Call(Sig, ShutdownRequest)
    /\ UNCHANGED <<connVars, loopVars, told>>

SignalDrained ==
    /\ Alive
    /\ sig = "draining"
    /\ Return(Sig)
    /\ sig' = "done"
    /\ NotifyWaiters
    /\ UNCHANGED <<connVars, main, told>>

-----------------------------------------------------------------------------
\* The registry's own steps while the process lives.
RegistryTask == Alive /\ TaskStep /\ UNCHANGED daemonVars
RegistrySeed == Alive /\ SeedStep /\ UNCHANGED daemonVars
CommandSent(c) == Alive /\ Send(c) /\ UNCHANGED daemonVars
DeviceGone(p) == Alive /\ DevGone(p) /\ UNCHANGED daemonVars

\* Simulators die and hang with or without the daemon.
Simulators ==
    /\ \E p \in Procs : EmuDies(p) \/ EmuHangs(p)
    /\ UNCHANGED daemonVars

\* The process has ended.
Exited == main = "exited" /\ UNCHANGED vars

Init ==
    /\ RegInit
    /\ conn = [c \in Clients |-> "idle"]
    /\ wire = [c \in Clients |-> NoFrame]
    /\ open = [c \in Clients |-> FALSE]
    /\ main = "loop" /\ wake = FALSE
    /\ sig = "armed"
    /\ told = {}

Handler(c) == Ping(c) \/ WritePong(c) \/ Dispatch(c) \/ DropConnection(c)
              \/ WriteReply(c) \/ WriteShutdownReply(c) \/ NotifyShutdown(c)

Next ==
    \/ \E c \in Clients :
          \/ \E f \in Frames : Connect(c, f)
          \/ Hangup(c)
          \/ Accept(c)
          \/ Ping(c) \/ WritePong(c) \/ Dispatch(c) \/ DropConnection(c)
          \/ WriteReply(c) \/ WriteShutdownReply(c) \/ NotifyShutdown(c)
    \/ EnterSelect \/ Break \/ AcceptFails
    \/ Signal \/ SignalDrained
    \/ RegistryTask \/ RegistrySeed
    \/ \E c \in Callers : CommandSent(c)
    \/ \E p \in Procs : DeviceGone(p)
    \/ Simulators
    \/ Exited

Spec == Init /\ [][Next]_vars

\* Tokio polls every ready task; the listen backlog and the channel permits
\* are first come first served.  Clients, signals and faults owe nothing.
Fairness ==
    /\ WF_vars(EnterSelect) /\ WF_vars(Break)
    /\ WF_vars(SignalDrained)
    /\ WF_vars(RegistryTask) /\ WF_vars(RegistrySeed)
    /\ \A c \in Clients : SF_vars(Accept(c)) /\ WF_vars(Handler(c))
    /\ \A c \in Callers : SF_vars(CommandSent(c))
    /\ \A p \in Procs : WF_vars(DeviceGone(p))

FairSpec == Spec /\ Fairness

-----------------------------------------------------------------------------
(* Properties.                                                             *)

\* Every variable of the daemon stays in its range.
DaemonTypeOK ==
    /\ TypeOK
    /\ conn \in [Clients -> {"idle", "backlog", "reading", "dispatched",
                             "pong", "notifying"}]
    /\ wire \in [Clients -> Frames]
    /\ open \in [Clients -> BOOLEAN]
    /\ main \in {"loop", "select", "exited"}
    /\ wake \in BOOLEAN
    /\ sig \in {"armed", "draining", "done"}
    /\ told \in SUBSET Clients

\* A handler waits for the registry exactly while it has its own request
\* under way there (mod.rs:136-171), the signal task likewise, and no other
\* task has a command in the registry.
HandlersMatch ==
    /\ \A c \in Clients :
          /\ conn[c] = "dispatched" <=> stage[c] # "idle"
          /\ conn[c] = "dispatched" => req[c] = wire[c]
    /\ sig = "draining" <=> stage[Sig] # "idle"
    /\ sig = "draining" => req[Sig] = ShutdownRequest

\* The exit follows a reply (mod.rs:118-132): the main loop is only ever
\* woken, and only ever exits, after some client has been sent ShuttingDown
\* or the signal task has drained the registry.
ExitFollowsReply ==
    wake \/ (main = "exited" /\ "accept" \notin Faults)
    => told # {} \/ sig = "done"

\* Around the main loop, the handlers and the signal task, the registry of a
\* living daemon behaves as module Registry says.
RegistryKept == RegSpec

\* Every request read is served (mod.rs:106-134): while the daemon lives and
\* no simulator hangs, a handler that reads a frame comes to its end.
RequestsServed ==
    \A c \in Clients : conn[c] = "reading" ~> conn[c] = "idle" \/ ~Alive

\* docs/cli.md:172, of shutdown: "Drain every instance and exit the daemon
\* cleanly."  Once the select of the main loop has been notified, after a
\* drain, the daemon exits.
ShutdownExits == wake ~> ~Alive

\* lib.rs:121: "Ask the daemon to exit cleanly, dropping all instances."  No
\* simulator outlives the daemon.
NothingOutlivesDaemon ==
    ~Alive => \A p \in Procs : emu[p] \in {"none", "dead"}

=============================================================================

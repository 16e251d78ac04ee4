---------------------------- MODULE Daemon_proofs ----------------------------
(* Machine-checked proofs about module Daemon, for all constants: what the *)
(* main loop, the handlers and the signal task do is always a step of the  *)
(* registry or none, so what Registry_proofs shows of the registry holds   *)
(* inside the daemon.                                                      *)
EXTENDS Daemon, Registry_proofs

\* The daemon's own variables, without the registry's.
LoopTypes ==
    /\ conn \in [Clients -> {"idle", "backlog", "reading", "dispatched",
                             "pong", "notifying"}]
    /\ wire \in [Clients -> Frames]
    /\ open \in [Clients -> BOOLEAN]
    /\ main \in {"loop", "select", "exited"}
    /\ wake \in BOOLEAN
    /\ sig \in {"armed", "draining", "done"}
    /\ told \in SUBSET Clients

\* A handler that is about to notify the main loop has sent its reply.
NotifiersTold == \A c \in Clients : conn[c] = "notifying" => c \in told

DaemonInv ==
    TypeInv /\ LoopTypes /\ HandlersMatch /\ NotifiersTold /\ ExitFollowsReply

USE DEF connVars, loopVars, daemonVars, callVars, taskVars, physVars

-----------------------------------------------------------------------------
(* Steps of the daemon, seen from the registry.                            *)

LEMMA NoFrameIsFrame == NoFrame \in Frames
  BY DaemonAssumption DEF NoFrame

\* What the connections and the signal task ask of the registry it knows.
LEMMA KnownRequests ==
    /\ \A f \in Frames : f.op \in Ops => f \in Requests
    /\ ShutdownRequest \in Requests
    /\ Clients \subseteq Callers /\ Sig \in Callers /\ Sig \notin Clients
  BY DaemonAssumption

\* One lemma per kind of step: those that leave the registry alone ...
Aside ==
    \/ \E c \in Clients : \/ \E f \in Frames : Connect(c, f)
                          \/ Hangup(c) \/ Accept(c) \/ Ping(c) \/ WritePong(c)
                          \/ DropConnection(c) \/ NotifyShutdown(c)
    \/ EnterSelect \/ Break \/ AcceptFails \/ Exited

LEMMA AsideLeavesRegistry == Aside => UNCHANGED regVars
  BY DEF Aside, Connect, Hangup, Accept, Ping, WritePong, DropConnection,
         NotifyShutdown, EnterSelect, Break, AcceptFails, Exited, vars, regVars

\* ... and those that are the registry's own.
Inner ==
    \/ RegistryTask \/ RegistrySeed
    \/ \E c \in Callers : CommandSent(c)
    \/ \E p \in Procs : DeviceGone(p)
    \/ Simulators

LEMMA InnerIsRegistry == Inner => RegNext /\ UNCHANGED daemonVars
  BY DEF Inner, RegistryTask, RegistrySeed, CommandSent, DeviceGone, Simulators,
         RegNext, ProcStep

LEMMA NextCases ==
    ASSUME [Next]_vars
    PROVE  \/ UNCHANGED vars
           \/ Aside \/ Inner
           \/ \E c \in Clients : \/ Dispatch(c) \/ WriteReply(c)
                                 \/ WriteShutdownReply(c)
           \/ Signal \/ SignalDrained
  BY DEF Next, Aside, Inner

LEMMA StepOfRegistry ==
    LoopTypes /\ [Next]_vars => [RegNext]_regVars
  <1> SUFFICES ASSUME LoopTypes, [Next]_vars PROVE [RegNext]_regVars
    OBVIOUS
  <1>1. CASE UNCHANGED vars
    BY <1>1 DEF vars
  <1>2. CASE Aside
    BY <1>2, AsideLeavesRegistry
  <1>3. CASE Inner
    BY <1>3, InnerIsRegistry
  <1>4. ASSUME NEW c \in Clients, Dispatch(c) PROVE RegNext
    <2>1. c \in Callers /\ wire[c] \in Requests /\ Call(c, wire[c])
      BY <1>4, KnownRequests DEF Dispatch, LoopTypes
    <2> QED BY <2>1 DEF RegNext
  <1>5. ASSUME NEW c \in Clients, WriteReply(c) \/ WriteShutdownReply(c)
        PROVE  RegNext
    BY <1>5, KnownRequests DEF WriteReply, WriteShutdownReply, RegNext
  <1>6. CASE Signal \/ SignalDrained
    BY <1>6, KnownRequests DEF Signal, SignalDrained, RegNext
  <1> QED BY <1>1, <1>2, <1>3, <1>4, <1>5, <1>6, NextCases

-----------------------------------------------------------------------------
(* The inductive invariant.                                                *)

LEMMA DaemonInit == Init => DaemonInv
  <1> SUFFICES ASSUME Init PROVE DaemonInv
    OBVIOUS
  <1>1. TypeInv
    BY TypeInit DEF Init
  <1>2. LoopTypes /\ NotifiersTold /\ ExitFollowsReply
    BY NoFrameIsFrame DEF Init, LoopTypes, NotifiersTold, ExitFollowsReply
  <1>3. HandlersMatch
    BY KnownRequests DEF Init, RegInit, HandlersMatch
  <1> QED BY <1>1, <1>2, <1>3 DEF DaemonInv

LEMMA LoopTypesStep == LoopTypes /\ [Next]_vars => LoopTypes'
  <1> SUFFICES ASSUME LoopTypes, [Next]_vars PROVE LoopTypes'
    OBVIOUS
  <1> USE DEF LoopTypes
  <1>1. CASE UNCHANGED vars
    BY <1>1 DEF vars
  <1>2. ASSUME NEW c \in Clients,
               \/ \E f \in Frames : Connect(c, f)
               \/ Hangup(c) \/ Accept(c) \/ Ping(c)
        PROVE  LoopTypes'
    BY <1>2, ZenonT(30) DEF Connect, Hangup, Accept, Ping, Proceed
  <1>3. ASSUME NEW c \in Clients,
               WritePong(c) \/ DropConnection(c) \/ NotifyShutdown(c)
               \/ WriteReply(c)
        PROVE  LoopTypes'
    BY <1>3, NoFrameIsFrame
    DEF WritePong, DropConnection, NotifyShutdown, WriteReply, HandlerReturns,
        NotifyWaiters
  <1>4. ASSUME NEW c \in Clients, Dispatch(c) \/ WriteShutdownReply(c)
        PROVE  LoopTypes'
    BY <1>4 DEF Dispatch, WriteShutdownReply, Proceed
  <1>5. CASE EnterSelect \/ Break \/ AcceptFails \/ Exited
    BY <1>5 DEF EnterSelect, Break, AcceptFails, Exited, vars
  <1>6. CASE Signal \/ SignalDrained
    BY <1>6 DEF Signal, SignalDrained, NotifyWaiters
  <1>7. CASE Inner
    BY <1>7, InnerIsRegistry
  <1> QED
    BY <1>1, <1>2, <1>3, <1>4, <1>5, <1>6, <1>7, NextCases DEF Aside

LEMMA HandlersMatchStep ==
    TypeInv /\ LoopTypes /\ HandlersMatch /\ [Next]_vars => HandlersMatch'
  <1> SUFFICES ASSUME TypeOK, LoopTypes, HandlersMatch, [Next]_vars
               PROVE  HandlersMatch'
    BY DEF TypeInv
  <1> USE KnownRequests DEF HandlersMatch, LoopTypes
  <1>1. CASE UNCHANGED vars
    BY <1>1 DEF vars, regVars
  <1>2. ASSUME NEW c \in Clients,
               \/ \E f \in Frames : Connect(c, f)
               \/ Hangup(c) \/ Accept(c) \/ Ping(c)
               \/ WritePong(c) \/ DropConnection(c) \/ NotifyShutdown(c)
        PROVE  HandlersMatch'
    <2>1. conn[c] # "dispatched" \/ UNCHANGED <<conn, wire>>
      BY <1>2 DEF Connect, Hangup, Accept, Ping, WritePong, DropConnection,
                  NotifyShutdown
    <2>2. /\ \A d \in Clients \ {c} : /\ conn'[d] = conn[d]
                                      /\ wire'[d] = wire[d]
          /\ conn'[c] = conn[c] \/ conn'[c] # "dispatched"
      BY <1>2 DEF Connect, Hangup, Accept, Ping, WritePong, DropConnection,
                  NotifyShutdown, Proceed, HandlerReturns
    <2>3. UNCHANGED <<stage, req, sig>>
      BY <1>2 DEF Connect, Hangup, Accept, Ping, WritePong, DropConnection,
                  NotifyShutdown, regVars
    <2> QED BY <2>1, <2>2, <2>3
  <1>3. CASE EnterSelect \/ Break \/ AcceptFails \/ Exited
    BY <1>3 DEF EnterSelect, Break, AcceptFails, Exited, vars, regVars
  <1>4. ASSUME NEW c \in Clients, Dispatch(c) PROVE HandlersMatch'
    BY <1>4 DEF Dispatch, Call, Proceed, TypeOK
  <1>5. ASSUME NEW c \in Clients, WriteReply(c) \/ WriteShutdownReply(c)
        PROVE  HandlersMatch'
    BY <1>5 DEF WriteReply, WriteShutdownReply, Return, Proceed,
                HandlerReturns, TypeOK
  <1>6. CASE Signal
    BY <1>6 DEF Signal, Call, TypeOK
  <1>7. CASE SignalDrained
    BY <1>7 DEF SignalDrained, Return, TypeOK
  <1>8. CASE Inner
    <2>1. ASSUME NEW c \in Callers, CommandSent(c) PROVE HandlersMatch'
      BY <2>1 DEF CommandSent, Send, TypeOK
    <2>2. ASSUME NEW p \in Procs, DeviceGone(p) PROVE HandlersMatch'
      BY <2>2 DEF DeviceGone, DevGone
    <2>3. CASE RegistryTask \/ RegistrySeed
      BY <2>3, TaskLeavesCallers DEF RegistryTask, RegistrySeed
    <2>4. CASE Simulators
      BY <2>4 DEF Simulators, EmuDies, EmuHangs
    <2> QED BY <1>8, <2>1, <2>2, <2>3, <2>4 DEF Inner
  <1> QED
    BY <1>1, <1>2, <1>3, <1>4, <1>5, <1>6, <1>7, <1>8, NextCases DEF Aside

LEMMA ExitStep ==
    LoopTypes /\ NotifiersTold /\ ExitFollowsReply /\ [Next]_vars
    => NotifiersTold' /\ ExitFollowsReply'
  <1> SUFFICES ASSUME LoopTypes, NotifiersTold, ExitFollowsReply, [Next]_vars
               PROVE  NotifiersTold' /\ ExitFollowsReply'
    OBVIOUS
  <1> USE DEF LoopTypes, NotifiersTold, ExitFollowsReply
  <1>1. CASE UNCHANGED vars
    BY <1>1 DEF vars
  <1>2. ASSUME NEW c \in Clients,
               \/ \E f \in Frames : Connect(c, f)
               \/ Hangup(c) \/ Accept(c) \/ Ping(c)
        PROVE  NotifiersTold' /\ ExitFollowsReply'
    BY <1>2 DEF Connect, Hangup, Accept, Ping, Proceed
  <1>3. ASSUME NEW c \in Clients,
               WritePong(c) \/ DropConnection(c) \/ WriteReply(c)
        PROVE  NotifiersTold' /\ ExitFollowsReply'
    BY <1>3 DEF WritePong, DropConnection, WriteReply, HandlerReturns
  <1>4. ASSUME NEW c \in Clients, NotifyShutdown(c)
        PROVE  NotifiersTold' /\ ExitFollowsReply'
    BY <1>4 DEF NotifyShutdown, HandlerReturns, NotifyWaiters
  <1>5. ASSUME NEW c \in Clients, Dispatch(c) \/ WriteShutdownReply(c)
        PROVE  NotifiersTold' /\ ExitFollowsReply'
    BY <1>5 DEF Dispatch, WriteShutdownReply, Proceed
  <1>6. CASE EnterSelect \/ Break \/ AcceptFails \/ Exited
    BY <1>6 DEF EnterSelect, Break, AcceptFails, Exited, vars
  <1>7. CASE Signal \/ SignalDrained
    BY <1>7 DEF Signal, SignalDrained, NotifyWaiters
  <1>8. CASE Inner
    BY <1>8, InnerIsRegistry
  <1> QED
    BY <1>1, <1>2, <1>3, <1>4, <1>5, <1>6, <1>7, <1>8, NextCases DEF Aside

LEMMA DaemonInductive == DaemonInv /\ [Next]_vars => DaemonInv'
  BY StepOfRegistry, TypeStep, LoopTypesStep, HandlersMatchStep, ExitStep
  DEF DaemonInv

LEMMA DaemonInvariant == Spec => []DaemonInv
  BY DaemonInit, DaemonInductive, PTL DEF Spec

-----------------------------------------------------------------------------
\* Type correctness of the whole daemon.
THEOREM DaemonTypes == Spec => []DaemonTypeOK
  <1>1. DaemonInv => DaemonTypeOK
    BY DEF DaemonInv, LoopTypes, DaemonTypeOK, TypeInv
  <1> QED BY <1>1, DaemonInvariant, PTL

\* Handlers and registry agree on who waits for what, for any number of
\* connections.
THEOREM HandlersAgree == Spec => []HandlersMatch
  <1>1. DaemonInv => HandlersMatch
    BY DEF DaemonInv
  <1> QED BY <1>1, DaemonInvariant, PTL

\* The main loop is woken, and the process exits, only after a reply or a
\* drain by the signal task, for any number of connections.
THEOREM ExitIsAnnounced == Spec => []ExitFollowsReply
  <1>1. DaemonInv => ExitFollowsReply
    BY DEF DaemonInv
  <1> QED BY <1>1, DaemonInvariant, PTL

\* The registry inside the daemon keeps its own specification: initial states
\* are its initial states, and every step is one of its steps or none.
THEOREM DaemonKeepsRegistry == Spec => RegistryKept
  <1>1. Init => RegInit
    BY DEF Init
  <1>2. DaemonInv /\ [Next]_vars => [RegNext]_regVars
    BY StepOfRegistry DEF DaemonInv
  <1> QED
    BY <1>1, <1>2, DaemonInvariant, PTL DEF Spec, RegistryKept, RegSpec

\* So what is proved of the registry alone holds in the daemon: every command
\* is answered once, and nothing leaks.
THEOREM DaemonKeepsInvariants == Spec => [](OneReply /\ NoLeak /\ SoleOwner)
  BY DaemonKeepsRegistry, RepliesOnce, NothingLeaks, OwnersAreSole, PTL
  DEF RegistryKept

\* The same for what a reply means and for the refinement: clients of the
\* daemon see commands executed at one instant each, Stopped and ShuttingDown
\* only when they are true.
THEOREM DaemonLinearizable ==
    Spec => Linearizable /\ StoppedIsGone /\ ShutdownDrains
  BY DaemonKeepsRegistry, RegistryLinearizable, StoppedIsTrue,
     DrainsBeforeReply, PTL
  DEF RegistryKept

-----------------------------------------------------------------------------
(* Requests and their handlers.                                            *)

\* No client is forgotten (mod.rs:93-134, registry.rs:54-120): a handler has a
\* request under way exactly while that request is about to be sent, in the
\* channel, under execution or answered, so a handler never waits for a
\* command that is nowhere, and no command outlives its handler.
HandlersHeard ==
    \A c \in Clients :
        conn[c] = "dispatched"
        <=> stage[c] = "sending" \/ Queued(c) \/ cur = c \/ Answered(c)

\* Every handler that waits is heard, for any number of connections.
THEOREM NobodyForgotten == Spec => []HandlersHeard
  <1>1. TypeInv /\ OneReply /\ HandlersMatch => HandlersHeard
    <2> SUFFICES ASSUME TypeInv, OneReply, HandlersMatch, NEW c \in Clients
                 PROVE  conn[c] = "dispatched"
                        <=> \/ stage[c] = "sending"
                            \/ Queued(c) \/ cur = c \/ Answered(c)
      BY DEF HandlersHeard
    <2>1. c \in Callers /\ stage[c] \in {"idle", "sending", "waiting"}
      BY KnownRequests DEF TypeInv, TypeOK
    <2>2. conn[c] = "dispatched" <=> stage[c] # "idle"
      BY DEF HandlersMatch
    <2>3. stage[c] = "waiting" <=> Queued(c) \/ cur = c \/ Answered(c)
      BY <2>1 DEF OneReply
    <2> QED BY <2>1, <2>2, <2>3
  <1>2. DaemonInv => TypeInv /\ HandlersMatch
    BY DEF DaemonInv
  <1> QED BY <1>1, <1>2, DaemonInvariant, DaemonKeepsInvariants, PTL

\* In the daemon, too, requests are served in the order they reach the
\* channel, each to its end and with a reply of its kind: a signal or a
\* shutdown waits for its turn like any other request.
THEOREM RequestsInTurn ==
    Spec => ServedInOrder /\ CommandsProgress /\ []AnswersFit
  BY DaemonKeepsRegistry, NobodyOvertakes, CommandsComeToAnEnd, RepliesFit, PTL
  DEF RegistryKept

-----------------------------------------------------------------------------
(* The exit.  Two documented promises about it do not hold of the code; the *)
(* next two theorems say how far they do.                                  *)

\* How a wakeup can be lost (mod.rs:75-89): one that has reached the select
\* stays there until the daemon exits, unless that same select takes a
\* connection.  With no connection in the backlog the main loop can only exit.
WokenExits ==
    [][wake => \/ wake' /\ main' \in {main, "exited"}
               \/ \E c \in Clients : Accept(c)]_vars

\* No wakeup is kept for the next select.
WakeInSelect == wake => main # "loop"

\* A notification is lost before the select begins or to a connection that
\* is accepted in the same select, and in no other way.
THEOREM WakeupsLostToAccept == Spec => WokenExits
  <1>1. LoopTypes /\ WakeInSelect /\ [Next]_vars
        => /\ WakeInSelect'
           /\ [wake => \/ wake' /\ main' \in {main, "exited"}
                       \/ \E c \in Clients : Accept(c)]_vars
    <2> SUFFICES ASSUME LoopTypes, WakeInSelect, [Next]_vars
                 PROVE  /\ WakeInSelect'
                        /\ wake => \/ wake' /\ main' \in {main, "exited"}
                                   \/ \E c \in Clients : Accept(c)
      OBVIOUS
    <2> USE DEF LoopTypes, WakeInSelect
    <2>1. CASE UNCHANGED <<main, wake>>
      BY <2>1
    <2>2. CASE \E c \in Clients : Accept(c)
      BY <2>2 DEF Accept
    <2>3. CASE EnterSelect \/ Break \/ AcceptFails
      BY <2>3 DEF EnterSelect, Break, AcceptFails
    <2>4. CASE SignalDrained \/ \E c \in Clients : NotifyShutdown(c)
      BY <2>4 DEF SignalDrained, NotifyShutdown, NotifyWaiters
    <2>5. ASSUME \/ UNCHANGED vars
                 \/ \E c \in Clients : \/ \E f \in Frames : Connect(c, f)
                                       \/ Hangup(c) \/ Ping(c) \/ WritePong(c)
                                       \/ DropConnection(c) \/ Dispatch(c)
                                       \/ WriteReply(c) \/ WriteShutdownReply(c)
                 \/ Exited \/ Signal
          PROVE  UNCHANGED <<main, wake>>
      BY <2>5
      DEF vars, Connect, Hangup, Ping, WritePong, DropConnection, Dispatch,
          WriteReply, WriteShutdownReply, Exited, Signal
    <2>6. CASE Inner
      BY <2>6, InnerIsRegistry, <2>1
    <2> QED
      BY <2>1, <2>2, <2>3, <2>4, <2>5, <2>6, NextCases DEF Aside
  <1>2. Init => WakeInSelect
    BY DEF Init, WakeInSelect
  <1>3. DaemonInv => LoopTypes
    BY DEF DaemonInv
  <1> QED
    BY <1>1, <1>2, <1>3, DaemonInvariant, PTL DEF Spec, WokenExits

\* Somebody holds, or has been given, the word that the registry is drained.
Drained ==
    \/ told # {} \/ sig = "done"
    \/ \E c \in Callers : reply[c].tag = "shutting_down"

\* A start whose simulator is spawned after that.
LateStart == Drained /\ \E c \in Callers : SpawnEmulator(c)

NothingAfterDrain == Drained => \A p \in Procs : emu[p] = "none"

\* Only a start brings a simulator into being.
LEMMA OnlyStartsSpawn ==
    ASSUME TypeInv, [RegNext]_regVars, NEW p \in Procs,
           emu[p] = "none", emu'[p] # "none"
    PROVE  \E c \in Callers : SpawnEmulator(c)
  <1> TypeOK
    BY DEF TypeInv
  <1>1. ~UNCHANGED emu
    OBVIOUS
  <1>2. ASSUME \E q \in Procs \cup {None} : emu' = [emu EXCEPT ![q] = "none"]
        PROVE  FALSE
    BY <1>2 DEF TypeOK
  <1>3. ASSUME NEW q \in Procs, EmuDies(q) \/ EmuHangs(q) \/ DevGone(q)
        PROVE  FALSE
    BY <1>3 DEF EmuDies, EmuHangs, DevGone, TypeOK
  <1>4. ASSUME Connected \/ HidrawSettled \/ UndoStart \/ StopNext \/ StopLast
        PROVE  FALSE
    <2>1. curProc \in Procs \cup {None}
      BY DEF TypeOK
    <2>2. curId \in Ids \cup {None}
      BY DEF TypeOK
    <2>3. ASSUME Insert, pc # "recv" PROVE FALSE
      <3>1. instances[curId] \in Procs \cup {None}
        BY <2>3 DEF TypeInv, TaskHolds, TypeOK
      <3> QED BY <1>1, <1>2, <2>3, <3>1 DEF Insert
    <2> QED
      BY <1>1, <1>2, <1>4, <2>1, <2>3
      DEF Connected, HidrawSettled, UndoStart, StopNext, StopLast
  <1> QED
    BY <1>1, <1>3, <1>4
    DEF RegNext, regVars, Call, Send, Return, TaskStep, SeedStep, ProcStep,
        AnswerQuery, RefuseStart, StopUnknown, BeginStop, ShutdownEmpty,
        BeginShutdown, DelayOver, CreateDevice, CreateDeviceFails,
        ConnectFails, BridgeDown, Seeded, SeedFails, Advance

\* The word is only passed on by those who have it.
LEMMA WordPassedOn ==
    ASSUME DaemonInv, RegInv, AnswersFit, [Next]_vars, Drained'
    PROVE  \/ Drained
           \/ \E c \in Callers : ~Answered(c) /\ reply'[c].tag = "shutting_down"
  <1>0. TypeInv /\ OneReply /\ LoopTypes /\ [RegNext]_regVars
    BY StepOfRegistry DEF DaemonInv, RegInv
  <1>1. ASSUME NEW c \in Callers, Answered(c), req[c].op = "shutdown"
        PROVE  reply[c].tag = "shutting_down"
    BY <1>1 DEF AnswersFit, Fitting
  <1>2. ASSUME NEW c \in Clients, WriteShutdownReply(c) PROVE Drained
    <2>1. c \in Callers /\ Answered(c) /\ req[c].op = "shutdown"
      BY <1>2, KnownRequests
      DEF WriteShutdownReply, Return, DaemonInv, HandlersMatch
    <2> QED BY <1>1, <2>1 DEF Drained
  <1>3. CASE SignalDrained
    <2>1. Sig \in Callers /\ Answered(Sig) /\ req[Sig].op = "shutdown"
      BY <1>3, KnownRequests
      DEF SignalDrained, Return, DaemonInv, HandlersMatch, ShutdownRequest
    <2> QED BY <1>1, <2>1 DEF Drained
  <1>4. ASSUME NEW c \in Callers, reply'[c].tag = "shutting_down"
        PROVE  Drained \/ ~Answered(c)
    BY <1>0, <1>4, SlotKept DEF Answered, Drained
  <1>5. ASSUME \/ UNCHANGED vars \/ Aside \/ Inner \/ Signal
               \/ \E c \in Clients : Dispatch(c) \/ WriteReply(c)
        PROVE  told' = told /\ (sig' = "done" => sig = "done")
    <2>1. CASE UNCHANGED vars
      BY <2>1 DEF vars
    <2>2. CASE Aside
      BY <2>2
      DEF Aside, Connect, Hangup, Accept, Ping, WritePong, DropConnection,
          NotifyShutdown, EnterSelect, Break, AcceptFails, Exited, vars
    <2>3. CASE Inner
      BY <2>3, InnerIsRegistry
    <2>4. CASE Signal \/ \E c \in Clients : Dispatch(c) \/ WriteReply(c)
      BY <2>4 DEF Signal, Dispatch, WriteReply
    <2> QED BY <1>5, <2>1, <2>2, <2>3, <2>4
  <1>6. CASE told' = told /\ (sig' = "done" => sig = "done")
    BY <1>4, <1>6 DEF Drained
  <1> QED BY <1>2, <1>3, <1>5, <1>6, NextCases

LEMMA AfterDrainStep ==
    ASSUME DaemonInv, RegInv, AnswersFit, NothingAfterDrain,
           [Next]_vars, [~LateStart]_vars
    PROVE  NothingAfterDrain'
  <1> SUFFICES ASSUME Drained', NEW p \in Procs PROVE emu'[p] = "none"
    BY DEF NothingAfterDrain
  <1>0. TypeInv /\ [RegNext]_regVars
    BY StepOfRegistry DEF DaemonInv
  <1>1. CASE Drained
    <2>1. emu[p] = "none"
      BY <1>1 DEF NothingAfterDrain
    <2>2. CASE UNCHANGED vars
      BY <2>1, <2>2 DEF vars, regVars
    <2>3. CASE ~LateStart
      BY <1>0, <1>1, <2>1, <2>3, OnlyStartsSpawn DEF LateStart
    <2> QED BY <2>2, <2>3
  <1>2. ASSUME NEW c \in Callers, ~Answered(c), reply'[c].tag = "shutting_down"
        PROVE  emu'[p] = "none"
    BY <1>0, <1>2, DrainsStep
  <1> QED BY <1>1, <1>2, WordPassedOn

\* lib.rs:121 promises that an exit drops all instances.  It does in every
\* behaviour in which no start is executed between the drain and the exit:
\* the starts that reach the registry in that window are the only way to a
\* simulator that outlives the daemon.
THEOREM OrphansAreLateStarts ==
    Spec /\ [][~LateStart]_vars
    => [](/\ NothingAfterDrain
          /\ "accept" \notin Faults => NothingOutlivesDaemon)
  <1>1. Init => NothingAfterDrain
    BY DEF Init, RegInit, NothingAfterDrain
  <1>2. DaemonInv /\ RegInv /\ AnswersFit /\ NothingAfterDrain
        /\ [Next]_vars /\ [~LateStart]_vars => NothingAfterDrain'
    BY AfterDrainStep
  <1>3. DaemonInv /\ NothingAfterDrain
        => ("accept" \notin Faults => NothingOutlivesDaemon)
    BY DEF DaemonInv, ExitFollowsReply, NothingAfterDrain, Drained,
           NothingOutlivesDaemon, LoopTypes, Alive
  <1>4. RegSpec => []AnswersFit
    BY RepliesFit
  <1> QED
    BY <1>1, <1>2, <1>3, <1>4, DaemonInvariant, DaemonKeepsRegistry,
       RegInvHolds, PTL
    DEF Spec, RegistryKept
=============================================================================

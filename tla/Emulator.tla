------------------------------ MODULE Emulator ------------------------------
(* GenericEmulator and TrezorEmulator (crates/emulators): one handle that  *)
(* spawns, probes and stops simulator processes, over the processes        *)
(* themselves and the port they want.  Both types run the same steps; they *)
(* differ in the probe.                                                    *)

CONSTANTS
    None,
    Foreign,  \* a program of somebody else that may take the port
    Procs,    \* the processes that starts may spawn; also their bound
    Kinds,    \* "stream": TCP or a Unix socket, probed with a connect;
              \* "udp": probed with an empty datagram; "delay": not probed
    Faults    \* "missing": no binary or no profile directory; "spawn": the spawn
              \* fails; "crash": a simulator dies; "foreign": somebody else
              \* takes the port; "cancel": a future of start or stop is dropped

ASSUME EmulatorAssumption ==
    /\ None \notin Procs /\ Foreign \notin Procs /\ None # Foreign
    /\ Kinds \subseteq {"stream", "udp", "delay"}

VARIABLES
    kind,    \* how this handle finds out that the simulator is ready
    pc,      \* where the handle's start or stop is, "idle" between calls,
             \* "dropped" once the handle is gone
    status,  \* self.status
    child,   \* self.child
    leaving, \* the child that stop has taken and waits for
    proc,    \* what each process is doing
    killed,  \* processes with SIGKILL or SIGTERM on the way
    port,    \* who listens at the configured address
    clean    \* history: no listener but the current child can have been probed

handleVars == <<kind, pc, status, child, leaving>>
procVars   == <<proc, killed, port, clean>>
vars       == <<handleVars, procVars>>

Live == {p \in Procs : proc[p] = "live"}

Init ==
    /\ kind \in Kinds
    /\ pc = "idle" /\ status = "Stopped"
    /\ child = None /\ leaving = None
    /\ proc = [p \in Procs |-> "unused"]
    /\ killed = {} /\ port = None /\ clean = TRUE

-----------------------------------------------------------------------------
(* start.                                                                  *)

MayStart == pc = "idle" /\ status \notin {"Running", "Starting"}

\* The binary or the profile directory is missing: an error, nothing changed.
\* With status Running or Starting start returns Ok, nothing changed either.
StartRefused ==
    /\ \/ MayStart /\ "missing" \in Faults
       \/ pc = "idle" /\ status \in {"Running", "Starting"}
    /\ UNCHANGED vars

\* spawn fails after the status was set.
SpawnFails ==
    /\ MayStart /\ "spawn" \in Faults
    /\ status' = "Starting"
    /\ UNCHANGED <<kind, pc, child, leaving, procVars>>

Spawn(p) ==
    /\ MayStart
    /\ proc[p] = "unused"
    /\ status' = "Starting"
    /\ pc' = "spawned"
    /\ leaving' = p
    /\ proc' = [proc EXCEPT ![p] = "live"]
    /\ clean' = (port = None /\ Live = {})
    /\ UNCHANGED <<kind, child, killed, port>>

\* Mutant: the previous child is forgotten, not killed.
KeepHandleOnly ==
    /\ pc = "spawned"
    /\ child' = leaving /\ leaving' = None
    /\ pc' = "waiting"
    /\ UNCHANGED <<kind, status, procVars>>

\* self.child = Some(child): the previous child, if any, is dropped, and
\* kill_on_drop kills it.  There is no await since the spawn.
KeepHandle ==
    /\ pc = "spawned"
    /\ child' = leaving /\ leaving' = None
    /\ killed' = killed \cup ({child} \cap Live)
    /\ pc' = "waiting"
    /\ UNCHANGED <<kind, status, proc, port, clean>>

\* The skip-probe delay is over: Running, whatever became of the child.
DelayOver ==
    /\ pc = "waiting" /\ kind = "delay"
    /\ status' = "Running" /\ pc' = "idle"
    /\ UNCHANGED <<kind, child, leaving, procVars>>

\* Mutant: the Unix probe is content with the socket file.
ReachableFile == TRUE

\* probe_once, probe_udp: whether the probe succeeds.  The datagram is sent
\* from a socket that is not connected.  The system reports no ICMP error to
\* such a socket, so the receive runs into its timeout whether or not
\* somebody listens, and a timeout counts as reachable.
Reachable == kind = "udp" \/ port # None

\* One turn of wait_for_ready.  The answer is used after an await.
Probe ==
    /\ pc = "waiting" /\ kind # "delay"
    /\ pc' = IF Reachable THEN "ready" ELSE "unreachable"
    /\ UNCHANGED <<kind, status, child, leaving, procVars>>

SleepOn ==
    /\ pc = "unreachable"
    /\ pc' = "waiting"
    /\ UNCHANGED <<kind, status, child, leaving, procVars>>

Ready ==
    /\ pc = "ready"
    /\ status' = "Running" /\ pc' = "idle"
    /\ UNCHANGED <<kind, child, leaving, procVars>>

\* Mutant: the deadline is never looked at.
GiveUpNever == FALSE /\ UNCHANGED vars

\* The deadline has passed after a failed probe: Error, the child is kept.
GiveUp ==
    /\ pc = "unreachable"
    /\ status' = "Error" /\ pc' = "idle"
    /\ UNCHANGED <<kind, child, leaving, procVars>>

-----------------------------------------------------------------------------
(* stop and drop.                                                          *)

StopWithoutChild ==
    /\ pc = "idle" /\ child = None
    /\ status' = "Stopped"
    /\ UNCHANGED <<kind, pc, child, leaving, procVars>>

\* child.take() and SIGTERM.
Stop ==
    /\ pc = "idle" /\ child # None
    /\ leaving' = child /\ child' = None
    /\ pc' = "stopping"
    /\ UNCHANGED <<kind, status, procVars>>

\* Mutant: the wait runs out and nobody kills.
StopOverEarly ==
    /\ pc = "stopping"
    /\ leaving' = None
    /\ status' = "Stopped" /\ pc' = "idle"
    /\ UNCHANGED <<kind, child, procVars>>

\* wait() has returned: the child obeyed the SIGTERM or had died before.
StopOver ==
    /\ pc = "stopping" /\ leaving \notin Live
    /\ leaving' = None
    /\ status' = "Stopped" /\ pc' = "idle"
    /\ UNCHANGED <<kind, child, procVars>>

\* wait() has timed out: kill, and wait again.
StopKills ==
    /\ pc = "stopping" /\ leaving \in Live \ killed
    /\ killed' = killed \cup {leaving}
    /\ UNCHANGED <<handleVars, proc, port, clean>>

\* Mutant: the handle stays with the dropped future.
CancelForgetting ==
    /\ "cancel" \in Faults
    /\ pc \in {"waiting", "ready", "unreachable", "stopping"}
    /\ pc' = "idle"
    /\ UNCHANGED <<kind, status, child, leaving, procVars>>

\* The future of start or stop is dropped at one of its awaits.  A child that
\* stop had taken is dropped with it, and killed.
Cancel ==
    /\ "cancel" \in Faults
    /\ pc \in {"waiting", "ready", "unreachable", "stopping"}
    /\ pc' = "idle"
    /\ leaving' = None
    /\ killed' = killed \cup ({leaving} \cap Live)
    /\ UNCHANGED <<kind, status, child, proc, port, clean>>

\* The handle is dropped; kill_on_drop kills the child.
Drop ==
    /\ pc = "idle"
    /\ pc' = "dropped"
    /\ child' = None
    /\ killed' = killed \cup ({child} \cap Live)
    /\ UNCHANGED <<kind, status, leaving, proc, port, clean>>

-----------------------------------------------------------------------------
(* The processes and the port, as the code relies on them.                 *)

Binds(p) ==
    /\ proc[p] = "live" /\ port = None
    /\ port' = p
    /\ UNCHANGED <<handleVars, proc, killed, clean>>

\* p ends: by a signal, because another listener has the port, or by itself.
Dies(p) ==
    /\ proc[p] = "live"
    /\ \/ p \in killed \/ (pc = "stopping" /\ p = leaving)
       \/ port \notin {None, p}
       \/ "crash" \in Faults
    /\ proc' = [proc EXCEPT ![p] = "dead"]
    /\ killed' = killed \ {p}
    /\ port' = IF port = p THEN None ELSE port
    /\ clean' = (clean /\ p # child)
    /\ UNCHANGED handleVars

\* spawn.rs:424-436: the port was free when it was picked.
ForeignBinds ==
    /\ "foreign" \in Faults
    /\ port = None
    /\ port' = Foreign
    /\ clean' = FALSE
    /\ UNCHANGED <<handleVars, proc, killed>>

ForeignLeaves ==
    /\ port = Foreign
    /\ port' = None
    /\ UNCHANGED <<handleVars, proc, killed, clean>>

-----------------------------------------------------------------------------
HandleStep ==
    KeepHandle \/ DelayOver \/ Probe \/ SleepOn \/ Ready \/ StopOver \/ StopKills

Next ==
    \/ StartRefused \/ SpawnFails
    \/ \E p \in Procs : Spawn(p)
    \/ KeepHandle \/ DelayOver \/ Probe \/ SleepOn \/ Ready \/ GiveUp
    \/ StopWithoutChild \/ Stop \/ StopOver \/ StopKills
    \/ Cancel \/ Drop
    \/ \E p \in Procs : Binds(p) \/ Dies(p)
    \/ ForeignBinds \/ ForeignLeaves

Spec == Init /\ [][Next]_vars

\* The steps of a call are polled by its caller, and every probe that fails
\* after the deadline ends the wait, so probes cannot fail for ever.  SIGKILL
\* ends a process.  Simulators owe nothing: one may never bind its port.
Fairness ==
    /\ WF_vars(HandleStep) /\ SF_vars(GiveUp)
    /\ \A p \in Procs : WF_vars(p \in killed /\ Dies(p))

FairSpec == Spec /\ Fairness

-----------------------------------------------------------------------------
(* Properties.                                                             *)

\* Every variable stays in its range; a process is between two owners only
\* while start or stop has it in hand.
EmuTypeOK ==
    /\ kind \in Kinds
    /\ pc \in {"idle", "spawned", "waiting", "ready", "unreachable", "stopping",
              "dropped"}
    /\ status \in {"Stopped", "Starting", "Running", "Error"}
    /\ child \in Procs \cup {None} /\ leaving \in Procs \cup {None}
    /\ leaving # None <=> pc \in {"spawned", "stopping"}
    /\ proc \in [Procs -> {"unused", "live", "dead"}]
    /\ killed \subseteq Live
    /\ port \in Procs \cup {None, Foreign} /\ clean \in BOOLEAN

\* No simulator is left to itself (generic.rs:423, 453, 506-523): through
\* starts after an error, dropped futures and drops of the handle, a process
\* that lives is the handle's child, or in the hand of its start or stop, or
\* has been killed.
NoOrphan == Live \subseteq killed \cup {child, leaving}

\* lib.rs:119: "Gracefully terminate the emulator. Sets status to Stopped."
\* When the status is Stopped and no call is under way nothing lives that has
\* not been killed, and the handle has no child.
StoppedIsDown ==
    status = "Stopped" /\ pc = "idle" => child = None /\ Live \subseteq killed

\* lib.rs:34, of Running: "Process is running and the transport is
\* reachable."  A handle that probes by connecting and is Running has a child
\* that holds the port itself, as long as that child lives and no foreign
\* program and no predecessor was there to answer the probe in its place.
RunningHoldsPort ==
    kind = "stream" /\ status = "Running" /\ child # None /\ clean => port = child

\* start and stop come to their end (generic.rs:339-350, 518-523), whether or
\* not the simulator ever listens or obeys SIGTERM.
CallsEnd == pc \notin {"idle", "dropped"} ~> pc \in {"idle", "dropped"}

=============================================================================

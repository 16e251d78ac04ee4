------------------------------ MODULE AutoSpawn ------------------------------
(***************************************************************************)
(* How the clients of one socket path find a daemon, or start one:         *)
(* crates/hwwctl/src/auto_spawn.rs and client.rs, against the start and    *)
(* the end of daemon::run in daemon/mod.rs.  No lock protects the path:    *)
(* every step below is a system call that others may come between.         *)
(*                                                                         *)
(* A socket file is named by the daemon that bound it.  What a daemon does *)
(* between its first accept and the end of its main loop is module Daemon; *)
(* here it serves connections until it leaves the loop for some reason.    *)
(***************************************************************************)
EXTENDS FiniteSets

CONSTANTS
    Clients,   \* invocations of hwwctl
    Daemons,   \* bound: daemon processes
    Direct,    \* the daemons started by hand, with `hwwctl daemon`
    Faults,    \* "crash", "exit": a daemon dies, or leaves its main loop;
               \* "slow": 5 s may run out; "deny": a system call is refused
    None

ASSUME AutoSpawnAssumption ==
    /\ Direct \subseteq Daemons
    /\ None \notin Daemons

VARIABLES
    path,    \* the socket file: the daemon that bound it, or None
    dm,      \* each daemon, by the step it comes to next; "crashed" is one
             \* that ended without its clean-up, killed or refused
    cl,      \* each client likewise
    peer,    \* the daemon each client is connected to
    raced,   \* history: start-ups, exits or auto-spawns have overlapped
    upset    \* history: a daemon crashed or exited, or a call was refused

spawnVars == <<path, dm, cl, peer, raced, upset>>

\* A listener outlives the main loop; it goes with the process.
Bound(d)  == dm[d] \in {"listening", "leaving", "closing"}
\* A connect to the path succeeds.
Accepts   == path # None /\ Bound(path)

Finding   == {c \in Clients : cl[c] \in {"connecting", "checking",
                                         "unlinking", "spawning", "polling"}}
Unsettled == {d \in Daemons : dm[d] \in {"starting", "removing", "binding",
                                         "leaving", "closing"}}
Overlaps  == Finding # {} \/ Unsettled # {}

Client(c, from, to) == cl[c] = from /\ cl' = [cl EXCEPT ![c] = to]
Process(d, from, to) == dm[d] = from /\ dm' = [dm EXCEPT ![d] = to]

-----------------------------------------------------------------------------
(* A client: client::run and connect_or_spawn.                             *)

Begin(c) ==
    /\ Client(c, "idle", "connecting")
    /\ raced' = (raced \/ Overlaps)
    /\ UNCHANGED <<path, dm, peer, upset>>

\* Connection refused or no such file is worth a spawn.
ConnectFirst(c) ==
    /\ Client(c, "connecting", IF Accepts THEN "connected" ELSE "checking")
    /\ peer' = [peer EXCEPT ![c] = IF Accepts THEN path ELSE None]
    /\ UNCHANGED <<path, dm, raced, upset>>

\* Any other error of the connect, or a spawn that fails.
ClientRefused(c) ==
    /\ "deny" \in Faults
    /\ Client(c, "connecting", "failed") \/ Client(c, "spawning", "failed")
    /\ upset' = TRUE
    /\ UNCHANGED <<path, dm, peer, raced>>

\* socket.exists()
CheckPath(c) ==
    /\ Client(c, "checking", IF path = None THEN "spawning" ELSE "unlinking")
    /\ UNCHANGED <<path, dm, peer, raced, upset>>

\* Whatever is there by now; an error is ignored, and the file stays.
Unlink(c) ==
    /\ Client(c, "unlinking", "spawning")
    /\ path' = None \/ ("deny" \in Faults /\ UNCHANGED path)
    /\ UNCHANGED <<dm, peer, raced, upset>>

\* Mutant: the new daemon is taken to be there at once.
SpawnAndAssume(c) ==
    /\ Client(c, "spawning", "connected")
    /\ \E d \in Daemons \ Direct : /\ Process(d, "unborn", "starting")
                                  /\ peer' = [peer EXCEPT ![c] = d]
    /\ UNCHANGED <<path, raced, upset>>

SpawnDaemon(c) ==
    /\ Client(c, "spawning", "polling")
    /\ \E d \in Daemons \ Direct : Process(d, "unborn", "starting")
    /\ UNCHANGED <<path, peer, raced, upset>>

\* Mutant: a poll that finds no listener spawns once more.
PollSpawning(c) ==
    /\ IF Accepts THEN Client(c, "polling", "connected")
                  ELSE Client(c, "polling", "spawning")
    /\ peer' = [peer EXCEPT ![c] = IF Accepts THEN path ELSE None]
    /\ UNCHANGED <<path, dm, raced, upset>>

\* wait_for_socket polls until a connect succeeds, whoever accepts it.
Poll(c) ==
    /\ Accepts
    /\ Client(c, "polling", "connected")
    /\ peer' = [peer EXCEPT ![c] = path]
    /\ UNCHANGED <<path, dm, raced, upset>>

TimeOut(c) ==
    /\ "slow" \in Faults
    /\ Client(c, "polling", "failed")
    /\ UNCHANGED <<path, dm, peer, raced, upset>>

\* Request and reply.  A handler may still finish while its daemon leaves.
Served(c) ==
    /\ Client(c, "connected", "served")
    /\ Bound(peer[c])
    /\ UNCHANGED <<path, dm, peer, raced, upset>>

\* The daemon ended first: end of stream before the reply.
CutOff(c) ==
    /\ Client(c, "connected", "failed")
    /\ dm[peer[c]] \in {"gone", "crashed"}
    /\ UNCHANGED <<path, dm, peer, raced, upset>>

-----------------------------------------------------------------------------
(* A daemon: the two ends of daemon::run.                                  *)

\* A daemon started by hand takes the path of any other.
Launch(d) ==
    /\ d \in Direct
    /\ Process(d, "unborn", "starting")
    /\ raced' = (raced \/ Overlaps \/ \E e \in Daemons : Bound(e))
    /\ UNCHANGED <<path, cl, peer, upset>>

\* Logging cannot be set up, or the unlink or the bind is refused.
DaemonRefused(d) ==
    /\ "deny" \in Faults
    /\ \E step \in {"starting", "removing", "binding"} :
          Process(d, step, "gone")
    /\ upset' = TRUE
    /\ UNCHANGED <<path, cl, peer, raced>>

\* socket.exists()
CheckStale(d) ==
    /\ Process(d, "starting", IF path = None THEN "binding" ELSE "removing")
    /\ UNCHANGED <<path, cl, peer, raced, upset>>

\* Mutant: a daemon that found a file at the path removes it and gives up.
RemoveStaleLosing(d) ==
    /\ Process(d, "removing", "gone")
    /\ path' = None
    /\ UNCHANGED <<cl, peer, raced, upset>>

\* remove_file: an error, also that somebody was faster, ends the daemon.
RemoveStale(d) ==
    /\ Process(d, "removing", IF path = None THEN "gone" ELSE "binding")
    /\ path' = None
    /\ UNCHANGED <<cl, peer, raced, upset>>

\* bind and listen; the path in use ends the daemon.
Bind(d) ==
    /\ Process(d, "binding", IF path = None THEN "listening" ELSE "gone")
    /\ path' = IF path = None THEN d ELSE path
    /\ UNCHANGED <<cl, peer, raced, upset>>

\* The main loop is left: shutdown request, signal, or a failed accept.
Leave(d) ==
    /\ "exit" \in Faults
    /\ Process(d, "listening", "leaving")
    /\ upset' = TRUE
    /\ UNCHANGED <<path, cl, peer, raced>>

\* Mutant: the socket file is left to the next start.
CleanupForgotten(d) ==
    /\ Process(d, "leaving", "closing")
    /\ UNCHANGED <<path, cl, peer, raced, upset>>

\* Best-effort socket cleanup: whatever is at the path.  An error is ignored:
\* the daemon is bound as before until it exits, with its file in place.
Cleanup(d) ==
    /\ \/ Process(d, "leaving", "closing") /\ path' = None
       \/ /\ "deny" \in Faults
          /\ Process(d, "leaving", "crashed")
          /\ UNCHANGED path
    /\ UNCHANGED <<cl, peer, raced, upset>>

\* The listener is dropped and the process exits.
Exit(d) ==
    /\ Process(d, "closing", "gone")
    /\ UNCHANGED <<path, cl, peer, raced, upset>>

\* Killed at any point: nothing is cleaned up.
Crash(d) ==
    /\ "crash" \in Faults
    /\ dm[d] \notin {"unborn", "gone", "crashed"}
    /\ dm' = [dm EXCEPT ![d] = "crashed"]
    /\ upset' = TRUE
    /\ UNCHANGED <<path, cl, peer, raced>>

-----------------------------------------------------------------------------
\* The path is free, or a daemon that crashed has left its file there.
SpawnInit ==
    /\ \/ path = None /\ dm = [d \in Daemons |-> "unborn"]
       \/ \E s \in Daemons \ Direct :
             /\ path = s
             /\ dm = [d \in Daemons |-> IF d = s THEN "crashed" ELSE "unborn"]
    /\ cl = [c \in Clients |-> "idle"]
    /\ peer = [c \in Clients |-> None]
    /\ raced = FALSE /\ upset = FALSE

ClientStep(c) ==
    \/ ConnectFirst(c) \/ CheckPath(c) \/ Unlink(c) \/ SpawnDaemon(c)
    \/ Poll(c) \/ Served(c) \/ CutOff(c)
DaemonStep(d) ==
    \/ CheckStale(d) \/ RemoveStale(d) \/ Bind(d) \/ Cleanup(d) \/ Exit(d)

SpawnNext ==
    \/ \E c \in Clients :
          \/ Begin(c)
          \/ ConnectFirst(c) \/ CheckPath(c) \/ Unlink(c) \/ SpawnDaemon(c)
          \/ Poll(c) \/ Served(c) \/ CutOff(c)
          \/ ClientRefused(c) \/ TimeOut(c)
    \/ \E d \in Daemons :
          \/ Launch(d)
          \/ CheckStale(d) \/ RemoveStale(d) \/ Bind(d)
          \/ Leave(d) \/ Cleanup(d) \/ Exit(d)
          \/ DaemonRefused(d) \/ Crash(d)

SpawnSpec == SpawnInit /\ [][SpawnNext]_spawnVars

\* Processes run; nobody owes a call, a fault or a timeout.  A poll comes
\* round every 50 ms, so a path that stays connectable is found.
SpawnFairness ==
    /\ \A c \in Clients : WF_spawnVars(ClientStep(c))
    /\ \A d \in Daemons : WF_spawnVars(DaemonStep(d))

SpawnFairSpec == SpawnSpec /\ SpawnFairness

-----------------------------------------------------------------------------
(* Properties.                                                             *)

\* Every variable stays in its range, and a connected client has a peer that
\* once was bound.
SpawnTypeOK ==
    /\ path \in Daemons \cup {None}
    /\ dm \in [Daemons -> {"unborn", "starting", "removing", "binding",
                           "listening", "leaving", "closing", "gone",
                           "crashed"}]
    /\ cl \in [Clients -> {"idle", "connecting", "checking", "unlinking",
                           "spawning", "polling", "connected", "served",
                           "failed"}]
    /\ peer \in [Clients -> Daemons \cup {None}]
    /\ \A c \in Clients :
          cl[c] \in {"connected", "served"}
          => peer[c] # None /\ (Bound(peer[c]) \/ dm[peer[c]] \in {"gone",
                                                                 "crashed"})
    /\ raced \in BOOLEAN /\ upset \in BOOLEAN

\* Callers that take turns share one daemon (auto_spawn.rs:26-53): as long as
\* no start-up, exit or search for a daemon has overlapped another search or
\* start, whatever daemon serves is the one at the path, so there is only one
\* and every instance it owns can be reached, over crashes with their stale
\* files, timeouts and shutdowns.
TurnsShareDaemon ==
    ~raced => \A d \in Daemons : dm[d] = "listening" => path = d

\* A clean exit leaves nothing of its own at the path (mod.rs:100-101, and
\* docs/cli.md:178): the file there is that of a listener, or of a daemon
\* that was killed or refused the unlink, whoever bound the path meanwhile.
NoFileAfterExit == path # None => Bound(path) \/ dm[path] = "crashed"

\* The search ends (auto_spawn.rs:53, 99-119): however many clients find
\* no daemon at once, over the file of a crashed one and with a daemon started
\* by hand among theirs, some daemon binds and stays, so that every client
\* whose 5 s do not run out gets connected, provided that no daemon crashed
\* or exited and no system call was refused.
SearchEnds ==
    \A c \in Clients :
       cl[c] = "connecting" ~> \/ cl[c] \in {"connected", "served", "failed"}
                               \/ upset

\* auto_spawn.rs:39-40, of the unlink: "If the path exists but nothing's
\* accepting, the daemon previously crashed without cleanup."  A client only
\* ever unlinks a file on which no daemon listens.
UnlinksOnlyStale ==
    [][\A c \in Clients :
          cl[c] = "unlinking" /\ cl'[c] = "spawning" => ~Accepts]_spawnVars

=============================================================================

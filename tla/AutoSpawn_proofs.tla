-------------------------- MODULE AutoSpawn_proofs --------------------------
(* Machine-checked proofs about module AutoSpawn, for any sets of clients  *)
(* and daemons and any faults.                                             *)
EXTENDS AutoSpawn, Naturals, TLAPS

Starting == {d \in Daemons : dm[d] \in {"starting", "removing", "binding"}}
Serving  == {d \in Daemons : dm[d] \in {"listening", "leaving"}}

\* Clients that have found no daemon and not yet started one, and with them
\* those that are still looking.
Without   == {c \in Clients : cl[c] \in {"checking", "unlinking", "spawning"}}
Searching == Without \cup {c \in Clients : cl[c] = "connecting"}

\* A daemon whose clean-up is over has no file any more.
Cleaned == path # None => dm[path] \in {"listening", "leaving", "crashed"}

\* Without a race there is one search or start-up at a time, it begins only
\* when nothing serves, and what serves has its file.
Turns ==
    ~raced =>
       /\ \A d \in Serving : path = d
       /\ \A c, e \in Searching : c = e
       /\ \A d, e \in Starting : d = e
       /\ Without # {} => Serving = {}
       /\ Starting # {} => Serving = {} /\ Searching = {}

SpawnInv == SpawnTypeOK /\ Cleaned /\ Turns

LEMMA SpawnInitInv == SpawnInit => SpawnInv
  BY AutoSpawnAssumption
  DEF SpawnInit, SpawnInv, SpawnTypeOK, Cleaned, Turns, Starting, Serving,
      Without, Searching

-----------------------------------------------------------------------------
(* Types.                                                                  *)

Steps == {"unborn", "starting", "removing", "binding", "listening",
          "leaving", "closing", "gone", "crashed"}
\* A daemon that was bound once.
Past  == {"listening", "leaving", "closing", "gone", "crashed"}

LEMMA DaemonMoves ==
    ASSUME SpawnTypeOK, NEW d \in Daemons, NEW to \in Steps,
           dm' = [dm EXCEPT ![d] = to], dm[d] \in Past => to \in Past,
           path' \in Daemons \cup {None}, UNCHANGED <<cl, peer>>,
           raced' \in BOOLEAN, upset' \in BOOLEAN
    PROVE  SpawnTypeOK'
  <1>1. /\ \A e \in Daemons : dm[e] \in Past => dm'[e] \in Past
        /\ dm' \in [Daemons -> Steps]
    BY DEF SpawnTypeOK, Steps
  <1>2. ASSUME NEW c \in Clients, cl[c] \in {"connected", "served"}
        PROVE  peer[c] # None /\ dm'[peer[c]] \in Past
    BY <1>1, <1>2, AutoSpawnAssumption DEF SpawnTypeOK, Bound, Past
  <1> QED BY <1>1, <1>2 DEF SpawnTypeOK, Steps, Bound, Past

LEMMA ClientMoves ==
    ASSUME SpawnTypeOK, NEW c \in Clients,
           NEW to \in {"connecting", "checking", "unlinking", "spawning",
                       "polling", "failed"},
           cl' = [cl EXCEPT ![c] = to],
           path' \in Daemons \cup {None}, UNCHANGED dm,
           peer' \in [Clients -> Daemons \cup {None}],
           \A e \in Clients \ {c} : peer'[e] = peer[e],
           raced' \in BOOLEAN, upset' \in BOOLEAN
    PROVE  SpawnTypeOK'
  <1>1. /\ cl' \in [Clients -> {"idle", "connecting", "checking",
                                "unlinking", "spawning", "polling",
                                "connected", "served", "failed"}]
        /\ cl'[c] = to /\ \A e \in Clients \ {c} : cl'[e] = cl[e]
    BY DEF SpawnTypeOK
  <1>2. ASSUME NEW e \in Clients, cl'[e] \in {"connected", "served"}
        PROVE  peer'[e] # None /\ dm'[peer'[e]] \in Past
    BY <1>1, <1>2 DEF SpawnTypeOK, Bound, Past
  <1> QED BY <1>1, <1>2 DEF SpawnTypeOK, Bound, Past

LEMMA SpawnTypeStep == SpawnTypeOK /\ [SpawnNext]_spawnVars => SpawnTypeOK'
  <1> SUFFICES ASSUME SpawnTypeOK, [SpawnNext]_spawnVars PROVE SpawnTypeOK'
    OBVIOUS
  <1>t. /\ path \in Daemons \cup {None} /\ raced \in BOOLEAN
        /\ upset \in BOOLEAN /\ peer \in [Clients -> Daemons \cup {None}]
    BY DEF SpawnTypeOK
  <1>0. CASE UNCHANGED spawnVars
    BY <1>0 DEF spawnVars, SpawnTypeOK, Bound
  <1>1. ASSUME NEW c \in Clients,
               Begin(c) \/ CheckPath(c) \/ Unlink(c) \/ TimeOut(c)
        PROVE  SpawnTypeOK'
    BY <1>1, <1>t, ClientMoves DEF Begin, CheckPath, Unlink, TimeOut, Client
  <1>2. ASSUME NEW c \in Clients, ClientRefused(c) PROVE SpawnTypeOK'
    BY <1>2, <1>t, ClientMoves DEF ClientRefused, Client
  <1>3. ASSUME NEW c \in Clients, ConnectFirst(c) \/ Poll(c)
        PROVE  SpawnTypeOK'
    <2>1. CASE Accepts
      BY <1>3, <2>1, AutoSpawnAssumption
      DEF ConnectFirst, Poll, Client, Accepts, Bound, SpawnTypeOK
    <2>2. CASE ~Accepts
      BY <1>3, <1>t, <2>2, ClientMoves DEF ConnectFirst, Poll, Client
    <2> QED BY <2>1, <2>2
  <1>4. ASSUME NEW c \in Clients, Served(c) PROVE SpawnTypeOK'
    BY <1>4 DEF Served, Client, Bound, SpawnTypeOK
  <1>5. ASSUME NEW c \in Clients, CutOff(c) PROVE SpawnTypeOK'
    BY <1>5, <1>t, ClientMoves DEF CutOff, Client
  <1>6. ASSUME NEW c \in Clients, SpawnDaemon(c) PROVE SpawnTypeOK'
    <2>1. PICK d \in Daemons : Process(d, "unborn", "starting")
      BY <1>6 DEF SpawnDaemon
    <2>2. /\ dm' \in [Daemons -> Steps]
          /\ \A e \in Daemons : dm[e] \in Past => dm'[e] \in Past
      BY <2>1 DEF Process, SpawnTypeOK, Steps, Past
    <2>3. /\ cl' \in [Clients -> {"idle", "connecting", "checking",
                                  "unlinking", "spawning", "polling",
                                  "connected", "served", "failed"}]
          /\ \A e \in Clients : cl'[e] \in {"connected", "served"}
                                => cl'[e] = cl[e]
          /\ UNCHANGED <<path, peer, raced, upset>>
      BY <1>6 DEF SpawnDaemon, Client, SpawnTypeOK
    <2>4. ASSUME NEW e \in Clients, cl[e] \in {"connected", "served"}
          PROVE  peer[e] # None /\ dm'[peer[e]] \in Past
      BY <2>2, <2>4, AutoSpawnAssumption DEF SpawnTypeOK, Bound, Past
    <2> QED BY <1>t, <2>2, <2>3, <2>4 DEF SpawnTypeOK, Steps, Bound, Past
  <1>7. ASSUME NEW d \in Daemons,
               Launch(d) \/ CheckStale(d) \/ RemoveStale(d)
        PROVE  SpawnTypeOK'
    BY <1>7, <1>t, DaemonMoves
    DEF Launch, CheckStale, RemoveStale, Process, Steps, Past
  <1>8. ASSUME NEW d \in Daemons, Bind(d) \/ Leave(d)
        PROVE  SpawnTypeOK'
    BY <1>8, <1>t, DaemonMoves DEF Bind, Leave, Process, Steps, Past
  <1>9. ASSUME NEW d \in Daemons, Cleanup(d) \/ Exit(d) PROVE SpawnTypeOK'
    BY <1>9, <1>t, DaemonMoves DEF Cleanup, Exit, Process, Steps, Past
  <1>10. ASSUME NEW d \in Daemons, DaemonRefused(d) \/ Crash(d)
         PROVE  SpawnTypeOK'
    BY <1>10, <1>t, DaemonMoves
    DEF DaemonRefused, Crash, Process, Steps, Past
  <1> QED
    BY <1>0, <1>1, <1>2, <1>3, <1>4, <1>5, <1>6, <1>7, <1>8, <1>9, <1>10
    DEF SpawnNext

-----------------------------------------------------------------------------
(* The file of a daemon that exited.                                       *)

LEMMA CleanedStep ==
    SpawnTypeOK /\ Cleaned /\ [SpawnNext]_spawnVars => Cleaned'
  <1> SUFFICES ASSUME SpawnTypeOK, Cleaned, [SpawnNext]_spawnVars
               PROVE  Cleaned'
    OBVIOUS
  <1> USE AutoSpawnAssumption DEF SpawnTypeOK, Cleaned, Client, Process
  <1>0. CASE UNCHANGED spawnVars
    BY <1>0 DEF spawnVars
  <1>1. ASSUME NEW c \in Clients,
               \/ Begin(c) \/ ConnectFirst(c) \/ CheckPath(c) \/ Unlink(c)
               \/ Poll(c) \/ Served(c) \/ CutOff(c)
               \/ ClientRefused(c) \/ TimeOut(c)
        PROVE  Cleaned'
    BY <1>1 DEF Begin, ConnectFirst, CheckPath, Unlink, Poll, Served, CutOff,
                ClientRefused, TimeOut
  <1>2. ASSUME NEW c \in Clients, SpawnDaemon(c) PROVE Cleaned'
    BY <1>2 DEF SpawnDaemon
  <1>3. ASSUME NEW d \in Daemons,
               Launch(d) \/ CheckStale(d) \/ RemoveStale(d) \/ Bind(d)
        PROVE  Cleaned'
    BY <1>3 DEF Launch, CheckStale, RemoveStale, Bind
  <1>4. ASSUME NEW d \in Daemons,
               \/ Leave(d) \/ Cleanup(d) \/ Exit(d)
               \/ DaemonRefused(d) \/ Crash(d)
        PROVE  Cleaned'
    BY <1>4 DEF Leave, Cleanup, Exit, DaemonRefused, Crash
  <1> QED BY <1>0, <1>1, <1>2, <1>3, <1>4 DEF SpawnNext

-----------------------------------------------------------------------------
(* Taking turns.  The steps of a search or a start-up keep the turn; a     *)
(* call or a launch takes it only when nobody else has it.                 *)

LEMMA TurnsStep == SpawnInv /\ [SpawnNext]_spawnVars => Turns'
  <1> SUFFICES ASSUME SpawnInv, [SpawnNext]_spawnVars, ~raced' PROVE Turns'
    BY DEF Turns
  <1> USE DEF Client, Process
  <1>0. CASE UNCHANGED spawnVars
    BY <1>0 DEF spawnVars, SpawnInv, Turns, Starting, Serving, Without,
                Searching
  <1>1. ASSUME NEW c \in Clients, Begin(c) PROVE Turns'
    <2>1. /\ ~raced /\ Finding = {} /\ Unsettled = {}
          /\ cl' = [cl EXCEPT ![c] = "connecting"] /\ UNCHANGED <<path, dm>>
      BY <1>1 DEF Begin, Overlaps
    <2>2. Starting' = {} /\ Serving' = Serving /\ Without' = {}
      BY <2>1 DEF Starting, Serving, Without, Unsettled, Finding, SpawnInv,
                  SpawnTypeOK
    <2>3. Searching' \subseteq {c}
      BY <2>1 DEF Searching, Without, Finding, SpawnInv, SpawnTypeOK
    <2> QED BY <2>1, <2>2, <2>3 DEF SpawnInv, Turns
  <1>2. ASSUME NEW c \in Clients, ConnectFirst(c) PROVE Turns'
    <2>1. Searching' \subseteq Searching /\ c \in Searching
          /\ UNCHANGED <<path, dm, raced>> /\ Starting' = Starting
          /\ Serving' = Serving
      BY <1>2 DEF ConnectFirst, Searching, Without, Starting, Serving,
                  SpawnInv, SpawnTypeOK
    <2>2. Without' # {} => Serving = {}
      <3>1. ASSUME Accepts PROVE Without' = Without
        BY <1>2, <3>1 DEF ConnectFirst, Without, SpawnInv, SpawnTypeOK
      <3>2. ASSUME ~Accepts PROVE Serving = {}
        BY <2>1, <3>2, AutoSpawnAssumption
        DEF Accepts, Bound, Serving, SpawnInv, Turns
      <3> QED BY <2>1, <3>1, <3>2 DEF SpawnInv, Turns
    <2> QED BY <2>1, <2>2 DEF SpawnInv, Turns
  <1>3. ASSUME NEW c \in Clients, CheckPath(c) \/ Unlink(c) PROVE Turns'
    <2>1. /\ Searching' = Searching /\ Without' = Without /\ c \in Without
          /\ Starting' = Starting /\ Serving' = Serving
          /\ UNCHANGED raced
      BY <1>3 DEF CheckPath, Unlink, Searching, Without, Starting, Serving,
                  SpawnInv, SpawnTypeOK
    <2> QED BY <2>1 DEF SpawnInv, Turns
  <1>4. ASSUME NEW c \in Clients, SpawnDaemon(c) PROVE Turns'
    <2>1. PICK d \in Daemons : Process(d, "unborn", "starting")
      BY <1>4 DEF SpawnDaemon
    <2>2. /\ c \in Without /\ Searching' \subseteq Searching \ {c}
          /\ Without' \subseteq Without
          /\ Starting' = Starting \cup {d} /\ Serving' = Serving
          /\ UNCHANGED <<raced, path>>
      BY <1>4, <2>1 DEF SpawnDaemon, Searching, Without, Starting, Serving,
                        SpawnInv, SpawnTypeOK
    <2>3. /\ \A e \in Searching : e = c
          /\ Serving = {} /\ Starting = {}
      BY <2>2 DEF SpawnInv, Turns, Searching
    <2> QED BY <2>2, <2>3 DEF Turns
  <1>5. ASSUME NEW c \in Clients,
               \/ Poll(c) \/ Served(c) \/ CutOff(c)
               \/ ClientRefused(c) \/ TimeOut(c)
        PROVE  Turns'
    <2>1. /\ Searching' \subseteq Searching /\ Without' \subseteq Without
          /\ Starting' = Starting /\ Serving' = Serving
          /\ UNCHANGED <<raced, path>>
      BY <1>5 DEF Poll, Served, CutOff, ClientRefused, TimeOut, Searching,
                  Without, Starting, Serving, SpawnInv, SpawnTypeOK
    <2> QED BY <2>1 DEF SpawnInv, Turns
  <1>6. ASSUME NEW d \in Daemons, Launch(d) PROVE Turns'
    <2>1. /\ Finding = {} /\ Unsettled = {} /\ \A e \in Daemons : ~Bound(e)
          /\ dm' = [dm EXCEPT ![d] = "starting"] /\ UNCHANGED <<path, cl>>
      BY <1>6 DEF Launch, Overlaps
    <2>2. Starting' \subseteq {d} /\ Serving' = {}
      BY <2>1 DEF Starting, Serving, Bound, Unsettled, SpawnInv, SpawnTypeOK
    <2>3. Searching' = {} /\ Without' = {}
      BY <2>1 DEF Searching, Without, Finding
    <2> QED BY <2>2, <2>3 DEF Turns
  <1>7. ASSUME NEW d \in Daemons, CheckStale(d) \/ RemoveStale(d)
        PROVE  Turns'
    <2>1. /\ Searching' = Searching /\ Without' = Without
          /\ d \in Starting /\ Starting' \subseteq Starting
          /\ Serving' = Serving /\ UNCHANGED raced
      BY <1>7 DEF CheckStale, RemoveStale, Searching, Without, Starting,
                  Serving, SpawnInv, SpawnTypeOK
    <2> QED BY <2>1 DEF SpawnInv, Turns
  <1>8. ASSUME NEW d \in Daemons, Bind(d) PROVE Turns'
    <2>1. /\ Searching' = Searching /\ Without' = Without
          /\ d \in Starting /\ Starting' = Starting \ {d}
          /\ Serving' \subseteq Serving \cup {d}
          /\ path = None => path' = d
          /\ path # None => Serving' = Serving
          /\ UNCHANGED raced
      BY <1>8 DEF Bind, Searching, Without, Starting, Serving, SpawnInv,
                  SpawnTypeOK
    <2>2. Serving = {} /\ Searching = {} /\ \A e \in Starting : e = d
      BY <2>1 DEF SpawnInv, Turns
    <2> QED BY <2>1, <2>2 DEF Turns, Searching
  <1>9. ASSUME NEW d \in Daemons,
               Leave(d) \/ Exit(d) \/ DaemonRefused(d) \/ Crash(d)
        PROVE  Turns'
    <2>1. /\ Searching' = Searching /\ Without' = Without
          /\ Starting' \subseteq Starting /\ Serving' \subseteq Serving
          /\ UNCHANGED <<raced, path>>
      BY <1>9 DEF Leave, Exit, DaemonRefused, Crash, Searching, Without,
                  Starting, Serving, SpawnInv, SpawnTypeOK
    <2> QED BY <2>1 DEF SpawnInv, Turns
  <1>10. ASSUME NEW d \in Daemons, Cleanup(d) PROVE Turns'
    <2>1. /\ Searching' = Searching /\ Without' = Without
          /\ Starting' = Starting /\ d \in Serving
          /\ Serving' = Serving \ {d} /\ UNCHANGED raced
      BY <1>10 DEF Cleanup, Searching, Without, Starting, Serving, SpawnInv,
                   SpawnTypeOK
    <2>2. \A e \in Serving : e = d
      BY <2>1 DEF SpawnInv, Turns
    <2> QED BY <2>1, <2>2 DEF SpawnInv, Turns
  <1> QED
    BY <1>0, <1>1, <1>2, <1>3, <1>4, <1>5, <1>6, <1>7, <1>8, <1>9, <1>10
    DEF SpawnNext

-----------------------------------------------------------------------------
LEMMA SpawnInvariant == SpawnSpec => []SpawnInv
  <1>1. SpawnInv /\ [SpawnNext]_spawnVars => SpawnInv'
    BY SpawnTypeStep, CleanedStep, TurnsStep DEF SpawnInv
  <1> QED BY SpawnInitInv, <1>1, PTL DEF SpawnSpec

\* Every variable keeps its type, and nobody is connected to a daemon that
\* was never bound.
THEOREM SpawnTypes == SpawnSpec => []SpawnTypeOK
  <1>1. SpawnInv => SpawnTypeOK
    BY DEF SpawnInv
  <1> QED BY SpawnInvariant, <1>1, PTL

\* A daemon that exits leaves no file of its own.
THEOREM ExitsAreClean == SpawnSpec => []NoFileAfterExit
  <1>1. SpawnInv => NoFileAfterExit
    BY DEF SpawnInv, Cleaned, NoFileAfterExit, Bound
  <1> QED BY SpawnInvariant, <1>1, PTL

\* Any number of callers that take turns share one daemon.
THEOREM TurnsShare == SpawnSpec => []TurnsShareDaemon
  <1>1. SpawnInv => TurnsShareDaemon
    BY DEF SpawnInv, Turns, TurnsShareDaemon, Serving
  <1> QED BY SpawnInvariant, <1>1, PTL

-----------------------------------------------------------------------------
(* The path is not taken away from a daemon that serves.  UnlinksOnlyStale *)
(* is false of the code because searches overlap; these say that it is     *)
(* false for no other reason.                                              *)

\* A file on which connects succeed goes, while callers take turns, only by
\* the clean-up of the daemon that bound it (auto_spawn.rs:41-43,
\* mod.rs:41-45, 100-101): no client and no other daemon unlinks it.
PathKeptInTurn ==
    [][~raced /\ Accepts /\ path' # path
       => dm[path] = "leaving" /\ dm' = [dm EXCEPT ![path] = "closing"]
      ]_spawnVars

\* So the assumption that the comment of auto_spawn.rs:39-40 makes is true
\* for callers that take turns.
UnlinksInTurn ==
    [][~raced => \A c \in Clients :
          cl[c] = "unlinking" /\ cl'[c] = "spawning" => ~Accepts]_spawnVars

LEMMA UnlinkInTurn ==
    ASSUME SpawnInv, ~raced, Without # {} \/ Starting # {} PROVE ~Accepts
  <1>1. Serving = {}
    BY DEF SpawnInv, Turns
  <1> QED
    BY <1>1, AutoSpawnAssumption
    DEF SpawnInv, SpawnTypeOK, Cleaned, Accepts, Bound, Serving

LEMMA PathStep ==
    ASSUME SpawnInv, [SpawnNext]_spawnVars, ~raced, Accepts, path' # path
    PROVE  dm[path] = "leaving" /\ dm' = [dm EXCEPT ![path] = "closing"]
  <1>1. ASSUME NEW c \in Clients, Unlink(c) PROVE FALSE
    BY <1>1, UnlinkInTurn DEF Unlink, Client, Without
  <1>2. ASSUME NEW d \in Daemons, RemoveStale(d) \/ Bind(d) PROVE FALSE
    BY <1>2, UnlinkInTurn DEF RemoveStale, Bind, Process, Starting
  <1>3. ASSUME NEW d \in Daemons, Cleanup(d) PROVE path = d
    BY <1>3 DEF Cleanup, Process, SpawnInv, Turns, Serving
  <1>4. ASSUME \/ UNCHANGED spawnVars
               \/ \E c \in Clients :
                     \/ Begin(c) \/ ConnectFirst(c) \/ CheckPath(c)
                     \/ SpawnDaemon(c) \/ Poll(c) \/ Served(c) \/ CutOff(c)
                     \/ ClientRefused(c) \/ TimeOut(c)
               \/ \E d \in Daemons :
                     \/ Launch(d) \/ CheckStale(d) \/ Leave(d) \/ Exit(d)
                     \/ DaemonRefused(d) \/ Crash(d)
        PROVE  FALSE
    BY <1>4
    DEF spawnVars, Begin, ConnectFirst, CheckPath, SpawnDaemon, Poll, Served,
        CutOff, ClientRefused, TimeOut, Launch, CheckStale, Leave, Exit,
        DaemonRefused, Crash
  <1> QED
    BY <1>1, <1>2, <1>3, <1>4 DEF SpawnNext, Cleanup, Process

\* While callers take turns, a daemon loses its socket file to nobody.
THEOREM TurnsKeepPath == SpawnSpec => PathKeptInTurn
  <1>1. ASSUME SpawnInv, [SpawnNext]_spawnVars
        PROVE  [~raced /\ Accepts /\ path' # path
                => /\ dm[path] = "leaving"
                   /\ dm' = [dm EXCEPT ![path] = "closing"]]_spawnVars
    BY <1>1, PathStep
  <1> QED BY <1>1, SpawnInvariant, PTL DEF SpawnSpec, PathKeptInTurn

\* While callers take turns, a client unlinks only what nobody listens on.
THEOREM TurnsUnlinkStale == SpawnSpec => UnlinksInTurn
  <1>1. ASSUME SpawnInv, [SpawnNext]_spawnVars
        PROVE  [~raced => \A c \in Clients :
                   cl[c] = "unlinking" /\ cl'[c] = "spawning"
                   => ~Accepts]_spawnVars
    BY <1>1, UnlinkInTurn DEF Without
  <1> QED BY <1>1, SpawnInvariant, PTL DEF SpawnSpec, UnlinksInTurn

-----------------------------------------------------------------------------
(* The search is bounded: the safety core of SearchEnds.                   *)

CallRank == [idle |-> 0, connecting |-> 1, checking |-> 2, unlinking |-> 3,
             spawning |-> 4, polling |-> 5, connected |-> 6, served |-> 7,
             failed |-> 7]
LifeRank == [unborn |-> 0, starting |-> 1, removing |-> 2, binding |-> 3,
             listening |-> 4, leaving |-> 5, closing |-> 6, gone |-> 7,
             crashed |-> 7]

\* Nothing is tried twice (auto_spawn.rs:26-53, mod.rs:35-101): a call and a
\* daemon only ever go forward, whatever the others do, so a call is over
\* after seven steps of its own; and a daemon that was not started by hand is
\* born with the one step in which some call spawns it, so an invocation
\* leaves at most one daemon behind.
OneSpawnPerCall ==
    [][/\ \A c \in Clients : cl'[c] = cl[c]
                             \/ CallRank[cl'[c]] > CallRank[cl[c]]
       /\ \A d \in Daemons : dm'[d] = dm[d]
                             \/ LifeRank[dm'[d]] > LifeRank[dm[d]]
       /\ \A d \in Daemons \ Direct :
             dm[d] = "unborn" /\ dm'[d] # "unborn"
             => \E c \in Clients :
                   /\ cl[c] = "spawning"
                   /\ cl' = [cl EXCEPT ![c] = "polling"]
                   /\ \A e \in Daemons \ {d} : dm'[e] = dm[e]]_spawnVars

LEMMA CallForward ==
    ASSUME SpawnTypeOK, NEW c \in Clients, NEW from, NEW to,
           from \in DOMAIN CallRank, to \in DOMAIN CallRank,
           Client(c, from, to), CallRank[to] > CallRank[from]
    PROVE  \A e \in Clients : cl'[e] = cl[e]
                              \/ CallRank[cl'[e]] > CallRank[cl[e]]
  BY DEF SpawnTypeOK, Client

LEMMA LifeForward ==
    ASSUME SpawnTypeOK, NEW d \in Daemons, NEW from, NEW to,
           Process(d, from, to), LifeRank[to] > LifeRank[from]
    PROVE  \A e \in Daemons : dm'[e] = dm[e]
                              \/ LifeRank[dm'[e]] > LifeRank[dm[e]]
  BY DEF SpawnTypeOK, Process

LEMMA ForwardStep ==
    ASSUME SpawnTypeOK, [SpawnNext]_spawnVars
    PROVE  /\ \A c \in Clients : cl'[c] = cl[c]
                                 \/ CallRank[cl'[c]] > CallRank[cl[c]]
           /\ \A d \in Daemons : dm'[d] = dm[d]
                                 \/ LifeRank[dm'[d]] > LifeRank[dm[d]]
  <1> DEFINE Calls == \A e \in Clients : cl'[e] = cl[e]
                                         \/ CallRank[cl'[e]] > CallRank[cl[e]]
             Lives == \A e \in Daemons : dm'[e] = dm[e]
                                         \/ LifeRank[dm'[e]] > LifeRank[dm[e]]
  <1>1. ASSUME NEW c \in Clients,
               \/ Begin(c) \/ ConnectFirst(c) \/ CheckPath(c) \/ Unlink(c)
               \/ SpawnDaemon(c) \/ Poll(c) \/ Served(c) \/ CutOff(c)
               \/ ClientRefused(c) \/ TimeOut(c)
        PROVE  Calls
    <2>1. PICK from \in DOMAIN CallRank, to \in DOMAIN CallRank :
              Client(c, from, to) /\ CallRank[to] > CallRank[from]
      BY <1>1
      DEF Begin, ConnectFirst, CheckPath, Unlink, SpawnDaemon, Poll, Served,
          CutOff, ClientRefused, TimeOut, CallRank
    <2> QED BY <2>1, CallForward
  <1>2. ASSUME NEW c \in Clients,
               \/ Begin(c) \/ ConnectFirst(c) \/ CheckPath(c) \/ Unlink(c)
               \/ Poll(c) \/ Served(c) \/ CutOff(c)
               \/ ClientRefused(c) \/ TimeOut(c)
        PROVE  Lives
    BY <1>2
    DEF Begin, ConnectFirst, CheckPath, Unlink, Poll, Served, CutOff,
        ClientRefused, TimeOut
  <1>3. ASSUME NEW c \in Clients, SpawnDaemon(c) PROVE Lives
    <2>1. PICK d \in Daemons : Process(d, "unborn", "starting")
      BY <1>3 DEF SpawnDaemon
    <2> QED BY <2>1, LifeForward DEF LifeRank
  <1>4. ASSUME NEW d \in Daemons,
               \/ Launch(d) \/ CheckStale(d) \/ RemoveStale(d) \/ Bind(d)
               \/ Leave(d) \/ Cleanup(d) \/ Exit(d) \/ DaemonRefused(d)
        PROVE  Lives
    <2>1. PICK from \in DOMAIN LifeRank, to \in DOMAIN LifeRank :
              Process(d, from, to) /\ LifeRank[to] > LifeRank[from]
      BY <1>4
      DEF Launch, CheckStale, RemoveStale, Bind, Leave, Cleanup, Exit,
          DaemonRefused, LifeRank
    <2> QED BY <2>1, LifeForward
  <1>5. ASSUME NEW d \in Daemons, Crash(d) PROVE Lives
    BY <1>5 DEF Crash, SpawnTypeOK, LifeRank
  <1>6. ASSUME NEW d \in Daemons,
               \/ Launch(d) \/ CheckStale(d) \/ RemoveStale(d) \/ Bind(d)
               \/ Leave(d) \/ Cleanup(d) \/ Exit(d)
               \/ DaemonRefused(d) \/ Crash(d)
        PROVE  Calls
    BY <1>6
    DEF Launch, CheckStale, RemoveStale, Bind, Leave, Cleanup, Exit,
        DaemonRefused, Crash
  <1>7. CASE UNCHANGED spawnVars
    BY <1>7 DEF spawnVars
  <1> QED
    BY <1>1, <1>2, <1>3, <1>4, <1>5, <1>6, <1>7 DEF SpawnNext

LEMMA BirthStep ==
    ASSUME SpawnTypeOK, [SpawnNext]_spawnVars, NEW d \in Daemons \ Direct,
           dm[d] = "unborn", dm'[d] # "unborn"
    PROVE  \E c \in Clients : /\ cl[c] = "spawning"
                              /\ cl' = [cl EXCEPT ![c] = "polling"]
                              /\ \A e \in Daemons \ {d} : dm'[e] = dm[e]
  <1>1. ASSUME NEW c \in Clients, SpawnDaemon(c)
        PROVE  /\ cl[c] = "spawning"
               /\ cl' = [cl EXCEPT ![c] = "polling"]
               /\ \A e \in Daemons \ {d} : dm'[e] = dm[e]
    BY <1>1 DEF SpawnDaemon, Client, Process, SpawnTypeOK
  <1>2. ASSUME NEW c \in Clients,
               \/ Begin(c) \/ ConnectFirst(c) \/ CheckPath(c) \/ Unlink(c)
               \/ Poll(c) \/ Served(c) \/ CutOff(c)
               \/ ClientRefused(c) \/ TimeOut(c)
        PROVE  FALSE
    BY <1>2
    DEF Begin, ConnectFirst, CheckPath, Unlink, Poll, Served, CutOff,
        ClientRefused, TimeOut
  <1>3. ASSUME NEW e \in Daemons, Launch(e) PROVE FALSE
    BY <1>3 DEF Launch, Process, SpawnTypeOK
  <1>4. ASSUME NEW e \in Daemons,
               \/ CheckStale(e) \/ RemoveStale(e) \/ Bind(e)
               \/ Leave(e) \/ Cleanup(e) \/ Exit(e)
               \/ DaemonRefused(e) \/ Crash(e)
        PROVE  FALSE
    BY <1>4
    DEF CheckStale, RemoveStale, Bind, Leave, Cleanup, Exit, DaemonRefused,
        Crash, Process, SpawnTypeOK
  <1> QED BY <1>1, <1>2, <1>3, <1>4 DEF SpawnNext, spawnVars

\* A call ends in a bounded number of its steps and spawns one daemon at most.
THEOREM SearchIsBounded == SpawnSpec => OneSpawnPerCall
  <1>1. ASSUME SpawnTypeOK, [SpawnNext]_spawnVars
        PROVE  [/\ \A c \in Clients : cl'[c] = cl[c]
                             \/ CallRank[cl'[c]] > CallRank[cl[c]]
                /\ \A d \in Daemons : dm'[d] = dm[d]
                             \/ LifeRank[dm'[d]] > LifeRank[dm[d]]
                /\ \A d \in Daemons \ Direct :
                      dm[d] = "unborn" /\ dm'[d] # "unborn"
                      => \E c \in Clients :
                            /\ cl[c] = "spawning"
                            /\ cl' = [cl EXCEPT ![c] = "polling"]
                            /\ \A e \in Daemons \ {d} : dm'[e] = dm[e]
               ]_spawnVars
    BY <1>1, ForwardStep, BirthStep
  <1> QED BY <1>1, SpawnTypes, PTL DEF SpawnSpec, OneSpawnPerCall
=============================================================================

--------------------------- MODULE Emulator_proofs ---------------------------
(* Machine-checked proofs about module Emulator, for any number of         *)
(* processes, any set of kinds and any faults.                             *)
EXTENDS Emulator, Naturals, TLAPS

\* Where a call is tells what the handle's fields hold.
CallHolds ==
    /\ pc \in {"spawned", "waiting", "ready", "unreachable"}
          => status = "Starting"
    /\ pc \in {"waiting", "ready", "unreachable"} => child # None
    /\ pc = "stopping" => child = None /\ status # "Stopped"
    /\ pc = "dropped" => child = None

\* Only a live process holds the port.
HolderLives == port \in Procs => port \in Live

\* From a spawn over a free port without predecessors on, the new process is
\* the only one that can take the port; a connect that succeeded found it.
OnlyChildBinds ==
    kind = "stream" /\ clean =>
       /\ pc = "spawned" => Live \subseteq {leaving} /\ port \in {None, leaving}
       /\ pc \in {"waiting", "unreachable"}
             => Live \subseteq {child} /\ port \in {None, child}
       /\ pc = "ready" \/ (status = "Running" /\ child # None)
             => Live \subseteq {child} /\ port = child

HandleInv ==
    /\ EmuTypeOK /\ CallHolds /\ NoOrphan /\ StoppedIsDown
    /\ HolderLives /\ OnlyChildBinds

USE DEF handleVars, procVars

LEMMA HandleInit == Init => HandleInv
  BY EmulatorAssumption
  DEF Init, HandleInv, EmuTypeOK, CallHolds, NoOrphan, StoppedIsDown,
      HolderLives, OnlyChildBinds, Live

-----------------------------------------------------------------------------
(* One step per action.                                                    *)

\* Steps of a call that move only status, child, leaving and pc.
LEMMA CallStep ==
    ASSUME HandleInv,
           \/ SpawnFails \/ DelayOver \/ Probe \/ SleepOn \/ Ready \/ GiveUp
           \/ StopWithoutChild \/ Stop \/ StopOver
    PROVE  HandleInv'
  <1> USE EmulatorAssumption
      DEF HandleInv, EmuTypeOK, CallHolds, NoOrphan, StoppedIsDown,
          HolderLives, OnlyChildBinds, Live
  <1>1. CASE SpawnFails
    BY <1>1 DEF SpawnFails, MayStart
  <1>2. CASE DelayOver
    BY <1>2 DEF DelayOver
  <1>3. CASE Probe
    BY <1>3 DEF Probe, Reachable
  <1>4. CASE SleepOn
    BY <1>4 DEF SleepOn
  <1>5. CASE Ready
    BY <1>5 DEF Ready
  <1>6. CASE GiveUp
    BY <1>6 DEF GiveUp
  <1>7. CASE StopWithoutChild
    BY <1>7 DEF StopWithoutChild
  <1>8. CASE Stop
    BY <1>8 DEF Stop
  <1>9. CASE StopOver
    BY <1>9 DEF StopOver
  <1> QED BY <1>1, <1>2, <1>3, <1>4, <1>5, <1>6, <1>7, <1>8, <1>9

\* Steps that spawn, kill or let go of a process.
LEMMA OwnerStep ==
    ASSUME HandleInv,
           \/ \E p \in Procs : Spawn(p)
           \/ KeepHandle \/ StopKills \/ Cancel \/ Drop
    PROVE  HandleInv'
  <1> USE EmulatorAssumption
      DEF HandleInv, EmuTypeOK, CallHolds, NoOrphan, StoppedIsDown,
          HolderLives, OnlyChildBinds, Live
  <1>1. ASSUME NEW p \in Procs, Spawn(p) PROVE HandleInv'
    <2>1. /\ Live' = Live \cup {p} /\ p \notin Live
          /\ proc' \in [Procs -> {"unused", "live", "dead"}]
      BY <1>1 DEF Spawn, MayStart
    <2>2. /\ UNCHANGED <<kind, child, killed, port>> /\ leaving = None
          /\ pc' = "spawned" /\ status' = "Starting" /\ leaving' = p
          /\ clean' = (port = None /\ Live = {})
      BY <1>1 DEF Spawn, MayStart
    <2> HIDE DEF Live
    <2>3. EmuTypeOK'
      BY <2>1, <2>2
    <2>4. CallHolds' /\ StoppedIsDown'
      BY <2>2
    <2>5. NoOrphan'
      <3>1. Live \subseteq killed \cup {child} \cup {leaving}
        OBVIOUS
      <3>2. Live \subseteq Procs
        BY DEF Live
      <3>3. Live \subseteq killed \cup {child}
        BY <2>2, <3>1, <3>2
      <3>4. Live' \subseteq killed \cup {child} \cup {p}
        BY <2>1, <3>3
      <3> QED BY <2>2, <3>4
    <2>6. HolderLives'
      BY <2>1, <2>2
    <2>7. OnlyChildBinds'
      BY <2>1, <2>2
    <2> QED BY <2>3, <2>4, <2>5, <2>6, <2>7
  <1>2. CASE KeepHandle
    BY <1>2 DEF KeepHandle
  <1>3. CASE StopKills
    BY <1>3 DEF StopKills
  <1>4. CASE Cancel
    BY <1>4 DEF Cancel
  <1>5. CASE Drop
    BY <1>5 DEF Drop
  <1> QED BY <1>1, <1>2, <1>3, <1>4, <1>5

\* What processes and other programs do.
LEMMA WorldStep ==
    ASSUME HandleInv,
           \/ \E p \in Procs : Binds(p) \/ Dies(p)
           \/ ForeignBinds \/ ForeignLeaves
    PROVE  HandleInv'
  <1> USE EmulatorAssumption
      DEF HandleInv, EmuTypeOK, CallHolds, NoOrphan, StoppedIsDown,
          HolderLives, OnlyChildBinds, Live
  <1>1. ASSUME NEW p \in Procs, Binds(p) PROVE HandleInv'
    BY <1>1 DEF Binds
  <1>2. ASSUME NEW p \in Procs, Dies(p) PROVE HandleInv'
    BY <1>2 DEF Dies
  <1>3. CASE ForeignBinds
    BY <1>3 DEF ForeignBinds
  <1>4. CASE ForeignLeaves
    BY <1>4 DEF ForeignLeaves
  <1> QED BY <1>1, <1>2, <1>3, <1>4

LEMMA HandleStutters ==
    ASSUME HandleInv, UNCHANGED vars
    PROVE  HandleInv'
  BY DEF vars, HandleInv, EmuTypeOK, CallHolds, NoOrphan, StoppedIsDown,
         HolderLives, OnlyChildBinds, Live

LEMMA HandleInductive == HandleInv /\ [Next]_vars => HandleInv'
  BY CallStep, OwnerStep, WorldStep, HandleStutters DEF Next, StartRefused

LEMMA HandleInvariant == Spec => []HandleInv
  BY HandleInit, HandleInductive, PTL DEF Spec

-----------------------------------------------------------------------------
\* Type correctness of the handle.
THEOREM EmulatorTypes == Spec => []EmuTypeOK
  <1>1. HandleInv => EmuTypeOK
    BY DEF HandleInv
  <1> QED BY <1>1, HandleInvariant, PTL

\* However starts, stops, dropped futures and the drop of the handle follow
\* one another, no simulator is left to itself.
THEOREM NothingOrphaned == Spec => []NoOrphan
  <1>1. HandleInv => NoOrphan
    BY DEF HandleInv
  <1> QED BY <1>1, HandleInvariant, PTL

\* A handle that says Stopped has nothing running.
THEOREM StoppedMeansDown == Spec => []StoppedIsDown
  <1>1. HandleInv => StoppedIsDown
    BY DEF HandleInv
  <1> QED BY <1>1, HandleInvariant, PTL

\* A connect that succeeded has reached the handle's own child.
THEOREM ProbeFindsChild == Spec => []RunningHoldsPort
  <1>1. HandleInv => RunningHoldsPort
    BY DEF HandleInv, OnlyChildBinds, RunningHoldsPort
  <1> QED BY <1>1, HandleInvariant, PTL

-----------------------------------------------------------------------------
(* What CallsEnd rests on, without fairness.                               *)

\* How far a call has to go.
CallRank == [spawned |-> 4, waiting |-> 3, unreachable |-> 2, ready |-> 1,
             stopping |-> 1, idle |-> 0, dropped |-> 0]

\* How far a process has to go: to be killed, and to die.
Doom(p) == IF proc[p] = "dead" THEN 0 ELSE IF p \in killed THEN 1 ELSE 2

\* Nothing sets a call back (generic.rs:339-350, 442-474, 506-523): neither the
\* simulator, nor another program at its port, nor a process killed before.  A
\* step leaves the call where it is, with its child, and a child that stop
\* waits for no farther from its death; or it brings the call to a later
\* place.  The one way back is from a failed probe to the next, which the
\* deadline counts.
CallGoesOn ==
    pc \notin {"idle", "dropped"} =>
       \/ /\ UNCHANGED <<pc, child, leaving>>
          /\ pc = "stopping" => Doom(leaving)' <= Doom(leaving)
       \/ CallRank[pc'] < CallRank[pc]
       \/ pc = "unreachable" /\ pc' = "waiting" /\ child' = child

CallsGoOn == [][CallGoesOn]_vars

LEMMA WorldLeavesCall ==
    ASSUME HandleInv,
           \/ \E p \in Procs : Binds(p) \/ Dies(p)
           \/ ForeignBinds \/ ForeignLeaves
    PROVE  CallGoesOn
  <1> SUFFICES ASSUME pc \notin {"idle", "dropped"} PROVE CallGoesOn
    BY DEF CallGoesOn
  <1>1. UNCHANGED <<pc, child, leaving>>
    BY DEF Binds, Dies, ForeignBinds, ForeignLeaves
  <1>2. ASSUME NEW p \in Procs, Dies(p), pc = "stopping"
        PROVE  Doom(leaving)' <= Doom(leaving)
    <2>1. /\ proc' = [proc EXCEPT ![p] = "dead"] /\ killed' = killed \ {p}
          /\ proc \in [Procs -> {"unused", "live", "dead"}]
      BY <1>2 DEF Dies, HandleInv, EmuTypeOK
    <2> QED BY <1>1, <2>1 DEF Doom
  <1>3. CASE UNCHANGED <<proc, killed>>
    BY <1>1, <1>3 DEF CallGoesOn, Doom
  <1> QED
    BY <1>1, <1>2, <1>3
    DEF CallGoesOn, Binds, ForeignBinds, ForeignLeaves

LEMMA CallMoves ==
    ASSUME HandleInv, [Next]_vars PROVE CallGoesOn
  <1>1. CASE UNCHANGED vars \/ StartRefused
    BY <1>1 DEF vars, StartRefused, CallGoesOn, Doom
  <1>2. CASE \/ SpawnFails \/ StopWithoutChild \/ Stop \/ Drop
             \/ \E p \in Procs : Spawn(p)
    BY <1>2
    DEF SpawnFails, StopWithoutChild, Stop, Drop, Spawn, MayStart, CallGoesOn
  <1>3. CASE \/ KeepHandle \/ DelayOver \/ Probe \/ SleepOn \/ Ready \/ GiveUp
             \/ StopOver \/ Cancel
    BY <1>3
    DEF KeepHandle, DelayOver, Probe, SleepOn, Ready, GiveUp, StopOver, Cancel,
        CallGoesOn, CallRank
  <1>4. CASE StopKills
    BY <1>4 DEF StopKills, CallGoesOn, Doom, Live
  <1> QED BY <1>1, <1>2, <1>3, <1>4, WorldLeavesCall DEF Next

\* A start or stop comes no farther from its end, except for the turns of
\* wait_for_ready; with fairness and the deadline it ends, which the run
\* checks.
THEOREM CallsAreNotSetBack == Spec => CallsGoOn
  <1>1. HandleInv /\ [Next]_vars => [CallGoesOn]_vars
    BY CallMoves
  <1> QED BY <1>1, HandleInvariant, PTL DEF Spec, CallsGoOn
=============================================================================

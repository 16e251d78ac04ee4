---------------------------- MODULE InstanceLogs ----------------------------
(* The logs and counters of one running instance (daemon/instance.rs) and  *)
(* the three parties around them: the reader tasks of the simulator's      *)
(* output, the task that drains the bridge's intercept channel             *)
(* (spawn.rs:259-291), and the registry task, which answers logs and       *)
(* bridge_stats and stops the instance.                                    *)
EXTENDS Naturals, SequencesExt

CONSTANTS
    None,
    Cap,         \* OUTPUT_RING_SIZE and LOG_BUFFER_CAP, 500 in the code
    ReportSize,  \* bytes of a HID report
    Directions,  \* host to device and device to host
    Tails,       \* the values of --tail tried besides none
    MaxLines,    \* bound: lines the simulator prints
    MaxReports,  \* bound: reports the bridge intercepts
    MaxTime,     \* bound: milliseconds that pass
    MaxQueries   \* bound: queries the registry answers

ASSUME LogsAssumption ==
    /\ Cap \in Nat \ {0} /\ ReportSize \in Nat \ {0}
    /\ Tails \subseteq Nat
    /\ {MaxLines, MaxReports, MaxTime, MaxQueries} \subseteq Nat
    /\ None \notin [dir : Directions, todo : SUBSET {"reports", "bytes"}]

Sources    == {"emulator", "bridge", "all"}
Counters   == Directions \X {"reports", "bytes"}

VARIABLES
    now,       \* milliseconds since started_at
    alive,     \* the registry still has the instance
    emuRing,   \* output_lines: what the simulator printed
    channel,   \* directions of the intercepted reports, not yet drained
    drain,     \* [dir, todo]: the report the drain task is at, None between two
    bridgeRing,\* bridge_log
    stats,     \* the four counters
    query,     \* what the registry task is answering
    reply,     \* the answer to logs, until the next query
    snap,      \* its last answer to bridge_stats
    lines,     \* history: every line printed, with the time of the print
    drained,   \* history: every report logged
    asked      \* history: number of queries

logVars  == <<emuRing, lines>>
pipeVars == <<channel, drain, bridgeRing, stats, drained>>
askVars  == <<query, reply, snap, asked>>
vars     == <<now, alive, logVars, pipeVars, askVars>>

Idle == [pc |-> "idle"]
NoReply == [source |-> "all", tail |-> None, all |-> <<>>, got |-> <<>>]

Init ==
    /\ now = 0 /\ alive = TRUE
    /\ emuRing = <<>> /\ lines = <<>>
    /\ channel = <<>> /\ drain = None
    /\ bridgeRing = <<>> /\ drained = <<>>
    /\ stats = [c \in Counters |-> 0]
    /\ query = Idle /\ reply = NoReply
    /\ snap = [c \in Counters |-> 0]
    /\ asked = 0

\* Mutants: the ring is not bounded; a full ring refuses the new entry.
PushedUnbounded(ring, e) == Append(ring, e)
PushedRefusing(ring, e) == IF Len(ring) >= Cap THEN ring ELSE Append(ring, e)

\* push_line, and the end of the drain loop: the oldest entry makes room.
Pushed(ring, e) == Append(IF Len(ring) >= Cap THEN Tail(ring) ELSE ring, e)

Tick == now < MaxTime /\ now' = now + 1
        /\ UNCHANGED <<alive, logVars, pipeVars, askVars>>

-----------------------------------------------------------------------------
(* The writers.                                                            *)

\* A reader task has a line from stdout or stderr.
PrintLine ==
    /\ Len(lines) < MaxLines
    /\ LET l == [n |-> Len(lines) + 1, at |-> now]
       IN /\ lines' = Append(lines, l)
          /\ emuRing' = Pushed(emuRing, l)
    /\ UNCHANGED <<now, alive, pipeVars, askVars>>

\* The bridge has relayed a report and sends a copy into the channel.
Intercept(d) ==
    /\ Len(drained) + Len(channel) + (IF drain = None THEN 0 ELSE 1) < MaxReports
    /\ channel' = Append(channel, d)
    /\ UNCHANGED <<now, alive, drain, bridgeRing, stats, drained, logVars,
                   askVars>>

\* rx.recv().await.  An abort takes effect here, at the only await.
Receive ==
    /\ alive
    /\ drain = None /\ channel # <<>>
    /\ drain' = [dir |-> Head(channel), todo |-> {"reports", "bytes"}]
    /\ channel' = Tail(channel)
    /\ UNCHANGED <<now, alive, bridgeRing, stats, drained, logVars, askVars>>

\* One of the two fetch_add.  They are Relaxed, so another thread may see
\* them in either order.
Count(k) ==
    /\ drain # None /\ k \in drain.todo
    /\ stats' = [stats EXCEPT ![<<drain.dir, k>>] =
                    @ + IF k = "reports" THEN 1 ELSE ReportSize]
    /\ drain' = [drain EXCEPT !.todo = @ \ {k}]
    /\ UNCHANGED <<now, alive, channel, bridgeRing, drained, logVars, askVars>>

\* Mutant: the entry is logged before it is counted.
LogEarly ==
    /\ drain # None
    /\ LET e == [n |-> Len(drained) + 1, at |-> now, dir |-> drain.dir]
       IN /\ drained' = Append(drained, e)
          /\ bridgeRing' = Pushed(bridgeRing, e)
    /\ drain' = None
    /\ UNCHANGED <<now, alive, channel, stats, logVars, askVars>>

\* Both counted: the entry is stamped and goes into the ring.
Log ==
    /\ drain # None /\ drain.todo = {}
    /\ LET e == [n |-> Len(drained) + 1, at |-> now, dir |-> drain.dir]
       IN /\ drained' = Append(drained, e)
          /\ bridgeRing' = Pushed(bridgeRing, e)
    /\ drain' = None
    /\ UNCHANGED <<now, alive, channel, stats, logVars, askVars>>

-----------------------------------------------------------------------------
(* The registry task.                                                      *)

\* Stop: the instance leaves the map and the drain task is aborted.
StopInstance ==
    /\ query = Idle /\ alive
    /\ alive' = FALSE
    /\ UNCHANGED <<now, logVars, pipeVars, askVars>>

Ask(q) ==
    /\ query = Idle /\ alive /\ asked < MaxQueries
    /\ query' = q
    /\ asked' = asked + 1

AskLogs(s, t) ==
    /\ Ask([pc |-> "emulator", source |-> s, tail |-> t, out |-> <<>>])
    /\ reply' = NoReply
    /\ UNCHANGED <<now, alive, logVars, pipeVars, snap>>

\* A LogEntry: its time stamp, and what it stands for.
Entry(ts, s, e) == [ts |-> ts, source |-> s, of |-> e]

\* collect_logs under the lock of emu_output: a line carries no time, all of
\* them are stamped with the time of the query.
ReadEmulator ==
    /\ query.pc = "emulator"
    /\ query' = [query EXCEPT !.pc = "bridge",
                    !.out = IF query.source = "bridge" THEN <<>>
                            ELSE [i \in DOMAIN emuRing |->
                                     Entry(now, "emulator", emuRing[i])]]
    /\ UNCHANGED <<now, alive, logVars, pipeVars, reply, snap, asked>>

\* sort_by_key(ts_ms), which is stable.
Sorted(s) ==
    FlattenSeq([t \in 1..MaxTime + 1 |->
                   SelectSeq(s, LAMBDA e : e.ts = t - 1)])

\* drain(0..len - n): the last t entries.
Tailed(s, t) == IF t = None \/ Len(s) <= t THEN s
                ELSE SubSeq(s, Len(s) - t + 1, Len(s))

\* ... then under the lock of bridge_log, and the answer.
ReadBridge ==
    /\ query.pc = "bridge"
    /\ LET all == query.out \o
                  IF query.source = "emulator" THEN <<>>
                  ELSE [i \in DOMAIN bridgeRing |->
                           Entry(bridgeRing[i].at, "bridge", bridgeRing[i])]
       IN reply' = [source |-> query.source, tail |-> query.tail, all |-> all,
                    got |-> Tailed(Sorted(all), query.tail)]
    /\ query' = Idle
    /\ UNCHANGED <<now, alive, logVars, pipeVars, snap, asked>>

AskStats ==
    /\ Ask([pc |-> "stats", left |-> Counters])
    /\ reply' = NoReply
    /\ UNCHANGED <<now, alive, logVars, pipeVars, snap>>

\* Mutant: a counter is taken, not read.
LoadTaking(c) ==
    /\ query.pc = "stats" /\ c \in query.left
    /\ snap' = [snap EXCEPT ![c] = stats[c]]
    /\ stats' = [stats EXCEPT ![c] = 0]
    /\ query' = IF query.left = {c} THEN Idle
                ELSE [query EXCEPT !.left = @ \ {c}]
    /\ UNCHANGED <<now, alive, logVars, channel, drain, bridgeRing, drained,
                   reply, asked>>

\* One of the four loads of snapshot; Relaxed, so in any order.
Load(c) ==
    /\ query.pc = "stats" /\ c \in query.left
    /\ snap' = [snap EXCEPT ![c] = stats[c]]
    /\ query' = IF query.left = {c} THEN Idle
                ELSE [query EXCEPT !.left = @ \ {c}]
    /\ UNCHANGED <<now, alive, logVars, pipeVars, reply, asked>>

-----------------------------------------------------------------------------
Next ==
    \/ Tick \/ PrintLine
    \/ \E d \in Directions : Intercept(d)
    \/ Receive \/ Log \/ \E k \in {"reports", "bytes"} : Count(k)
    \/ StopInstance
    \/ \E s \in Sources, t \in Tails \cup {None} : AskLogs(s, t)
    \/ ReadEmulator \/ ReadBridge
    \/ AskStats
    \/ \E c \in Counters : Load(c)

Spec == Init /\ [][Next]_vars

-----------------------------------------------------------------------------
(* Properties.                                                             *)

Logged == [n : 1..MaxReports, at : 0..MaxTime, dir : Directions]
Line   == [n : 1..MaxLines, at : 0..MaxTime]

\* The last n entries of s.
Newest(s, n) == SubSeq(s, IF Len(s) > n THEN Len(s) - n + 1 ELSE 1, Len(s))

\* Every variable stays in its range, and each ring within its capacity.
LogsTypeOK ==
    /\ now \in 0..MaxTime /\ alive \in BOOLEAN
    /\ emuRing \in BoundedSeq(Line, Cap)
    /\ bridgeRing \in BoundedSeq(Logged, Cap)
    /\ channel \in BoundedSeq(Directions, MaxReports)
    /\ drain \in {None} \cup [dir : Directions, todo : SUBSET {"reports", "bytes"}]
    /\ \A c \in Counters : stats[c] \in Nat /\ snap[c] \in Nat
    /\ query.pc \in {"idle", "emulator", "bridge", "stats"}

\* A ring that has overflowed any number of times holds the newest Cap entries
\* in the order they were written in (generic.rs:354-362, spawn.rs:283-288).
RingsKeepNewest ==
    /\ emuRing = Newest(lines, Cap)
    /\ bridgeRing = Newest(drained, Cap)

OfDirection(s, d) == Cardinality({i \in DOMAIN s : s[i].dir = d})

\* The counters lead the log (spawn.rs:268-288): an entry is in the log only
\* after both counters of its direction have it, and they are at most the one
\* report ahead that the drain task holds.  Who reads the log first and the
\* counters afterwards never finds fewer counted than logged.
CountersLead ==
    \A d \in Directions :
       LET ahead == IF drain # None /\ drain.dir = d THEN 1 ELSE 0
       IN /\ stats[<<d, "reports">>] - OfDirection(drained, d) \in 0..ahead
          /\ stats[<<d, "bytes">>] - ReportSize * OfDirection(drained, d)
                \in 0..(ahead * ReportSize)

\* control/src/lib.rs:238-240, of the counters: "Numbers are monotonic since the
\* bridge started; subtract two snapshots to measure activity".  No load goes
\* back behind an earlier one, torn as a snapshot may be.
SnapshotsMonotone == [][\A c \in Counters : snap'[c] >= snap[c]]_vars

\* control/src/lib.rs:158, of tail: "Return at most this many recent entries".
\* Of all sources together, no entry that the tail leaves out was written
\* after one that it keeps.
TailIsRecent ==
    \A a \in ToSet(reply.all) \ ToSet(reply.got), b \in ToSet(reply.got) :
       a.of.at <= b.of.at

=============================================================================

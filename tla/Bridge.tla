------------------------------- MODULE Bridge -------------------------------
(***************************************************************************)
(* The bridges between an emulator's socket and a UHID device:             *)
(* crates/bridge/src/generic.rs (TCP, Unix stream, Unix datagram) and      *)
(* trezor.rs (UDP).  One bridge handle is started, stopped, started again  *)
(* or dropped; every start makes a generation g of its own: a UHID device  *)
(* owned by a blocking thread, a task or relay that forwards the host's    *)
(* reports to the emulator, and readers that forward what comes back.      *)
(*                                                                         *)
(* A report is its number in the order the host wrote it.  What travels    *)
(* from the emulator to the host is left out, except where it ends a task. *)
(***************************************************************************)
EXTENDS Naturals, Sequences, FiniteSetsExt

CONSTANTS
    Kinds,       \* the transports considered
    MaxStarts,   \* bound: starts of the handle
    MaxReports,  \* bound: reports the host writes to one device ...
    MaxTotal,    \* bound: ... and to all of them together
    MaxLinks     \* bound: connections one generation makes

Transports == {"tcp", "unix", "dgram", "udp"}

ASSUME BridgeAssumption ==
    /\ Kinds \subseteq Transports
    /\ MaxStarts \in Nat /\ MaxLinks \in Nat \ {0}
    /\ MaxReports \in Nat /\ MaxTotal \in Nat

Gens  == 1..MaxStarts
Links == 1..MaxLinks

VARIABLES
    kind,     \* the transport of this bridge
    op,       \* the handle: idle, connecting, stopping, dropped
    gen,      \* number of starts so far
    running,  \* the AtomicBool every task of every generation shares
    held,     \* generations whose shutdown senders the handle holds
    dev,      \* the UHID thread: none, top, polling (it has checked for
              \* shutdown in this round), gone; gone means device destroyed
    wrote,    \* reports the host wrote to the device ...
    polled,   \* ... of which the thread has read that many
    chan,     \* the uhid_read channel, from the thread to the relay
    relay,    \* host to emulator: none, waiting, connecting, up, aborting
              \* (aborted in the middle of a poll), done
    hand,     \* the first report, while the relay connects
    link,     \* number of connections made
    reader,   \* emulator to host, per connection: none, up, done
    peer,     \* the emulator's end, per connection: up, closed
    got       \* the reports the emulator received

handleVars == <<kind, op, gen, running, held>>
threadVars == <<dev, wrote, polled>>
relayVars  == <<relay, hand, link, got>>
bridgeVars == <<kind, op, gen, running, held, dev, wrote, polled, chan,
                relay, hand, link, reader, peer, got>>

\* The relay of g has dropped its end of the channel.
Deaf(g) == relay[g] = "done"

\* A wakeup for a dropped shutdown sender: tasks that wait for it see it as
\* soon as the handle has let go of g.
Told(g) == g \notin held

\* Some task of g holds a half of its connection k.
Attached(g, k) ==
    reader[g][k] = "up" \/ (relay[g] \in {"up", "aborting"} /\ link[g] = k)

Set(f, g, v) == [f EXCEPT ![g] = v]

-----------------------------------------------------------------------------
(* The handle.  start takes &mut self, as stop does: one at a time.  A     *)
(* start that finds running set, or no UHID device to be had, changes      *)
(* nothing.                                                                *)

Start ==
    /\ op = "idle" /\ ~running
    /\ gen < MaxStarts
    /\ LET g == gen + 1
       IN /\ gen' = g
          /\ held' = held \cup {g}
          /\ dev' = Set(dev, g, "top")
          /\ running' = TRUE
          /\ \/ kind = "tcp" /\ op' = "connecting"
                /\ UNCHANGED <<relay, link, reader>>
             \/ kind \in {"unix", "dgram"} /\ relay' = Set(relay, g, "waiting")
                /\ UNCHANGED <<op, link, reader>>
             \/ kind = "udp" /\ relay' = Set(relay, g, "up")
                /\ link' = Set(link, g, 1)
                /\ reader' = [reader EXCEPT ![g][1] = "up"]
                /\ UNCHANGED op
    /\ UNCHANGED <<kind, wrote, polled, chan, hand, peer, got>>

\* TCP: the connect start() awaits.  The reports written meanwhile wait in
\* the channel; both tasks go up.
Connect ==
    /\ op = "connecting" /\ op' = "idle"
    /\ relay' = Set(relay, gen, "up")
    /\ link' = Set(link, gen, 1)
    /\ reader' = [reader EXCEPT ![gen][1] = "up"]
    /\ UNCHANGED <<kind, gen, running, held, threadVars, chan, hand, peer,
                   got>>

\* start() returns the error.  running, the senders and the thread stay.
ConnectFails ==
    /\ op = "connecting" /\ op' = "idle"
    /\ relay' = Set(relay, gen, "done")
    /\ UNCHANGED <<kind, gen, running, held, threadVars, chan, hand, link,
                   reader, peer, got>>

\* Mutant: the tasks are not aborted.
StopWithoutAbort ==
    /\ op = "idle" /\ op' = "stopping"
    /\ held' = {}
    /\ UNCHANGED <<kind, gen, running, threadVars, chan, relayVars, reader,
                   peer>>

\* stop() up to its sleep: the senders are dropped and the tasks in
\* task_handles aborted.  Only the TCP transport puts its tasks there.  A
\* task that is running at the time finishes its poll first.
Stop ==
    /\ op = "idle" /\ op' = "stopping"
    /\ held' = {}
    /\ \/ /\ kind = "tcp"
          /\ relay' = [g \in Gens |-> IF relay[g] = "up" THEN "aborting"
                                      ELSE relay[g]]
          /\ reader' = [g \in Gens |-> [k \in Links |->
                           IF reader[g][k] = "up" THEN "done"
                           ELSE reader[g][k]]]
       \/ kind # "tcp" /\ UNCHANGED <<relay, reader>>
    /\ UNCHANGED <<kind, gen, running, threadVars, chan, hand, link, peer,
                   got>>

\* The 100 or 200 ms are over, and with them any poll that was under way.
StopDone ==
    /\ op = "stopping" /\ op' = "idle"
    /\ \A g \in Gens : relay[g] # "aborting"
    /\ running' = FALSE
    /\ UNCHANGED <<kind, gen, held, threadVars, chan, relayVars, reader, peer>>

\* The handle is dropped: senders go, tasks are detached, not aborted.
Drop ==
    /\ op = "idle" /\ op' = "dropped"
    /\ held' = {}
    /\ UNCHANGED <<kind, gen, running, threadVars, chan, relayVars, reader,
                   peer>>

-----------------------------------------------------------------------------
(* The blocking thread that owns the UHID device of g.                     *)

HostWrites(g) ==
    /\ dev[g] \in {"top", "polling"}
    /\ wrote[g] < MaxReports
    /\ MapThenSumSet(LAMBDA h : wrote[h], Gens) < MaxTotal
    /\ wrote' = Set(wrote, g, wrote[g] + 1)
    /\ UNCHANGED <<handleVars, dev, polled, chan, relayVars, reader, peer>>

\* Mutant: Trezor's test of the shutdown channel, for every transport.
CheckIgnoringDrop(g) ==
    /\ dev[g] = "top"
    /\ dev' = Set(dev, g, "polling")
    /\ UNCHANGED <<handleVars, wrote, polled, chan, relayVars, reader, peer>>

\* Top of the loop.  GenericBridge leaves it when the sender is gone;
\* TrezorBridge asks for a value, which nobody sends.
Check(g) ==
    /\ dev[g] = "top"
    /\ dev' = Set(dev, g, IF Told(g) /\ kind # "udp" THEN "gone"
                          ELSE "polling")
    /\ UNCHANGED <<handleVars, wrote, polled, chan, relayVars, reader, peer>>

\* Mutant: a report that finds no relay task yet is thrown away.
PollDiscarding(g) ==
    /\ dev[g] = "polling"
    /\ dev' = Set(dev, g, "top")
    /\ polled' = IF polled[g] < wrote[g] THEN Set(polled, g, polled[g] + 1)
                 ELSE polled
    /\ chan' = IF polled[g] < wrote[g] /\ relay[g] # "none"
               THEN Set(chan, g, Append(chan[g], polled[g] + 1))
               ELSE chan
    /\ UNCHANGED <<handleVars, wrote, relayVars, reader, peer>>

\* Rest of the round: one report, if there is one, into the channel.  With
\* the receiver gone the send fails and the thread ends.
Poll(g) ==
    /\ dev[g] = "polling"
    /\ \/ /\ polled[g] = wrote[g]
          /\ dev' = Set(dev, g, "top")
          /\ UNCHANGED <<polled, chan>>
       \/ /\ polled[g] < wrote[g]
          /\ polled' = Set(polled, g, polled[g] + 1)
          /\ \/ Deaf(g) /\ dev' = Set(dev, g, "gone") /\ UNCHANGED chan
             \/ /\ ~Deaf(g)
                /\ dev' = Set(dev, g, "top")
                /\ chan' = Set(chan, g, Append(chan[g], polled[g] + 1))
    /\ UNCHANGED <<handleVars, wrote, relayVars, reader, peer>>

\* /dev/uhid fails on a read or a write.
DeviceFails(g) ==
    /\ dev[g] = "polling"
    /\ dev' = Set(dev, g, "gone")
    /\ UNCHANGED <<handleVars, wrote, polled, chan, relayVars, reader, peer>>

-----------------------------------------------------------------------------
(* Host to emulator.                                                       *)

Ready(g) == chan[g] # <<>>
Take(g)  == chan' = Set(chan, g, Tail(chan[g]))
Deliver(g, r) == got' = Set(got, g, Append(got[g], r))

\* The Unix relay looks after every report whether its reader has ended, to
\* wait for the first report of a new connection then.  The end may come
\* between the write and the look.
ReaderEndsMeanwhile(g, k) ==
    /\ relay' = Set(relay, g, "waiting")
    /\ reader' = [reader EXCEPT ![g][k] = "done"]
    /\ \/ kind = "unix" /\ peer' = [peer EXCEPT ![g][k] = "closed"]
       \/ kind \in {"unix", "dgram"} /\ dev[g] = "gone" /\ UNCHANGED peer

\* The next report goes out on the current connection.
Forward(g) ==
    /\ relay[g] \in {"up", "aborting"} /\ Ready(g)
    /\ peer[g][link[g]] = "up"
    /\ Take(g)
    /\ Deliver(g, Head(chan[g]))
    /\ \/ /\ kind \in {"unix", "dgram"} /\ reader[g][link[g]] = "done"
          /\ relay' = Set(relay, g, "waiting")
          /\ UNCHANGED <<reader, peer>>
       \/ /\ kind \in {"unix", "dgram"} => reader[g][link[g]] = "up"
          /\ UNCHANGED <<relay, reader, peer>>
       \/ ReaderEndsMeanwhile(g, link[g])
    /\ UNCHANGED <<handleVars, threadVars, hand, link>>

\* The emulator has closed its end.  A stream may still take a report, which
\* is lost; a write that fails ends the TCP task and sends the Unix relay
\* back for a new connection; the UDP task logs it and goes on.
ForwardLost(g) ==
    /\ relay[g] \in {"up", "aborting"} /\ Ready(g)
    /\ peer[g][link[g]] = "closed"
    /\ Take(g)
    /\ \/ kind = "tcp" /\ relay' \in {relay, Set(relay, g, "done")}
       \/ kind = "unix" /\ \/ relay' = Set(relay, g, "waiting")
                           \/ reader[g][link[g]] = "up" /\ UNCHANGED relay
       \/ kind = "dgram" /\ relay' = Set(relay, g, "waiting")
       \/ kind = "udp" /\ UNCHANGED relay
    /\ UNCHANGED <<handleVars, threadVars, hand, link, reader, peer, got>>

\* Mutant: the first report is looked at and left in the channel.
TakeFirstPeeking(g) ==
    /\ relay[g] = "waiting" /\ Ready(g)
    /\ hand' = Set(hand, g, Head(chan[g]))
    /\ relay' = Set(relay, g, "connecting")
    /\ UNCHANGED <<handleVars, threadVars, chan, link, reader, peer, got>>

\* The Unix relay connects when the first report is there.
TakeFirst(g) ==
    /\ relay[g] = "waiting" /\ Ready(g)
    /\ Take(g)
    /\ hand' = Set(hand, g, Head(chan[g]))
    /\ relay' = Set(relay, g, "connecting")
    /\ UNCHANGED <<handleVars, threadVars, link, reader, peer, got>>

\* Connected, the first report is written and a reader spawned.
RelayConnects(g) ==
    /\ relay[g] = "connecting" /\ link[g] < MaxLinks
    /\ hand' = Set(hand, g, 0)
    /\ link' = Set(link, g, link[g] + 1)
    /\ Deliver(g, hand[g])
    /\ \/ /\ relay' = Set(relay, g, "up")
          /\ reader' = [reader EXCEPT ![g][link[g] + 1] = "up"]
          /\ UNCHANGED peer
       \/ ReaderEndsMeanwhile(g, link[g] + 1)
    /\ UNCHANGED <<handleVars, threadVars, chan>>

\* Mutant: the first report is kept for the next connection.
RelayKeepsFirst(g) ==
    /\ relay[g] = "connecting"
    /\ relay' = Set(relay, g, "waiting")
    /\ UNCHANGED <<handleVars, threadVars, chan, hand, link, reader, peer,
                   got>>

\* Connected, but the emulator closed before the first report was written.
RelayLosesFirst(g) ==
    /\ relay[g] = "connecting"
    /\ relay' = Set(relay, g, "waiting")
    /\ hand' = Set(hand, g, 0)
    /\ UNCHANGED <<handleVars, threadVars, chan, link, reader, peer, got>>

\* The connect or the bind of the client path fails: the relay gives up.
RelayFails(g) ==
    /\ relay[g] = "connecting"
    /\ relay' = Set(relay, g, "done")
    /\ hand' = Set(hand, g, 0)
    /\ running' = FALSE
    /\ UNCHANGED <<kind, op, gen, held, threadVars, chan, link, reader, peer,
                   got>>

\* The aborted task reaches the end of its poll and is dropped.
RelayAborted(g) ==
    /\ relay[g] = "aborting"
    /\ relay' = Set(relay, g, "done")
    /\ UNCHANGED <<handleVars, threadVars, chan, hand, link, reader, peer,
                   got>>

\* The thread is gone and the channel empty, or (Unix) the relay sits in its
\* select when the handle lets go of g; reports may still be queued then.
RelayEnds(g) ==
    /\ relay[g] \in {"waiting", "up"}
    /\ \/ dev[g] = "gone" /\ chan[g] = <<>>
       \/ kind \in {"unix", "dgram"} /\ Told(g)
    /\ relay' = Set(relay, g, "done")
    /\ UNCHANGED <<handleVars, threadVars, chan, hand, link, reader, peer,
                   got>>

-----------------------------------------------------------------------------
(* Emulator to host.                                                       *)

\* The emulator closes connection k, or, with UDP, dies.
PeerCloses(g, k) ==
    /\ Attached(g, k) /\ peer[g][k] = "up"
    /\ peer' = [peer EXCEPT ![g][k] = "closed"]
    /\ UNCHANGED <<handleVars, threadVars, chan, relayVars, reader>>

ReaderDone(g, k) ==
    /\ reader[g][k] = "up"
    /\ reader' = [reader EXCEPT ![g][k] = "done"]

\* End of stream, or a UDP receive refused because of a send that was.  The
\* TCP and UDP tasks clear the running flag, the Unix reader does not; a
\* datagram reader never sees the end.
ReaderEof(g, k) ==
    /\ peer[g][k] = "closed" /\ kind # "dgram"
    /\ kind = "udp" => Len(got[g]) + Len(chan[g]) < polled[g]
    /\ ReaderDone(g, k)
    /\ running' = IF kind \in {"tcp", "udp"} THEN FALSE ELSE running
    /\ UNCHANGED <<kind, op, gen, held, threadVars, chan, relayVars, peer>>

\* The TCP and UDP tasks select on the shutdown channel too.
ReaderTold(g, k) ==
    /\ kind \in {"tcp", "udp"} /\ Told(g)
    /\ ReaderDone(g, k)
    /\ UNCHANGED <<handleVars, threadVars, chan, relayVars, peer>>

\* A report of the emulator finds the thread gone: the Unix reader ends.
ReaderFindsNoDevice(g, k) ==
    /\ kind \in {"unix", "dgram"}
    /\ peer[g][k] = "up" /\ dev[g] = "gone"
    /\ ReaderDone(g, k)
    /\ UNCHANGED <<handleVars, threadVars, chan, relayVars, peer>>

-----------------------------------------------------------------------------
BridgeInit ==
    /\ kind \in Kinds
    /\ op = "idle" /\ gen = 0 /\ running = FALSE /\ held = {}
    /\ dev = [g \in Gens |-> "none"]
    /\ wrote = [g \in Gens |-> 0] /\ polled = wrote
    /\ chan = [g \in Gens |-> <<>>]
    /\ relay = [g \in Gens |-> "none"]
    /\ hand = [g \in Gens |-> 0] /\ link = hand
    /\ reader = [g \in Gens |-> [k \in Links |-> "none"]]
    /\ peer = [g \in Gens |-> [k \in Links |-> "up"]]
    /\ got = [g \in Gens |-> <<>>]

Handle == Connect \/ ConnectFails \/ StopDone
Thread(g) == Check(g) \/ Poll(g)
Relay(g) == Forward(g) \/ ForwardLost(g) \/ TakeFirst(g) \/ RelayConnects(g)
            \/ RelayLosesFirst(g) \/ RelayFails(g) \/ RelayAborted(g)
            \/ RelayEnds(g)
Reader(g, k) == ReaderEof(g, k) \/ ReaderTold(g, k)

BridgeNext ==
    \/ Start \/ Stop \/ Drop
    \/ Connect \/ ConnectFails \/ StopDone
    \/ \E g \in Gens :
          \/ HostWrites(g)
          \/ Check(g) \/ Poll(g) \/ DeviceFails(g)
          \/ Forward(g) \/ ForwardLost(g)
          \/ TakeFirst(g) \/ RelayConnects(g) \/ RelayLosesFirst(g)
          \/ RelayFails(g) \/ RelayAborted(g) \/ RelayEnds(g)
          \/ \E k \in Links :
                \/ PeerCloses(g, k)
                \/ ReaderEof(g, k) \/ ReaderTold(g, k)
                \/ ReaderFindsNoDevice(g, k)

BridgeSpec == BridgeInit /\ [][BridgeNext]_bridgeVars

\* Threads run and tokio polls ready tasks; host, emulator and owner of the
\* handle owe nothing.
BridgeFairness ==
    /\ WF_bridgeVars(Handle)
    /\ \A g \in Gens :
          /\ WF_bridgeVars(Thread(g)) /\ WF_bridgeVars(Relay(g))
          /\ WF_bridgeVars(\E k \in Links : Reader(g, k))

BridgeFairSpec == BridgeSpec /\ BridgeFairness

-----------------------------------------------------------------------------
(* Properties.                                                             *)

\* Every variable stays in its range; the channel holds reports the thread
\* has read.
BridgeTypeOK ==
    /\ kind \in Kinds
    /\ op \in {"idle", "connecting", "stopping", "dropped"}
    /\ gen \in 0..MaxStarts /\ running \in BOOLEAN /\ held \subseteq 1..gen
    /\ dev \in [Gens -> {"none", "top", "polling", "gone"}]
    /\ wrote \in [Gens -> 0..MaxReports]
    /\ \A g \in Gens : /\ polled[g] \in 0..wrote[g]
                       /\ chan[g] \in Seq(1..polled[g])
                       /\ got[g] \in Seq(1..polled[g])
    /\ relay \in [Gens -> {"none", "waiting", "connecting", "up", "aborting",
                         "done"}]
    /\ hand \in [Gens -> 0..MaxReports]
    /\ \A g \in Gens : hand[g] # 0 <=> relay[g] = "connecting"
    /\ link \in [Gens -> 0..MaxLinks]
    /\ reader \in [Gens -> [Links -> {"none", "up", "done"}]]
    /\ peer \in [Gens -> [Links -> {"up", "closed"}]]

\* Reports on their way to the emulator, in order.
OnTheWay(g) ==
    got[g] \o (IF hand[g] = 0 THEN <<>> ELSE <<hand[g]>>) \o chan[g]

\* In order (generic.rs:145-157, 251-355): over connects, reconnects, stops
\* and lost writes the emulator receives no report of a start twice and none
\* before an earlier one, and over TCP it misses none until its end is closed.
InOrder ==
    \A g \in Gens :
       LET way == OnTheWay(g)
       IN /\ \A i, j \in 1..Len(way) : i < j => way[i] < way[j]
          /\ kind = "tcp" /\ peer[g][1] = "up"
             => \A i \in 1..Len(way) : way[i] = i

\* Stop is final (generic.rs:475-489): once the stop of a TCP bridge has
\* returned, nothing the host wrote before reaches the emulator any more, not
\* even what is queued, and the next start begins with an empty channel.
StoppedIsSilent ==
    [][\A g \in Gens :
          kind = "tcp" /\ op \notin {"stopping", "dropped"} /\ got'[g] # got[g]
          => g \in held]_bridgeVars

\* Every report arrives (generic.rs:209-274): what the host writes to a TCP
\* bridge reaches the emulator, also what it writes before the connect is
\* through, unless the bridge is stopped or dropped, the device fails, or
\* the emulator refuses the connection or closes it.
ReportsArrive ==
    \A g \in Gens, r \in 1..MaxReports :
       kind = "tcp" /\ wrote[g] >= r
       ~> \/ Len(got[g]) >= r
          \/ Told(g) \/ dev[g] = "gone" \/ Deaf(g) \/ peer[g][1] = "closed"

\* The end of a GenericBridge is the end of its device (generic.rs:126-161,
\* 475-489): whether the handle is stopped or dropped, after a failed start
\* or with reports queued, and also when its emulator or relay has gone.
DeviceCloses ==
    \A g \in Gens :
       kind # "udp" /\ dev[g] # "none" /\ Told(g) ~> dev[g] = "gone"

=============================================================================

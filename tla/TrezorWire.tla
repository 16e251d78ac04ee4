----------------------------- MODULE TrezorWire -----------------------------
(* The two clients of protocol/src/trezor_debug.rs: TrezorWireClient on    *)
(* the main port and TrezorDebugLink::get_layout on the debug port.  Each  *)
(* runs one exchange at a time over a connected UDP socket: send a framed  *)
(* message, read packets until the announced length is there, or time out. *)
(* A packet stands for 64 bytes; its payload is reduced to the call it     *)
(* answers and its place in its message.  The simulator is modelled from   *)
(* what the clients expect of it.                                          *)
EXTENDS Naturals, Sequences

CONSTANTS
    None,
    Links,      \* the clients tried, out of "wire" and "debug"
    WireOps,    \* the requests tried on the main port
    MaxRounds,  \* messages recv_with_confirm reads for one call: 10
    MaxConts,   \* bound: continuation packets of an answer
    MaxCalls,   \* bound: exchanges
    MaxHarm     \* bound: packets lost and restarts of the simulator

Simple     == {"features", "ping"}   \* initialize, get_features; ping
Confirming == {"load", "pubkey"}     \* load_device, get_public_key

ASSUME WireAssumption ==
    /\ Links \subseteq {"wire", "debug"}
    /\ WireOps \subseteq Simple \cup Confirming
    /\ MaxRounds \in Nat \ {0} /\ MaxConts \in Nat \ {0}
    /\ MaxCalls \in Nat /\ MaxHarm \in Nat
    /\ None \notin [call : 1..MaxCalls, op : Confirming, acked : BOOLEAN]

VARIABLES
    link,     \* the client this behaviour is about
    helped,   \* recv_with_confirm was given a debug link
    call,     \* number of the exchange, counting from 1
    op,       \* what it asks for
    pc,       \* "idle", "first": waits for a header, "rest": for the remainder
    rounds,   \* iterations recv_with_confirm has left
    parts,    \* the packets read so far; when idle, the answer returned, <<>> for
              \* an error
    slips,    \* history: exchanges that ended with an error
    toDevice, fromDevice, \* the datagrams in the two sockets' buffers
    refused,  \* the client's socket has an ICMP error to report
    harm,     \* history: packets lost and restarts
    up,       \* the simulator listens
    flow,     \* the call whose button request it waits on, and how far that is
    out,      \* packets of its answer it has not sent yet
    pressed   \* the debug link has pressed Yes

callVars   == <<link, helped, call, op>>
readVars   == <<pc, rounds, parts, slips>>
netVars    == <<toDevice, fromDevice, refused, harm>>
deviceVars == <<up, flow, out, pressed>>
vars       == <<callVars, readVars, netVars, deviceVars>>

Init ==
    /\ link \in Links /\ helped \in BOOLEAN
    /\ call = 0 /\ op = None
    /\ pc = "idle" /\ rounds = 0 /\ parts = <<>> /\ slips = 0
    /\ toDevice = <<>> /\ fromDevice = <<>> /\ refused = FALSE /\ harm = 0
    /\ up \in BOOLEAN /\ flow = None /\ out = <<>> /\ pressed = FALSE

-----------------------------------------------------------------------------
(* The client.                                                             *)

\* send on the connected socket.  With nobody listening the datagram is gone
\* and the error waits for the next receive.
Sent(m) ==
    IF up THEN toDevice' = Append(toDevice, m) /\ UNCHANGED refused
    ELSE refused' = TRUE /\ UNCHANGED toDevice

\* An error that still waits is reported by the next send: nothing is sent.
CallRefused ==
    /\ pc = "idle" /\ call < MaxCalls /\ refused
    /\ call' = call + 1
    /\ refused' = FALSE
    /\ parts' = <<>> /\ slips' = slips + 1
    /\ UNCHANGED <<link, helped, op, pc, rounds, toDevice, fromDevice, harm,
                   deviceVars>>

Call(o) ==
    /\ pc = "idle" /\ call < MaxCalls /\ ~refused
    /\ o \in IF link = "debug" THEN {"layout"} ELSE WireOps
    /\ call' = call + 1 /\ op' = o
    /\ Sent([call |-> call + 1, op |-> o])
    /\ pc' = "first" /\ parts' = <<>>
    /\ rounds' = IF o \in Confirming THEN MaxRounds ELSE 1
    /\ UNCHANGED <<link, helped, slips, fromDevice, harm, deviceVars>>

\* The exchange ends with an error.
Fails ==
    /\ pc' = "idle" /\ parts' = <<>>
    /\ slips' = slips + 1
    /\ UNCHANGED rounds

\* Mutant: only the wait for the header is under the timeout.
TimeoutOfHeader ==
    /\ pc = "first"
    /\ fromDevice = <<>> /\ ~refused
    /\ Fails
    /\ UNCHANGED <<callVars, netVars, deviceVars>>

\* Mutant: a request that times out is sent again.
TimeoutResending ==
    /\ pc # "idle"
    /\ fromDevice = <<>> /\ ~refused
    /\ toDevice' = IF Len(toDevice) < MaxCalls
                   THEN Append(toDevice, [call |-> call, op |-> op]) ELSE toDevice
    /\ UNCHANGED <<callVars, readVars, fromDevice, refused, harm, deviceVars>>

\* 500 ms, 2 s or 5 s are over.  tokio polls the receive before the timer, so
\* only an empty socket times out.
Timeout ==
    /\ pc # "idle"
    /\ fromDevice = <<>> /\ ~refused
    /\ Fails
    /\ UNCHANGED <<callVars, netVars, deviceVars>>

ReceiveError ==
    /\ pc # "idle" /\ refused
    /\ refused' = FALSE
    /\ Fails
    /\ UNCHANGED <<callVars, toDevice, fromDevice, harm, deviceVars>>

\* Mutant: Success is acknowledged too.
AcknowledgesAll(kind) == op \in Confirming /\ kind # "failure"

\* What recv_with_confirm confirms.
Acknowledges(kind) == op \in Confirming /\ kind = "button"

\* What makes a complete message an error: a failure where the caller looks at
\* the type, on the debug port anything but a state.
Rejects(kind) ==
    \/ op \in Confirming /\ kind = "failure"
    \/ op = "layout" /\ kind # "state"

\* Mutant: one round too many.
MoreRoundsByOne == rounds > 0

\* The round of recv_with_confirm was not the last one.
MoreRounds == rounds > 1

\* The packet just read completes the message ps.
Complete(ps) ==
    LET kind == ps[1].kind
    IN \/ /\ Acknowledges(kind)
          /\ Sent([call |-> call, op |-> "ack"])
          /\ pressed' = (pressed \/ (helped /\ up))
          /\ rounds' = rounds - 1
          /\ IF MoreRounds
             THEN pc' = "first" /\ parts' = <<>> /\ UNCHANGED slips
             ELSE pc' = "idle" /\ parts' = <<>> /\ slips' = slips + 1
          /\ UNCHANGED <<up, flow, out>>
       \/ /\ ~Acknowledges(kind) /\ Rejects(kind)
          /\ Fails
          /\ UNCHANGED <<toDevice, refused, deviceVars>>
       \/ /\ ~Acknowledges(kind) /\ ~Rejects(kind)
          /\ pc' = "idle" /\ parts' = ps
          /\ UNCHANGED <<rounds, slips, toDevice, refused, deviceVars>>

Reads(ps) ==
    /\ fromDevice' = Tail(fromDevice)
    /\ IF Len(ps) > ps[1].conts THEN Complete(ps)
       ELSE /\ pc' = "rest" /\ parts' = ps
            /\ UNCHANGED <<rounds, slips, toDevice, refused, deviceVars>>
    /\ UNCHANGED <<callVars, harm>>

\* Mutant: any packet may open a message.
ReceiveAnyFirst ==
    /\ pc = "first" /\ fromDevice # <<>> /\ ~refused
    /\ Reads(<<Head(fromDevice)>>)

\* A packet with the magic of a header, and its length, opens a message.
ReceiveFirst ==
    /\ pc = "first" /\ fromDevice # <<>> /\ ~refused
    /\ Head(fromDevice).part = 0
    /\ Reads(<<Head(fromDevice)>>)

\* Any other packet is an error; it is gone.
ReceiveStray ==
    /\ pc = "first" /\ fromDevice # <<>> /\ ~refused
    /\ Head(fromDevice).part # 0
    /\ fromDevice' = Tail(fromDevice)
    /\ Fails
    /\ UNCHANGED <<callVars, toDevice, refused, harm, deviceVars>>

\* A continuation.  Nothing tells a header from a continuation here: the wire
\* client does not look at the packet and the debug link only at its first
\* byte, which is the same.
ReceiveRest ==
    /\ pc = "rest" /\ fromDevice # <<>> /\ ~refused
    /\ Reads(Append(parts, Head(fromDevice)))

-----------------------------------------------------------------------------
(* The simulator and the network.                                          *)

Answer(c, kind, conts) ==
    [p \in 1..conts + 1 |->
        [call |-> c, kind |-> kind, part |-> p - 1, conts |-> conts]]

\* The answers that end the call c for o.
Final(c, o) ==
    CASE o = "ping"     -> {Answer(c, "success", 0)}
      [] o = "features" -> {Answer(c, "features", n) : n \in 1..MaxConts}
      [] o = "layout"   -> {Answer(c, "state", n) : n \in 1..MaxConts}
      [] o = "load"     -> {Answer(c, k, 0) : k \in {"success", "failure"}}
      [] o = "pubkey"   -> {Answer(c, "failure", 0)}
                           \cup {Answer(c, "pubkey", n) : n \in 1..MaxConts}

\* It asks for a button, or ends the call.
Proceeds(c, o) ==
    \/ /\ o \in Confirming
       /\ out' = Answer(c, "button", 0)
       /\ flow' = [call |-> c, op |-> o, acked |-> FALSE]
    \/ /\ out' \in Final(c, o)
       /\ flow' = None

\* It takes the next message; a new request ends what it was waiting for, and
\* an acknowledgement nothing waits for is a failure.
DeviceTakes ==
    /\ up /\ out = <<>> /\ toDevice # <<>>
    /\ toDevice' = Tail(toDevice)
    /\ LET m == Head(toDevice)
       IN \/ m.op # "ack" /\ Proceeds(m.call, m.op)
          \/ /\ m.op = "ack" /\ flow # None /\ flow' = [flow EXCEPT !.acked = TRUE]
             /\ UNCHANGED out
          \/ /\ m.op = "ack" /\ flow = None /\ out' = Answer(m.call, "failure", 0)
             /\ UNCHANGED flow
    /\ UNCHANGED <<callVars, readVars, fromDevice, refused, harm, up, pressed>>

DeviceConfirmed ==
    /\ up /\ out = <<>>
    /\ flow # None /\ flow.acked /\ pressed
    /\ pressed' = FALSE
    /\ Proceeds(flow.call, flow.op)
    /\ UNCHANGED <<callVars, readVars, netVars, up>>

DeviceSends ==
    /\ up /\ out # <<>>
    /\ fromDevice' = Append(fromDevice, Head(out))
    /\ out' = Tail(out)
    /\ UNCHANGED <<callVars, readVars, toDevice, refused, harm, up, flow, pressed>>

DeviceBoots ==
    /\ ~up /\ up' = TRUE
    /\ UNCHANGED <<callVars, readVars, netVars, flow, out, pressed>>

\* A full buffer on either side.
Lose ==
    /\ harm < MaxHarm /\ harm' = harm + 1
    /\ \/ /\ toDevice # <<>> /\ toDevice' = Tail(toDevice)
          /\ UNCHANGED out
       \/ /\ out # <<>> /\ out' = Tail(out)
          /\ UNCHANGED toDevice
    /\ UNCHANGED <<callVars, readVars, fromDevice, refused, up, flow, pressed>>

DeviceDies ==
    /\ up /\ harm < MaxHarm /\ harm' = harm + 1
    /\ up' = FALSE
    /\ toDevice' = <<>> /\ out' = <<>> /\ flow' = None /\ pressed' = FALSE
    /\ UNCHANGED <<callVars, readVars, fromDevice, refused>>

-----------------------------------------------------------------------------
ClientStep ==
    Timeout \/ ReceiveError \/ ReceiveFirst \/ ReceiveStray \/ ReceiveRest

Next ==
    \/ CallRefused
    \/ \E o \in WireOps \cup {"layout"} : Call(o)
    \/ Timeout \/ ReceiveError \/ ReceiveFirst \/ ReceiveStray \/ ReceiveRest
    \/ DeviceTakes \/ DeviceConfirmed \/ DeviceSends \/ DeviceBoots
    \/ Lose \/ DeviceDies

\* The caller polls its exchange.  The simulator and the caller owe nothing.
Spec == Init /\ [][Next]_vars /\ WF_vars(ClientStep)

-----------------------------------------------------------------------------
(* Properties.                                                             *)

Kinds  == {"success", "failure", "features", "pubkey", "state", "button"}
Packet == [call : 1..MaxCalls, kind : Kinds, part : 0..MaxConts,
           conts : 0..MaxConts]
Ops    == Simple \cup Confirming \cup {"layout"}

\* Every variable stays in its range; the rounds of a call stay in theirs.
WireTypeOK ==
    /\ link \in Links /\ helped \in BOOLEAN
    /\ call \in 0..MaxCalls /\ op \in Ops \cup {None}
    /\ pc \in {"idle", "first", "rest"}
    /\ rounds \in 0..MaxRounds /\ (pc # "idle" => rounds > 0)
    /\ parts \in Seq(Packet)
    /\ slips \in 0..call
    /\ toDevice \in Seq([call : 1..MaxCalls, op : Ops \cup {"ack"}])
    /\ fromDevice \in Seq(Packet) /\ out \in Seq(Packet)
    /\ refused \in BOOLEAN /\ harm \in 0..MaxHarm
    /\ up \in BOOLEAN /\ pressed \in BOOLEAN
    /\ flow \in [call : 1..MaxCalls, op : Confirming, acked : BOOLEAN] \cup {None}

\* What a client puts together is one message, in order and from its start
\* (trezor_debug.rs:146-181, 297-311, 352-365), through any timeouts in the
\* middle of earlier messages, as long as no packet is lost.
MessageIsWhole ==
    harm = 0 =>
       \A i \in DOMAIN parts :
          parts[i] = [parts[1] EXCEPT !.part = i - 1]

\* Nothing in a packet says which request it answers.  An answer that is read
\* lags behind its request by no more calls than have ended with an error
\* before; a caller whose calls all succeeded reads, and confirms, only what
\* belongs to the call under way.
LagBounded ==
    harm = 0 /\ parts # <<>> => parts[1].call + slips >= call

\* Only what was asked for is confirmed (trezor_debug.rs:318-330): until a call
\* has ended with an error, a ButtonAck finds the simulator waiting for it, in
\* the call it was sent in.
AcksExpected ==
    harm = 0 /\ slips = 0 =>
       \A i \in DOMAIN toDevice :
          toDevice[i].op = "ack" =>
             flow # None /\ ~flow.acked /\ flow.call = toDevice[i].call

\* Every exchange ends (trezor_debug.rs:138-143, 289-337, 369-371), whatever is
\* lost and however often the simulator asks for a button.
ExchangeEnds == pc # "idle" ~> pc = "idle"

=============================================================================

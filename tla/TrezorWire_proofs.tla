--------------------------- MODULE TrezorWire_proofs ---------------------------
(***************************************************************************)
(* Theorems about module TrezorWire, for any number of calls, rounds and   *)
(* continuation packets: type correctness, that what a client puts         *)
(* together is one message, how far the answers it reads may lag behind    *)
(* its calls, and that an acknowledgement finds the simulator waiting.     *)
(***************************************************************************)
EXTENDS TrezorWire, Integers, SequenceTheorems, TLAPS

USE DEF callVars, netVars, deviceVars

-----------------------------------------------------------------------------
(* Types, and the shape of what a client holds: nothing while it waits for *)
(* a header, less than the announced length while it waits for the rest.   *)

Message == [call : 1..MaxCalls, op : Ops \cup {"ack"}]
Flow    == [call : 1..MaxCalls, op : Confirming, acked : BOOLEAN]

PartsShape ==
    /\ pc = "first" => parts = <<>>
    /\ pc = "rest" => parts # <<>> /\ Len(parts) <= parts[1].conts

TypeInv ==
    /\ WireTypeOK
    /\ pc # "idle" => slips < call
    /\ PartsShape

LEMMA AnswerTypes ==
    ASSUME NEW c \in 1..MaxCalls, NEW kind \in Kinds, NEW n \in 0..MaxConts
    PROVE  /\ Answer(c, kind, n) \in Seq(Packet)
           /\ Len(Answer(c, kind, n)) = n + 1
           /\ \A j \in 1..n + 1 :
                 Answer(c, kind, n)[j] =
                    [call |-> c, kind |-> kind, part |-> j - 1, conts |-> n]
  <1>1. n \in Nat
    BY WireAssumption DEF WireAssumption
  <1>2. Answer(c, kind, n) \in [1..n + 1 -> Packet]
    BY <1>1, WireAssumption DEF WireAssumption, Answer, Packet
  <1>3. n + 1 \in Nat
    BY <1>1
  <1>4. Answer(c, kind, n) \in Seq(Packet)
    BY <1>2, <1>3
  <1>5. Len(Answer(c, kind, n)) = n + 1
    BY <1>1, <1>2, <1>3
  <1> QED BY <1>4, <1>5, <1>1 DEF Answer

\* Whatever the simulator answers is one whole message of its call.
LEMMA AnswersAre ==
    ASSUME TypeInv, NEW c \in 1..MaxCalls, NEW o \in Ops, Proceeds(c, o)
    PROVE  \E kind \in Kinds, n \in 0..MaxConts :
              /\ out' = Answer(c, kind, n)
              /\ \/ kind = "button" /\ o \in Confirming
                    /\ flow' = [call |-> c, op |-> o, acked |-> FALSE]
                 \/ kind # "button" /\ flow' = None
  <1>1. CASE /\ o \in Confirming
             /\ out' = Answer(c, "button", 0)
             /\ flow' = [call |-> c, op |-> o, acked |-> FALSE]
    BY <1>1, WireAssumption DEF WireAssumption, Kinds
  <1>2. CASE out' \in Final(c, o) /\ flow' = None
    <2>1. 0 \in 0..MaxConts /\ 1..MaxConts \subseteq 0..MaxConts
      BY WireAssumption DEF WireAssumption
    <2>2. \E kind \in Kinds \ {"button"}, n \in 0..MaxConts :
              out' = Answer(c, kind, n)
      <3>1. CASE o = "ping"
        BY <1>2, <2>1, <3>1 DEF Final, Kinds
      <3>2. CASE o = "features"
        BY <1>2, <2>1, <3>2 DEF Final, Kinds
      <3>3. CASE o = "layout"
        BY <1>2, <2>1, <3>3 DEF Final, Kinds
      <3>4. CASE o = "load"
        BY <1>2, <2>1, <3>4 DEF Final, Kinds
      <3>5. CASE o = "pubkey"
        BY <1>2, <2>1, <3>5 DEF Final, Kinds
      <3> QED BY <3>1, <3>2, <3>3, <3>4, <3>5 DEF Ops, Simple, Confirming
    <2> QED BY <1>2, <2>2
  <1> QED BY <1>1, <1>2 DEF Proceeds

\* The packets of a reading client: the one it reads extends what it holds.
LEMMA ReadTypes ==
    ASSUME TypeInv, fromDevice # <<>>
    PROVE  /\ Head(fromDevice) \in Packet
           /\ Tail(fromDevice) \in Seq(Packet)
           /\ <<Head(fromDevice)>> \in Seq(Packet)
           /\ Append(parts, Head(fromDevice)) \in Seq(Packet)
  BY HeadTailProperties, AppendProperties DEF TypeInv, WireTypeOK

\* What Sent does to the sockets.
LEMMA SentTypes ==
    ASSUME TypeInv, NEW m \in Message, Sent(m)
    PROVE  /\ toDevice' \in Seq(Message) /\ refused' \in BOOLEAN
           /\ \/ toDevice' = Append(toDevice, m) /\ refused' = refused
              \/ toDevice' = toDevice /\ refused' = TRUE
  <1>1. toDevice \in Seq(Message) /\ refused \in BOOLEAN
    BY DEF TypeInv, WireTypeOK, Message
  <1>2. CASE toDevice' = Append(toDevice, m) /\ refused' = refused
    BY <1>1, <1>2, AppendProperties
  <1>3. CASE toDevice' = toDevice /\ refused' = TRUE
    BY <1>1, <1>3
  <1>4. \/ toDevice' = Append(toDevice, m) /\ refused' = refused
        \/ toDevice' = toDevice /\ refused' = TRUE
    BY Zenon DEF Sent
  <1> QED BY <1>2, <1>3, <1>4

LEMMA FirstOf ==
    ASSUME NEW ps \in Seq(Packet), ps # <<>>
    PROVE  ps[1] \in Packet /\ ps[1].conts \in Nat /\ Len(ps) \in Nat \ {0}
  <1>1. Len(ps) \in Nat \ {0}
    BY EmptySeq
  <1>2. ps[1] \in Packet
    BY <1>1, ElementOfSeq
  <1> QED BY <1>1, <1>2, WireAssumption DEF WireAssumption, Packet

\* A packet read leaves the message unfinished, makes it an error, a round of
\* confirmation or the answer.
LEMMA ReadsTypes ==
    ASSUME TypeInv, pc # "idle", fromDevice # <<>>,
           NEW ps \in Seq(Packet), ps # <<>>, Reads(ps)
    PROVE  TypeInv'
  <1>1. /\ fromDevice' \in Seq(Packet)
        /\ UNCHANGED <<callVars, harm>>
        /\ ps[1].conts \in Nat /\ Len(ps) \in Nat
    BY ReadTypes, FirstOf DEF Reads
  <1>2. [call |-> call, op |-> "ack"] \in Message
    BY WireAssumption DEF WireAssumption, TypeInv, WireTypeOK, Message
  <1>3. CASE ~(Len(ps) > ps[1].conts)
    <2>1. UNCHANGED <<rounds, slips, toDevice, refused, deviceVars>>
          /\ pc' = "rest" /\ parts' = ps
      BY <1>3 DEF Reads
    <2> QED
      BY <1>1, <1>3, <2>1, SMTT(30) DEF TypeInv, WireTypeOK, PartsShape
  <1>4. CASE Complete(ps) /\ Acknowledges(ps[1].kind)
    <2>1. toDevice' \in Seq(Message) /\ refused' \in BOOLEAN
      BY <1>2, <1>4, SentTypes DEF Complete
    <2>2. rounds \in Nat /\ rounds > 0 /\ rounds <= MaxRounds
      BY WireAssumption DEF WireAssumption, TypeInv, WireTypeOK
    <2>3. pressed' \in BOOLEAN
      BY <1>4 DEF Complete, TypeInv, WireTypeOK
    <2>4. /\ parts' = <<>> /\ rounds' = rounds - 1
          /\ UNCHANGED <<up, flow, out>>
          /\ \/ rounds > 1 /\ pc' = "first" /\ UNCHANGED slips
             \/ pc' = "idle" /\ slips' = slips + 1
      BY <1>4 DEF Complete, MoreRounds
    <2>5. slips' \in 0..call /\ (pc' # "idle" => slips' < call')
      BY <1>1, <2>4, WireAssumption, SMTT(30)
      DEF WireAssumption, TypeInv, WireTypeOK
    <2>6. rounds' \in 0..MaxRounds /\ (pc' # "idle" => rounds' > 0)
      BY <2>2, <2>4, WireAssumption DEF WireAssumption
    <2> QED
      BY <1>1, <2>1, <2>3, <2>4, <2>5, <2>6
      DEF TypeInv, WireTypeOK, PartsShape, Message
  <1>5. CASE Complete(ps) /\ ~Acknowledges(ps[1].kind)
    <2>1. /\ pc' = "idle" /\ (parts' = <<>> \/ parts' = ps)
          /\ slips' \in {slips, slips + 1}
          /\ UNCHANGED <<rounds, toDevice, refused, deviceVars>>
      BY <1>5 DEF Complete, Fails
    <2>2. slips' \in 0..call
      BY <2>1, WireAssumption DEF WireAssumption, TypeInv, WireTypeOK
    <2>3. parts' \in Seq(Packet)
      BY <2>1, EmptySeq
    <2> QED
      BY <1>1, <2>1, <2>2, <2>3 DEF TypeInv, WireTypeOK, PartsShape
  <1> QED BY <1>3, <1>4, <1>5 DEF Reads

LEMMA TypesInit == ASSUME Init PROVE TypeInv
  <1>1. /\ call \in 0..MaxCalls /\ rounds \in 0..MaxRounds
        /\ slips \in 0..call /\ harm \in 0..MaxHarm
    BY WireAssumption DEF WireAssumption, Init
  <1>2. /\ refused \in BOOLEAN /\ up \in BOOLEAN /\ pressed \in BOOLEAN
        /\ helped \in BOOLEAN
    BY DEF Init
  <1>3. WireTypeOK
    BY <1>1, <1>2 DEF Init, WireTypeOK
  <1> QED BY <1>3 DEF Init, TypeInv, PartsShape

LEMMA TypesStep == ASSUME TypeInv, [Next]_vars PROVE TypeInv'
  <1>1. CASE UNCHANGED vars
    BY <1>1 DEF vars, readVars, TypeInv, WireTypeOK, PartsShape
  <1>2. CASE CallRefused
    <2>1. /\ call' \in 0..MaxCalls /\ slips' \in 0..call'
      BY <1>2, WireAssumption
      DEF WireAssumption, CallRefused, TypeInv, WireTypeOK
    <2>2. /\ parts' = <<>> /\ parts' \in Seq(Packet)
          /\ pc' = "idle" /\ refused' \in BOOLEAN
          /\ UNCHANGED <<link, helped, op, pc, rounds, toDevice, fromDevice,
                         harm, deviceVars>>
      BY <1>2, EmptySeq DEF CallRefused
    <2> QED BY <2>1, <2>2 DEF TypeInv, WireTypeOK, PartsShape
  <1>3. ASSUME NEW o \in WireOps \cup {"layout"}, Call(o) PROVE TypeInv'
    <2>1. o \in Ops /\ call + 1 \in 1..MaxCalls
      BY <1>3, WireAssumption
      DEF WireAssumption, Call, Ops, TypeInv, WireTypeOK
    <2>2. toDevice' \in Seq(Message) /\ refused' \in BOOLEAN
      BY <1>3, <2>1, SentTypes DEF Call, Message
    <2> QED
      BY <1>3, <2>1, <2>2, WireAssumption
      DEF WireAssumption, Call, TypeInv, WireTypeOK, PartsShape, Message
  <1>4. CASE Timeout \/ ReceiveError
    <2>1. /\ pc' = "idle" /\ parts' = <<>> /\ slips' = slips + 1
          /\ refused' \in {refused, FALSE}
          /\ UNCHANGED <<callVars, rounds, toDevice, fromDevice, harm,
                         deviceVars>>
      BY <1>4 DEF Timeout, ReceiveError, Fails
    <2>2. slips' \in 0..call' /\ parts' \in Seq(Packet)
      BY <1>4, <2>1, WireAssumption
      DEF WireAssumption, Timeout, ReceiveError, TypeInv, WireTypeOK
    <2>3. refused' \in BOOLEAN
      BY <2>1 DEF TypeInv, WireTypeOK
    <2> QED BY <2>1, <2>2, <2>3 DEF TypeInv, WireTypeOK, PartsShape
  <1>5. CASE ReceiveFirst
    BY <1>5, ReadTypes, ReadsTypes DEF ReceiveFirst
  <1>6. CASE ReceiveStray
    BY <1>6, ReadTypes
    DEF ReceiveStray, Fails, TypeInv, WireTypeOK, PartsShape
  <1>7. CASE ReceiveRest
    <2>1. /\ Append(parts, Head(fromDevice)) \in Seq(Packet)
          /\ Append(parts, Head(fromDevice)) # <<>>
      <3>1. Head(fromDevice) \in Packet /\ parts \in Seq(Packet)
        BY <1>7, ReadTypes DEF ReceiveRest, TypeInv, WireTypeOK
      <3> QED BY <3>1, AppendProperties
    <2> QED BY <1>7, <2>1, ReadsTypes DEF ReceiveRest
  <1>8. CASE DeviceTakes
    <2>1. /\ Head(toDevice) \in Message /\ toDevice' \in Seq(Message)
      BY <1>8, HeadTailProperties
      DEF DeviceTakes, TypeInv, WireTypeOK, Message
    <2>2. out' \in Seq(Packet) /\ flow' \in Flow \cup {None}
      <3>1. ASSUME Head(toDevice).op # "ack",
                   Proceeds(Head(toDevice).call, Head(toDevice).op)
            PROVE  out' \in Seq(Packet) /\ flow' \in Flow \cup {None}
        <4>1. /\ Head(toDevice).call \in 1..MaxCalls
              /\ Head(toDevice).op \in Ops
          BY <2>1, <3>1 DEF Message
        <4>2. PICK kind \in Kinds, n \in 0..MaxConts :
                  /\ out' = Answer(Head(toDevice).call, kind, n)
                  /\ \/ /\ Head(toDevice).op \in Confirming
                        /\ flow' = [call |-> Head(toDevice).call,
                                    op |-> Head(toDevice).op,
                                    acked |-> FALSE]
                     \/ flow' = None
          BY <3>1, <4>1, AnswersAre
        <4>3. out' \in Seq(Packet)
          BY <4>1, <4>2, AnswerTypes
        <4>4. \A o \in Confirming :
                 [call |-> Head(toDevice).call, op |-> o, acked |-> FALSE]
                    \in Flow
          BY <4>1 DEF Flow
        <4> QED BY <4>2, <4>3, <4>4
      <3>2. ASSUME flow # None, flow' = [flow EXCEPT !.acked = TRUE],
                   UNCHANGED out
            PROVE  out' \in Seq(Packet) /\ flow' \in Flow \cup {None}
        BY <3>2 DEF TypeInv, WireTypeOK, Flow
      <3>3. ASSUME out' = Answer(Head(toDevice).call, "failure", 0),
                   UNCHANGED flow
            PROVE  out' \in Seq(Packet) /\ flow' \in Flow \cup {None}
        <4>1. 0 \in 0..MaxConts /\ Head(toDevice).call \in 1..MaxCalls
          BY <2>1, WireAssumption DEF WireAssumption, Message
        <4>2. out' \in Seq(Packet)
          BY <3>3, <4>1, AnswerTypes DEF Kinds
        <4> QED BY <3>3, <4>2 DEF TypeInv, WireTypeOK, Flow
      <3> QED BY <1>8, <3>1, <3>2, <3>3 DEF DeviceTakes
    <2> QED
      BY <1>8, <2>1, <2>2
      DEF DeviceTakes, readVars, TypeInv, WireTypeOK, PartsShape, Message, Flow
  <1>9. CASE DeviceConfirmed
    <2>1. flow.call \in 1..MaxCalls /\ flow.op \in Ops
      BY <1>9 DEF DeviceConfirmed, TypeInv, WireTypeOK, Ops
    <2>2. out' \in Seq(Packet) /\ flow' \in Flow \cup {None}
      <3>1. PICK kind \in Kinds, n \in 0..MaxConts :
                /\ out' = Answer(flow.call, kind, n)
                /\ \/ /\ flow.op \in Confirming
                      /\ flow' = [call |-> flow.call, op |-> flow.op,
                                  acked |-> FALSE]
                   \/ flow' = None
        BY <1>9, <2>1, AnswersAre DEF DeviceConfirmed
      <3>2. out' \in Seq(Packet)
        BY <2>1, <3>1, AnswerTypes
      <3>3. \A o \in Confirming :
               [call |-> flow.call, op |-> o, acked |-> FALSE] \in Flow
        BY <2>1 DEF Flow
      <3> QED BY <3>1, <3>2, <3>3
    <2> QED
      BY <1>9, <2>2
      DEF DeviceConfirmed, readVars, TypeInv, WireTypeOK, PartsShape, Flow
  <1>10. CASE DeviceSends
    <2>1. out' \in Seq(Packet) /\ fromDevice' \in Seq(Packet)
      BY <1>10, HeadTailProperties, AppendProperties
      DEF DeviceSends, TypeInv, WireTypeOK
    <2> QED
      BY <1>10, <2>1
      DEF DeviceSends, readVars, TypeInv, WireTypeOK, PartsShape
  <1>11. CASE DeviceBoots
    BY <1>11 DEF DeviceBoots, readVars, TypeInv, WireTypeOK, PartsShape
  <1>12. CASE Lose
    <2>1. out' \in Seq(Packet) /\ toDevice' \in Seq(Message)
      <3>1. out \in Seq(Packet) /\ toDevice \in Seq(Message)
        BY DEF TypeInv, WireTypeOK, Message
      <3> QED BY <1>12, <3>1, HeadTailProperties DEF Lose
    <2>2. harm' \in 0..MaxHarm
      BY <1>12, WireAssumption DEF WireAssumption, Lose, TypeInv, WireTypeOK
    <2> QED
      BY <1>12, <2>1, <2>2
      DEF Lose, readVars, TypeInv, WireTypeOK, PartsShape, Message
  <1>13. CASE DeviceDies
    <2>1. harm' \in 0..MaxHarm
      BY <1>13, WireAssumption
      DEF WireAssumption, DeviceDies, TypeInv, WireTypeOK
    <2>2. /\ out' = <<>> /\ toDevice' = <<>> /\ flow' = None
          /\ up' \in BOOLEAN /\ pressed' \in BOOLEAN
          /\ UNCHANGED <<callVars, readVars, fromDevice, refused>>
      BY <1>13 DEF DeviceDies
    <2>3. out' \in Seq(Packet) /\ toDevice' \in Seq(Message)
      BY <2>2
    <2> QED
      BY <2>1, <2>2, <2>3
      DEF readVars, TypeInv, WireTypeOK, PartsShape, Message
  <1> QED
    BY <1>1, <1>2, <1>3, <1>4, <1>5, <1>6, <1>7, <1>8, <1>9, <1>10, <1>11,
       <1>12, <1>13
    DEF Next

LEMMA TypesHold == Spec => []TypeInv
  <1>1. TypeInv /\ [Next]_vars => TypeInv'
    BY TypesStep
  <1> QED BY TypesInit, <1>1, PTL DEF Spec

\* Every variable of a client and its link keeps its type, and no call has
\* more rounds or errors than it can have.
THEOREM WireTypes == Spec => []WireTypeOK
  <1>1. TypeInv => WireTypeOK
    BY DEF TypeInv
  <1> QED BY <1>1, TypesHold, PTL

-----------------------------------------------------------------------------
(* Streams of packets.  What the simulator has sent and will send, in       *)
(* order, is the tail of a sequence of whole messages.                      *)

Closes(x) == x.part = x.conts

\* y may come after x: the next packet of its message, or a header.
Follows(x, y) ==
    \/ Closes(x) /\ y.part = 0
    \/ ~Closes(x) /\ y = [x EXCEPT !.part = x.part + 1]

Fluent(s) ==
    /\ \A j \in 1..Len(s) - 1 : Follows(s[j], s[j + 1])
    /\ s # <<>> => Closes(s[Len(s)])

Drop(s, m) == SubSeq(s, m + 1, Len(s))

LEMMA DropProperties ==
    ASSUME NEW s \in Seq(Packet), NEW m \in 0..Len(s)
    PROVE  /\ Drop(s, m) \in Seq(Packet)
           /\ Len(Drop(s, m)) = Len(s) - m
           /\ \A j \in 1..Len(s) - m :
                 j + m \in 1..Len(s) /\ Drop(s, m)[j] = s[j + m]
  <1>1. Len(s) \in Nat /\ \A i \in m + 1..Len(s) : s[i] \in Packet
    BY LenProperties, ElementOfSeq
  <1>2. /\ SubSeq(s, m + 1, Len(s)) \in Seq(Packet)
        /\ Len(SubSeq(s, m + 1, Len(s))) =
              IF m + 1 <= Len(s) THEN Len(s) - (m + 1) + 1 ELSE 0
        /\ \A i \in 1..Len(s) - (m + 1) + 1 :
              SubSeq(s, m + 1, Len(s))[i] = s[m + 1 + i - 1]
    BY <1>1, SubSeqProperties
  <1>3. \A j \in 1..Len(s) - m : j + m \in 1..Len(s)
    BY <1>1
  <1> QED BY <1>1, <1>2, <1>3 DEF Drop

LEMMA FluentDrop ==
    ASSUME NEW s \in Seq(Packet), NEW m \in 0..Len(s), Fluent(s)
    PROVE  Fluent(Drop(s, m))
  <1> DEFINE d == Drop(s, m)
  <1>1. /\ d \in Seq(Packet) /\ Len(s) \in Nat /\ Len(d) = Len(s) - m
        /\ \A j \in 1..Len(s) - m : d[j] = s[j + m]
    BY DropProperties, LenProperties
  <1> HIDE DEF d
  <1>2. ASSUME NEW j \in 1..Len(d) - 1 PROVE Follows(d[j], d[j + 1])
    <2>1. /\ j \in 1..Len(s) - m /\ j + 1 \in 1..Len(s) - m
          /\ j + m \in 1..Len(s) - 1 /\ (j + 1) + m = (j + m) + 1
      BY <1>1
    <2>2. d[j] = s[j + m] /\ d[j + 1] = s[(j + m) + 1]
      BY <1>1, <2>1
    <2> QED BY <2>1, <2>2 DEF Fluent
  <1>3. d # <<>> => Closes(d[Len(d)])
    <2>1. d # <<>> => Len(d) \in 1..Len(s) - m /\ s # <<>>
      BY <1>1, EmptySeq
    <2>2. d # <<>> => d[Len(d)] = s[Len(s)]
      BY <1>1, <2>1
    <2> QED BY <2>1, <2>2 DEF Fluent
  <1> QED BY <1>2, <1>3 DEF Fluent, d

LEMMA FluentAnswer ==
    ASSUME NEW s \in Seq(Packet), Fluent(s),
           NEW c \in 1..MaxCalls, NEW kind \in Kinds, NEW n \in 0..MaxConts
    PROVE  Fluent(s \o Answer(c, kind, n))
  <1> DEFINE a == Answer(c, kind, n)
             r == s \o a
  <1>1. /\ n \in Nat /\ a \in Seq(Packet) /\ Len(a) = n + 1
        /\ \A j \in 1..n + 1 : a[j] = [call |-> c, kind |-> kind,
                                       part |-> j - 1, conts |-> n]
    BY AnswerTypes, WireAssumption DEF WireAssumption
  <1> HIDE DEF a
  <1>2. /\ r \in Seq(Packet) /\ Len(r) = Len(s) + n + 1 /\ Len(s) \in Nat
        /\ \A j \in 1..Len(s) : r[j] = s[j]
        /\ \A j \in Len(s) + 1..Len(s) + n + 1 : r[j] = a[j - Len(s)]
    <2>1. /\ r \in Seq(Packet) /\ Len(r) = Len(s) + Len(a)
          /\ \A i \in 1..Len(s) + Len(a) :
                r[i] = IF i <= Len(s) THEN s[i] ELSE a[i - Len(s)]
      BY <1>1, ConcatProperties
    <2>2. Len(s) \in Nat
      BY LenProperties
    <2> HIDE DEF r
    <2> QED BY <1>1, <2>1, <2>2, SMTT(30)
  <1> HIDE DEF r
  <1>3. ASSUME NEW j \in 1..Len(r) - 1 PROVE Follows(r[j], r[j + 1])
    <2>1. CASE j < Len(s)
      <3>1. j \in 1..Len(s) - 1 /\ r[j] = s[j] /\ r[j + 1] = s[j + 1]
        BY <1>2, <2>1
      <3> QED BY <3>1 DEF Fluent
    <2>2. CASE j = Len(s)
      <3>1. r[j] = s[Len(s)] /\ s # <<>>
        BY <1>2, <2>2
      <3>2. r[j + 1] = a[1]
        BY <1>2, <2>2
      <3>3. a[1].part = 0
        BY <1>1
      <3> QED BY <3>1, <3>2, <3>3 DEF Fluent, Follows
    <2>3. CASE j > Len(s)
      <3> DEFINE k == j - Len(s)
      <3>1. /\ k \in 1..n /\ k + 1 \in 1..n + 1 /\ k \in 1..n + 1
            /\ j + 1 - Len(s) = k + 1
        BY <1>1, <1>2, <2>3
      <3>2. r[j] = a[k] /\ r[j + 1] = a[k + 1]
        <4>1. /\ j \in Len(s) + 1..Len(s) + n + 1
              /\ j + 1 \in Len(s) + 1..Len(s) + n + 1
          BY <1>1, <1>2, <2>3
        <4> QED BY <1>2, <3>1, <4>1, SMTT(30)
      <3> HIDE DEF k
      <3>3. a[k] = [call |-> c, kind |-> kind, part |-> k - 1, conts |-> n]
        BY <1>1, <3>1
      <3>4. a[k + 1] = [call |-> c, kind |-> kind, part |-> k, conts |-> n]
        BY <1>1, <3>1
      <3>5. ~Closes(a[k])
        BY <1>1, <3>1, <3>3 DEF Closes
      <3>6. a[k + 1] = [a[k] EXCEPT !.part = a[k].part + 1]
        BY <3>1, <3>3, <3>4, SMTT(30)
      <3> QED BY <3>2, <3>5, <3>6 DEF Follows
    <2> QED BY <1>2, <2>1, <2>2, <2>3
  <1>4. Closes(r[Len(r)])
    BY <1>1, <1>2 DEF Closes
  <1> QED BY <1>3, <1>4 DEF Fluent, r, a

-----------------------------------------------------------------------------
(* How far answers lag.  n[j] is at least the number of messages that end   *)
(* before packet j, and u the number of all of them, so that when j is read *)
(* at least n[j] messages have been read.  With b the call under way less    *)
(* the errors so far, each packet of s, the acknowledged request of call fc  *)
(* (w = 1 if there is one) and each message of q is read, or answered,       *)
(* before its call lags too far; t bounds how many there are.                *)

Numbers(n, u, s) ==
    /\ \A i, j \in 1..Len(s) :
          i < j => n[i] <= n[j] /\ (Closes(s[i]) => n[i] < n[j])
    /\ \A i \in 1..Len(s) : n[i] <= u /\ (Closes(s[i]) => n[i] < u)

BoundedBy(n, u, s, w, fc, q, b, t) ==
    /\ \A j \in 1..Len(s) : b + n[j] <= s[j].call
    /\ w = 1 => b + u <= fc
    /\ \A k \in 1..Len(q) : b + u + w + k - 1 <= q[k].call
    /\ b + u + w + Len(q) <= t

Bounded(s, w, fc, q, b, t) ==
    \E n \in [1..Len(s) -> Nat], u \in Nat :
        Numbers(n, u, s) /\ BoundedBy(n, u, s, w, fc, q, b, t)

LEMMA CallsAreNumbers ==
    ASSUME NEW s \in Seq(Packet), NEW q \in Seq(Message)
    PROVE  /\ Len(s) \in Nat /\ Len(q) \in Nat
           /\ \A j \in 1..Len(s) : s[j].call \in Int
           /\ \A k \in 1..Len(q) : q[k].call \in Int
  <1>1. Len(s) \in Nat /\ Len(q) \in Nat
    BY LenProperties
  <1>2. \A j \in 1..Len(s) : s[j] \in Packet
    BY ElementOfSeq
  <1>3. \A k \in 1..Len(q) : q[k] \in Message
    BY ElementOfSeq
  <1>4. 1..MaxCalls \subseteq Int
    BY WireAssumption DEF WireAssumption
  <1>5. \A x \in Packet : x.call \in 1..MaxCalls
    BY DEF Packet
  <1>6. \A x \in Message : x.call \in 1..MaxCalls
    BY DEF Message
  <1> QED BY <1>1, <1>2, <1>3, <1>4, <1>5, <1>6

LEMMA BoundedEmpty ==
    ASSUME NEW fc, NEW b \in Nat, NEW t \in Nat, b <= t
    PROVE  Bounded(<<>>, 0, fc, <<>>, b, t)
  <1> DEFINE n == [j \in 1..0 |-> 0]
  <1>1. n \in [1..Len(<<>>) -> Nat] /\ Len(<<>>) = 0 /\ 1..Len(<<>>) = {}
    OBVIOUS
  <1>2. Numbers(n, 0, <<>>)
    BY <1>1 DEF Numbers
  <1>3. BoundedBy(n, 0, <<>>, 0, fc, <<>>, b, t)
    BY <1>1 DEF BoundedBy
  <1> QED BY <1>1, <1>2, <1>3 DEF Bounded

LEMMA BoundedWeaker ==
    ASSUME NEW s \in Seq(Packet), NEW q \in Seq(Message),
           NEW w \in {0, 1}, NEW fc, w = 1 => fc \in Int,
           NEW b \in Int, NEW t \in Int, NEW c \in Int, NEW d \in Int,
           c <= b, t - (b - c) <= d,
           Bounded(s, w, fc, q, b, t)
    PROVE  Bounded(s, w, fc, q, c, d)
  <1>1. PICK n \in [1..Len(s) -> Nat], u \in Nat :
            Numbers(n, u, s) /\ BoundedBy(n, u, s, w, fc, q, b, t)
    BY DEF Bounded
  <1>2. w \in Int /\ u \in Int /\ \A j \in 1..Len(s) : n[j] \in Int
    OBVIOUS
  <1>3. \A j \in 1..Len(s) : c + n[j] <= s[j].call
    BY <1>1, <1>2, CallsAreNumbers, SMTT(30) DEF BoundedBy
  <1>4. w = 1 => c + u <= fc
    BY <1>1, <1>2 DEF BoundedBy
  <1>5. \A k \in 1..Len(q) : c + u + w + k - 1 <= q[k].call
    BY <1>1, <1>2, CallsAreNumbers DEF BoundedBy
  <1>6. c + u + w + Len(q) <= d
    BY <1>1, <1>2, CallsAreNumbers DEF BoundedBy
  <1>7. BoundedBy(n, u, s, w, fc, q, c, d)
    BY <1>3, <1>4, <1>5, <1>6 DEF BoundedBy
  <1> QED BY <1>1, <1>7 DEF Bounded

\* A new message goes to the end of q.
LEMMA BoundedSend ==
    ASSUME NEW s \in Seq(Packet), NEW q \in Seq(Message),
           NEW w \in {0, 1}, NEW fc, NEW b \in Int, NEW t \in Int,
           NEW m \in Message, m.call = t,
           Bounded(s, w, fc, q, b, t)
    PROVE  Bounded(s, w, fc, Append(q, m), b, t + 1)
  <1>1. PICK n \in [1..Len(s) -> Nat], u \in Nat :
            Numbers(n, u, s) /\ BoundedBy(n, u, s, w, fc, q, b, t)
    BY DEF Bounded
  <1>2. /\ Len(Append(q, m)) = Len(q) + 1 /\ Len(q) \in Nat
        /\ \A k \in 1..Len(q) : Append(q, m)[k] = q[k]
        /\ Append(q, m)[Len(q) + 1] = m
    BY AppendProperties, LenProperties
  <1>3. BoundedBy(n, u, s, w, fc, Append(q, m), b, t + 1)
    BY <1>1, <1>2, CallsAreNumbers DEF BoundedBy
  <1> QED BY <1>1, <1>3 DEF Bounded

\* The first packets go, without the end of a message ...
LEMMA BoundedDrop ==
    ASSUME NEW s \in Seq(Packet), NEW q \in Seq(Message),
           NEW w \in {0, 1}, NEW fc, NEW b \in Int, NEW t \in Int,
           NEW m \in 0..Len(s), Bounded(s, w, fc, q, b, t)
    PROVE  Bounded(Drop(s, m), w, fc, q, b, t)
  <1> DEFINE d == Drop(s, m)
  <1>1. PICK n \in [1..Len(s) -> Nat], u \in Nat :
            Numbers(n, u, s) /\ BoundedBy(n, u, s, w, fc, q, b, t)
    BY DEF Bounded
  <1>2. /\ Len(s) \in Nat /\ Len(d) = Len(s) - m /\ d \in Seq(Packet)
        /\ \A j \in 1..Len(d) : d[j] = s[j + m] /\ j + m \in 1..Len(s)
    BY DropProperties, LenProperties
  <1> HIDE DEF d
  <1> DEFINE e == [j \in 1..Len(d) |-> n[j + m]]
  <1>3. e \in [1..Len(d) -> Nat] /\ \A j \in 1..Len(d) : e[j] = n[j + m]
    BY <1>2
  <1> HIDE DEF e
  <1>4. Numbers(e, u, d)
    <2>1. ASSUME NEW i \in 1..Len(d), NEW j \in 1..Len(d), i < j
          PROVE  e[i] <= e[j] /\ (Closes(d[i]) => e[i] < e[j])
      <3>1. /\ i + m \in 1..Len(s) /\ j + m \in 1..Len(s) /\ i + m < j + m
            /\ d[i] = s[i + m]
        BY <1>2, <2>1
      <3> QED BY <1>1, <1>3, <3>1 DEF Numbers
    <2>2. ASSUME NEW i \in 1..Len(d)
          PROVE  e[i] <= u /\ (Closes(d[i]) => e[i] < u)
      BY <1>1, <1>2, <1>3 DEF Numbers
    <2> QED BY <2>1, <2>2 DEF Numbers
  <1>5. BoundedBy(e, u, d, w, fc, q, b, t)
    BY <1>1, <1>2, <1>3 DEF BoundedBy
  <1> QED BY <1>3, <1>4, <1>5 DEF Bounded, d

\* ... and with it: the rest may lag one call less.
LEMMA BoundedRead ==
    ASSUME NEW s \in Seq(Packet), NEW q \in Seq(Message),
           NEW w \in {0, 1}, NEW fc, w = 1 => fc \in Int,
           NEW b \in Int, NEW t \in Int,
           NEW m \in 1..Len(s), Closes(s[m]), Bounded(s, w, fc, q, b, t)
    PROVE  Bounded(Drop(s, m), w, fc, q, b + 1, t)
  <1> DEFINE d == Drop(s, m)
  <1>1. PICK n \in [1..Len(s) -> Nat], u \in Nat :
            Numbers(n, u, s) /\ BoundedBy(n, u, s, w, fc, q, b, t)
    BY DEF Bounded
  <1>2. /\ Len(s) \in Nat /\ Len(d) = Len(s) - m /\ d \in Seq(Packet)
        /\ \A j \in 1..Len(d) : d[j] = s[j + m] /\ j + m \in 1..Len(s)
    <2>1. Len(s) \in Nat /\ m \in 0..Len(s)
      BY LenProperties
    <2> QED BY <2>1, DropProperties
  <1> HIDE DEF d
  <1> DEFINE e == [j \in 1..Len(d) |-> n[j + m] - 1]
  <1>3. ASSUME NEW j \in 1..Len(d)
        PROVE  n[m] \in Nat /\ n[j + m] \in Nat /\ n[m] < n[j + m]
    <2>1. j + m \in 1..Len(s) /\ m < j + m
      BY <1>2
    <2> QED BY <1>1, <2>1 DEF Numbers
  <1>4. e \in [1..Len(d) -> Nat] /\ \A j \in 1..Len(d) : e[j] = n[j + m] - 1
    <2>1. ASSUME NEW j \in 1..Len(d) PROVE n[j + m] - 1 \in Nat
      BY <1>3
    <2> QED BY <2>1
  <1>5. u - 1 \in Nat
    BY <1>1 DEF Numbers
  <1> HIDE DEF e
  <1>6. Numbers(e, u - 1, d)
    <2>1. ASSUME NEW i \in 1..Len(d), NEW j \in 1..Len(d), i < j
          PROVE  e[i] <= e[j] /\ (Closes(d[i]) => e[i] < e[j])
      <3>1. /\ i + m \in 1..Len(s) /\ j + m \in 1..Len(s) /\ i + m < j + m
            /\ d[i] = s[i + m]
        BY <1>2, <2>1
      <3>2. n[i + m] <= n[j + m] /\ (Closes(d[i]) => n[i + m] < n[j + m])
        BY <1>1, <3>1 DEF Numbers
      <3> QED BY <1>3, <1>4, <3>2, SMTT(30)
    <2>2. ASSUME NEW i \in 1..Len(d)
          PROVE  e[i] <= u - 1 /\ (Closes(d[i]) => e[i] < u - 1)
      <3>1. n[i + m] <= u /\ (Closes(d[i]) => n[i + m] < u)
        BY <1>1, <1>2 DEF Numbers
      <3> QED BY <1>3, <1>4, <3>1, SMTT(30)
    <2> QED BY <2>1, <2>2 DEF Numbers
  <1>7. BoundedBy(e, u - 1, d, w, fc, q, b + 1, t)
    <2>1. ASSUME NEW j \in 1..Len(d) PROVE b + 1 + e[j] <= d[j].call
      <3>1. b + n[j + m] <= d[j].call
        BY <1>1, <1>2 DEF BoundedBy
      <3>2. d[j].call \in Int
        BY <1>2, CallsAreNumbers
      <3>3. n[j + m] \in Int /\ e[j] = n[j + m] - 1
        BY <1>3, <1>4
      <3> DEFINE x == n[j + m]
                 y == d[j].call
      <3> HIDE DEF x, y
      <3>4. b + x <= y /\ x \in Int /\ y \in Int => b + 1 + (x - 1) <= y
        OBVIOUS
      <3> QED BY <3>1, <3>2, <3>3, <3>4 DEF x, y
    <2>2. \A k \in 1..Len(q) : b + 1 + (u - 1) + w + k - 1 <= q[k].call
      <3>1. \A k \in Int : b + 1 + (u - 1) + w + k - 1 = b + u + w + k - 1
        OBVIOUS
      <3> QED BY <1>1, <3>1 DEF BoundedBy
    <2>3. w = 1 => b + 1 + (u - 1) <= fc
      BY <1>1 DEF BoundedBy
    <2>4. b + 1 + (u - 1) + w + Len(q) <= t
      BY <1>1, LenProperties DEF BoundedBy
    <2> QED BY <2>1, <2>2, <2>3, <2>4 DEF BoundedBy
  <1> QED BY <1>4, <1>5, <1>6, <1>7 DEF Bounded, d

\* An answer goes to the end of s, its packets numbered by all that ends before.
LEMMA NumbersAnswer ==
    ASSUME NEW s \in Seq(Packet), NEW q \in Seq(Message), NEW fc,
           NEW c \in 1..MaxCalls, NEW kind \in Kinds, NEW k \in 0..MaxConts,
           NEW b \in Int, NEW t \in Int,
           NEW n \in [1..Len(s) -> Nat], NEW u \in Nat, Numbers(n, u, s),
           \A j \in 1..Len(s) : b + n[j] <= s[j].call,
           b + u <= c,
           \A i \in 1..Len(q) : b + u + i <= q[i].call,
           b + u + 1 + Len(q) <= t
    PROVE  Bounded(s \o Answer(c, kind, k), 0, fc, q, b, t)
  <1> DEFINE a == Answer(c, kind, k)
             r == s \o a
  <1>1. /\ k \in Nat /\ a \in Seq(Packet) /\ Len(a) = k + 1
        /\ \A j \in 1..k + 1 : a[j] = [call |-> c, kind |-> kind,
                                       part |-> j - 1, conts |-> k]
    BY AnswerTypes, WireAssumption DEF WireAssumption
  <1> HIDE DEF a
  <1>2. /\ r \in Seq(Packet) /\ Len(r) = Len(s) + k + 1 /\ Len(s) \in Nat
        /\ \A j \in 1..Len(s) : r[j] = s[j]
        /\ \A j \in Len(s) + 1..Len(r) : /\ r[j] = a[j - Len(s)]
                                         /\ j - Len(s) \in 1..k + 1
    <2>1. /\ r \in Seq(Packet) /\ Len(r) = Len(s) + Len(a)
          /\ \A i \in 1..Len(s) + Len(a) :
                r[i] = IF i <= Len(s) THEN s[i] ELSE a[i - Len(s)]
      BY <1>1, ConcatProperties
    <2>2. Len(s) \in Nat
      BY LenProperties
    <2> HIDE DEF r
    <2>3. Len(r) = Len(s) + k + 1
      BY <1>1, <2>1, <2>2
    <2>4. \A j \in 1..Len(s) : r[j] = s[j]
      BY <1>1, <2>1, <2>2, SMTT(30)
    <2>5. ASSUME NEW j \in Len(s) + 1..Len(r)
          PROVE  r[j] = a[j - Len(s)] /\ j - Len(s) \in 1..k + 1
      <3>1. j \in 1..Len(s) + Len(a) /\ ~(j <= Len(s))
        BY <1>1, <2>2, <2>3, SMTT(30)
      <3> QED BY <1>1, <2>1, <2>2, <2>3, <3>1
    <2> QED BY <2>1, <2>2, <2>3, <2>4, <2>5
  <1>3. \A j \in Len(s) + 1..Len(r) : r[j].call = c
    BY <1>1, <1>2, SMTT(30)
  <1> HIDE DEF r
  <1> DEFINE e == [j \in 1..Len(r) |-> IF j <= Len(s) THEN n[j] ELSE u]
  <1>4. /\ e \in [1..Len(r) -> Nat]
        /\ \A j \in 1..Len(s) : e[j] = n[j] /\ j \in 1..Len(r)
        /\ \A j \in Len(s) + 1..Len(r) : e[j] = u
    BY <1>1, <1>2, SMTT(30)
  <1> HIDE DEF e
  <1>5. ASSUME NEW j \in Len(s) + 1..Len(r), j < Len(r) PROVE ~Closes(r[j])
    <2>1. /\ r[j] = a[j - Len(s)] /\ j - Len(s) \in 1..k + 1
          /\ j - Len(s) < k + 1
      BY <1>1, <1>2, <1>5, SMTT(30)
    <2>2. r[j].part = (j - Len(s)) - 1 /\ r[j].conts = k
      BY <1>1, <2>1, SMTT(30)
    <2> QED BY <1>1, <1>2, <2>1, <2>2 DEF Closes
  <1>6. Numbers(e, u + 1, r)
    <2>1. ASSUME NEW i \in 1..Len(r), NEW j \in 1..Len(r), i < j
          PROVE  e[i] <= e[j] /\ (Closes(r[i]) => e[i] < e[j])
      <3>1. CASE j <= Len(s)
        <4>1. i \in 1..Len(s) /\ j \in 1..Len(s)
          BY <1>2, <2>1, <3>1
        <4> QED BY <1>2, <1>4, <2>1, <4>1 DEF Numbers
      <3>2. CASE i <= Len(s) /\ j > Len(s)
        <4>1. i \in 1..Len(s) /\ j \in Len(s) + 1..Len(r)
          BY <1>2, <2>1, <3>2
        <4> QED BY <1>2, <1>4, <4>1 DEF Numbers
      <3>3. CASE i > Len(s)
        <4>1. i \in Len(s) + 1..Len(r) /\ j \in Len(s) + 1..Len(r) /\ i < Len(r)
          BY <1>2, <2>1, <3>3
        <4>2. e[i] = u /\ e[j] = u /\ ~Closes(r[i])
          BY <1>4, <1>5, <4>1
        <4> QED BY <4>2
      <3> QED BY <1>2, <3>1, <3>2, <3>3
    <2>2. ASSUME NEW i \in 1..Len(r)
          PROVE  e[i] <= u + 1 /\ (Closes(r[i]) => e[i] < u + 1)
      <3>1. CASE i <= Len(s)
        <4>1. i \in 1..Len(s)
          BY <3>1, <1>2
        <4>2. n[i] <= u /\ n[i] \in Nat /\ e[i] = n[i]
          BY <1>4, <4>1 DEF Numbers
        <4> QED BY <4>2
      <3>2. CASE i > Len(s)
        <4>1. e[i] = u
          BY <1>2, <1>4, <3>2
        <4> QED BY <4>1
      <3> QED BY <1>2, <3>1, <3>2
    <2> QED BY <2>1, <2>2 DEF Numbers
  <1>7. BoundedBy(e, u + 1, r, 0, fc, q, b, t)
    <2>1. ASSUME NEW j \in 1..Len(r) PROVE b + e[j] <= r[j].call
      <3>1. CASE j \in 1..Len(s)
        BY <1>2, <1>4, <3>1
      <3>2. CASE j \in Len(s) + 1..Len(r)
        BY <1>3, <1>4, <3>2
      <3> QED BY <1>2, <3>1, <3>2
    <2>2. ASSUME NEW i \in 1..Len(q)
          PROVE  b + (u + 1) + 0 + i - 1 <= q[i].call
      <3>1. b + (u + 1) + 0 + i - 1 = b + u + i
        OBVIOUS
      <3> QED BY <3>1
    <2>3. b + (u + 1) + 0 + Len(q) <= t
      BY LenProperties
    <2> QED BY <2>1, <2>2, <2>3 DEF BoundedBy
  <1> QED BY <1>4, <1>6, <1>7 DEF Bounded, r, a

\* The simulator answers the first message of q ...
LEMMA BoundedAnswer ==
    ASSUME NEW s \in Seq(Packet), NEW q \in Seq(Message), q # <<>>,
           NEW w \in {0, 1}, NEW fc, NEW gc, NEW b \in Int, NEW t \in Int,
           NEW kind \in Kinds, NEW k \in 0..MaxConts,
           Bounded(s, w, fc, q, b, t)
    PROVE  Bounded(s \o Answer(q[1].call, kind, k), 0, gc, Tail(q), b, t)
  <1>1. PICK n \in [1..Len(s) -> Nat], u \in Nat :
            Numbers(n, u, s) /\ BoundedBy(n, u, s, w, fc, q, b, t)
    BY DEF Bounded
  <1>2. /\ Tail(q) \in Seq(Message) /\ Len(Tail(q)) = Len(q) - 1
        /\ Len(q) \in Nat \ {0}
        /\ \A i \in 1..Len(Tail(q)) : Tail(q)[i] = q[i + 1]
    BY HeadTailProperties, EmptySeq
  <1>3. \A i \in 1..Len(q) : b + u + w + i - 1 <= q[i].call /\ q[i].call \in Int
    BY <1>1, CallsAreNumbers DEF BoundedBy
  <1>4. q[1].call \in 1..MaxCalls /\ q[1].call \in Int
    <2>1. q[1] \in Message
      BY <1>2, ElementOfSeq
    <2> QED BY <2>1, <1>2, CallsAreNumbers DEF Message
  <1>5. b + u <= q[1].call
    BY <1>2, <1>3, <1>4
  <1>6. ASSUME NEW i \in 1..Len(Tail(q)) PROVE b + u + i <= Tail(q)[i].call
    <2>1. /\ Tail(q)[i] = q[i + 1]
          /\ b + u + w + (i + 1) - 1 <= q[i + 1].call /\ q[i + 1].call \in Int
      BY <1>2, <1>3
    <2>2. b + u + i <= b + u + w + (i + 1) - 1
      OBVIOUS
    <2> QED BY <2>1, <2>2
  <1>7. b + u + 1 + Len(Tail(q)) <= t
    BY <1>1, <1>2 DEF BoundedBy
  <1>8. \A j \in 1..Len(s) : b + n[j] <= s[j].call
    BY <1>1 DEF BoundedBy
  <1> QED BY <1>1, <1>2, <1>4, <1>5, <1>6, <1>7, <1>8, NumbersAnswer

\* ... or what was confirmed and acknowledged ...
LEMMA BoundedConfirmed ==
    ASSUME NEW s \in Seq(Packet), NEW q \in Seq(Message),
           NEW fc \in 1..MaxCalls, NEW gc, NEW b \in Int, NEW t \in Int,
           NEW kind \in Kinds, NEW k \in 0..MaxConts,
           Bounded(s, 1, fc, q, b, t)
    PROVE  Bounded(s \o Answer(fc, kind, k), 0, gc, q, b, t)
  <1>1. PICK n \in [1..Len(s) -> Nat], u \in Nat :
            Numbers(n, u, s) /\ BoundedBy(n, u, s, 1, fc, q, b, t)
    BY DEF Bounded
  <1>2. /\ \A j \in 1..Len(s) : b + n[j] <= s[j].call
        /\ b + u <= fc
    BY <1>1 DEF BoundedBy
  <1>3. ASSUME NEW i \in 1..Len(q) PROVE b + u + i <= q[i].call
    <2>1. b + u + 1 + i - 1 <= q[i].call
      BY <1>1 DEF BoundedBy
    <2>2. b + u + 1 + i - 1 = b + u + i
      OBVIOUS
    <2> QED BY <2>1, <2>2
  <1>4. b + u + 1 + Len(q) <= t
    BY <1>1 DEF BoundedBy
  <1> QED BY <1>1, <1>2, <1>3, <1>4, NumbersAnswer

\* ... or takes an acknowledgement for what it is waiting on.
LEMMA BoundedAck ==
    ASSUME NEW s \in Seq(Packet), NEW q \in Seq(Message), q # <<>>,
           NEW w \in {0, 1}, NEW fc, fc = q[1].call,
           NEW b \in Int, NEW t \in Int,
           Bounded(s, w, fc, q, b, t)
    PROVE  Bounded(s, 1, fc, Tail(q), b, t)
  <1>1. PICK n \in [1..Len(s) -> Nat], u \in Nat :
            Numbers(n, u, s) /\ BoundedBy(n, u, s, w, fc, q, b, t)
    BY DEF Bounded
  <1>2. /\ Tail(q) \in Seq(Message) /\ Len(Tail(q)) = Len(q) - 1
        /\ Len(q) \in Nat \ {0}
        /\ \A i \in 1..Len(Tail(q)) : Tail(q)[i] = q[i + 1]
    BY HeadTailProperties, EmptySeq
  <1>3. \A i \in 1..Len(q) : b + u + w + i - 1 <= q[i].call /\ q[i].call \in Int
    BY <1>1, CallsAreNumbers DEF BoundedBy
  <1>4. b + u <= fc
    BY <1>2, <1>3
  <1>5. ASSUME NEW i \in 1..Len(Tail(q))
        PROVE  b + u + 1 + i - 1 <= Tail(q)[i].call
    <2>1. /\ Tail(q)[i] = q[i + 1]
          /\ b + u + w + (i + 1) - 1 <= q[i + 1].call /\ q[i + 1].call \in Int
      BY <1>2, <1>3
    <2>2. b + u + 1 + i - 1 <= b + u + w + (i + 1) - 1
      OBVIOUS
    <2> QED BY <2>1, <2>2
  <1>6. b + u + 1 + Len(Tail(q)) <= t
    BY <1>1, <1>2 DEF BoundedBy
  <1>7. BoundedBy(n, u, s, 1, fc, Tail(q), b, t)
    BY <1>1, <1>4, <1>5, <1>6 DEF BoundedBy
  <1> QED BY <1>1, <1>7 DEF Bounded

\* With no call lagging, at most one message is under way.
LEMMA BoundedTight ==
    ASSUME NEW s \in Seq(Packet), NEW q \in Seq(Message), Fluent(s),
           NEW w \in {0, 1}, NEW fc, NEW b \in Int, NEW t \in Int,
           Bounded(s, w, fc, q, b, t)
    PROVE  /\ \E u \in Nat : /\ b + u + w + Len(q) <= t
                             /\ s # <<>> => u > 0
           /\ s # <<>> => b <= s[1].call
  <1>1. PICK n \in [1..Len(s) -> Nat], u \in Nat :
            Numbers(n, u, s) /\ BoundedBy(n, u, s, w, fc, q, b, t)
    BY DEF Bounded
  <1>2. ASSUME s # <<>> PROVE u > 0 /\ b <= s[1].call
    <2>1. Len(s) \in Nat \ {0} /\ Closes(s[Len(s)])
      BY <1>2, EmptySeq, LenProperties DEF Fluent
    <2>2. n[Len(s)] < u /\ n[Len(s)] \in Nat
      BY <1>1, <2>1 DEF Numbers
    <2>3. b + n[1] <= s[1].call /\ n[1] \in Nat /\ s[1].call \in Int
      BY <1>1, <2>1, CallsAreNumbers, SMTT(30) DEF BoundedBy
    <2> QED BY <2>2, <2>3
  <1> QED BY <1>1, <1>2 DEF BoundedBy

-----------------------------------------------------------------------------
(* The stream of a state: what is read of an unfinished message, what is   *)
(* in the socket, what is still to be sent.                                *)

Held   == IF pc = "rest" THEN parts ELSE <<>>
Stream == Held \o (fromDevice \o out)

LEMMA StreamTypes ==
    ASSUME TypeInv
    PROVE  /\ Held \in Seq(Packet) /\ fromDevice \in Seq(Packet)
           /\ out \in Seq(Packet) /\ toDevice \in Seq(Message)
           /\ fromDevice \o out \in Seq(Packet) /\ Stream \in Seq(Packet)
  <1>1. /\ fromDevice \in Seq(Packet) /\ out \in Seq(Packet)
        /\ toDevice \in Seq(Message) /\ parts \in Seq(Packet)
    BY DEF TypeInv, WireTypeOK, Message
  <1>2. Held \in Seq(Packet)
    BY <1>1, EmptySeq DEF Held
  <1> QED BY <1>1, <1>2, ConcatProperties DEF Stream

LEMMA AppendHead ==
    ASSUME NEW s \in Seq(Packet), NEW f \in Seq(Packet), f # <<>>
    PROVE  /\ Append(s, Head(f)) \in Seq(Packet) /\ Tail(f) \in Seq(Packet)
           /\ Len(Append(s, Head(f))) = Len(s) + 1
           /\ Append(s, Head(f)) \o Tail(f) = s \o f
  <1>1. /\ Head(f) \in Packet /\ Tail(f) \in Seq(Packet)
        /\ Len(Tail(f)) = Len(f) - 1 /\ Len(f) \in Nat \ {0} /\ Len(s) \in Nat
        /\ \A i \in 1..Len(f) - 1 : Tail(f)[i] = f[i + 1]
        /\ Head(f) = f[1]
    BY HeadTailProperties, EmptySeq, LenProperties
  <1>2. /\ Append(s, Head(f)) \in Seq(Packet)
        /\ Len(Append(s, Head(f))) = Len(s) + 1
        /\ \A i \in 1..Len(s) : Append(s, Head(f))[i] = s[i]
        /\ Append(s, Head(f))[Len(s) + 1] = f[1]
    BY <1>1, AppendProperties
  <1> DEFINE a == Append(s, Head(f))
             x == a \o Tail(f)
             y == s \o f
  <1> HIDE DEF a
  <1>3. /\ a \in Seq(Packet) /\ Len(a) = Len(s) + 1
        /\ \A i \in 1..Len(s) : a[i] = s[i]
        /\ a[Len(s) + 1] = f[1]
    BY <1>2 DEF a
  <1>4. /\ x \in Seq(Packet) /\ Len(x) = Len(s) + Len(f)
        /\ \A i \in 1..Len(s) + Len(f) :
              x[i] = IF i <= Len(s) + 1 THEN a[i] ELSE Tail(f)[i - (Len(s) + 1)]
    <2>1. /\ x \in Seq(Packet) /\ Len(x) = Len(a) + Len(Tail(f))
          /\ \A i \in 1..Len(a) + Len(Tail(f)) :
                x[i] = IF i <= Len(a) THEN a[i] ELSE Tail(f)[i - Len(a)]
      BY <1>1, <1>3, ConcatProperties
    <2> HIDE DEF x
    <2>2. Len(a) + Len(Tail(f)) = Len(s) + Len(f)
      BY <1>1, <1>3
    <2> QED BY <1>3, <2>1, <2>2
  <1>5. /\ y \in Seq(Packet) /\ Len(y) = Len(s) + Len(f)
        /\ \A i \in 1..Len(s) + Len(f) :
              y[i] = IF i <= Len(s) THEN s[i] ELSE f[i - Len(s)]
    BY ConcatProperties
  <1> HIDE DEF x, y
  <1>6. ASSUME NEW i \in 1..Len(x) PROVE x[i] = y[i]
    <2>1. CASE i <= Len(s)
      BY <1>1, <1>3, <1>4, <1>5, <2>1
    <2>2. CASE i = Len(s) + 1
      <3>1. x[i] = f[1]
        BY <1>1, <1>3, <1>4, <2>2
      <3>2. i - Len(s) = 1 /\ ~(i <= Len(s))
        BY <1>1, <2>2
      <3> QED BY <1>4, <1>5, <3>1, <3>2
    <2>3. CASE i > Len(s) + 1
      <3>1. /\ i - (Len(s) + 1) \in 1..Len(f) - 1
            /\ (i - (Len(s) + 1)) + 1 = i - Len(s)
            /\ ~(i <= Len(s)) /\ ~(i <= Len(s) + 1)
        BY <1>1, <1>4, <2>3
      <3>2. x[i] = Tail(f)[i - (Len(s) + 1)]
        BY <1>4, <3>1
      <3> QED BY <1>1, <1>4, <1>5, <3>1, <3>2
    <2> QED BY <1>1, <1>4, <2>1, <2>2, <2>3
  <1>7. x = y
    BY <1>4, <1>5, <1>6, SeqEqual
  <1> QED BY <1>1, <1>2, <1>7 DEF x, y, a

LEMMA Associative ==
    ASSUME NEW x \in Seq(Packet), NEW y \in Seq(Packet), NEW z \in Seq(Packet)
    PROVE  (x \o y) \o z = x \o (y \o z)
  BY ConcatAssociative

LEMMA MoveHead ==
    ASSUME NEW s \in Seq(Packet), NEW f \in Seq(Packet), f # <<>>,
           NEW o \in Seq(Packet)
    PROVE  /\ Tail(f) \o o \in Seq(Packet)
           /\ s \o (f \o o) = Append(s, Head(f)) \o (Tail(f) \o o)
  <1> DEFINE a == Append(s, Head(f))
             b == Tail(f)
  <1>1. a \in Seq(Packet) /\ b \in Seq(Packet)
    BY AppendHead
  <1>2. a \o b = s \o f
    BY AppendHead
  <1> HIDE DEF a, b
  <1>3. (a \o b) \o o = a \o (b \o o)
    BY <1>1, Associative, SMTT(30)
  <1>4. b \o o \in Seq(Packet)
    BY <1>1, ConcatProperties
  <1>5. (s \o f) \o o = s \o (f \o o)
    BY Associative
  <1> QED BY <1>2, <1>3, <1>4, <1>5 DEF a, b

\* A packet read moves from the socket to what is held.
LEMMA StreamHead ==
    ASSUME TypeInv, fromDevice # <<>>
    PROVE  Stream = Append(Held, Head(fromDevice))
                    \o (Tail(fromDevice) \o out)
  <1>1. /\ Held \in Seq(Packet) /\ fromDevice \in Seq(Packet)
        /\ out \in Seq(Packet)
    BY StreamTypes
  <1>2. Held \o (fromDevice \o out)
        = Append(Held, Head(fromDevice)) \o (Tail(fromDevice) \o out)
    <2> HIDE DEF TypeInv
    <2> QED BY <1>1, MoveHead
  <1> QED BY <1>2 DEF Stream

LEMMA DropPrefix ==
    ASSUME NEW a \in Seq(Packet), NEW r \in Seq(Packet)
    PROVE  /\ Len(a) \in 0..Len(a \o r)
           /\ Drop(a \o r, Len(a)) = r
           /\ \A i \in 1..Len(a) : i \in 1..Len(a \o r) /\ (a \o r)[i] = a[i]
  <1> DEFINE s == a \o r
             d == Drop(s, Len(a))
  <1>1. /\ s \in Seq(Packet) /\ Len(s) = Len(a) + Len(r)
        /\ \A i \in 1..Len(a) + Len(r) :
              s[i] = IF i <= Len(a) THEN a[i] ELSE r[i - Len(a)]
    BY ConcatProperties
  <1>2. Len(a) \in Nat /\ Len(r) \in Nat
    BY LenProperties
  <1> HIDE DEF s
  <1>3. Len(a) \in 0..Len(s)
    BY <1>1, <1>2
  <1>4. /\ d \in Seq(Packet) /\ Len(d) = Len(s) - Len(a)
        /\ \A j \in 1..Len(s) - Len(a) : d[j] = s[j + Len(a)]
    BY <1>1, <1>3, DropProperties
  <1> HIDE DEF d
  <1>5. Len(d) = Len(r)
    BY <1>1, <1>2, <1>4
  <1>6. ASSUME NEW j \in 1..Len(d) PROVE d[j] = r[j]
    <2>1. /\ j + Len(a) \in 1..Len(a) + Len(r) /\ ~(j + Len(a) <= Len(a))
          /\ j + Len(a) - Len(a) = j
      BY <1>2, <1>5
    <2>2. d[j] = s[j + Len(a)]
      BY <1>1, <1>2, <1>4, <1>5
    <2>3. s[j + Len(a)] = r[j + Len(a) - Len(a)]
      BY <1>1, <2>1
    <2> QED BY <2>1, <2>2, <2>3
  <1>7. d = r
    BY <1>4, <1>5, <1>6, SeqEqual
  <1>8. \A i \in 1..Len(a) : i \in 1..Len(s) /\ s[i] = a[i]
    BY <1>1, <1>2
  <1> QED BY <1>3, <1>7, <1>8 DEF s, d

-----------------------------------------------------------------------------
(* The invariant of the behaviours in which nothing was lost.              *)

Whole(ps) == \A i \in DOMAIN ps : ps[i] = [ps[1] EXCEPT !.part = i - 1]

Owed == IF flow # None /\ flow.acked THEN 1 ELSE 0

\* The call under way, or the next one, less the errors so far.
Base == IF pc = "idle" THEN call + 1 - slips ELSE call - slips

\* An acknowledgement belongs to the call of the message before it, and what the
\* simulator waits on to the last message it took.
AcksFollow ==
    /\ \A k \in 1..Len(toDevice) : toDevice[k].op = "ack" =>
          IF k = 1 THEN flow = None \/ flow.call = toDevice[1].call
          ELSE toDevice[k].call = toDevice[k - 1].call
    /\ pc # "idle" /\ ~refused =>
          IF toDevice = <<>> THEN flow = None \/ flow.call = call
          ELSE toDevice[Len(toDevice)].call = call

\* A request for a button on its way to the client has the simulator waiting.
Buttons ==
    \A j \in 1..Len(Stream) :
       Stream[j].kind = "button" => flow # None /\ ~flow.acked

Expected ==
    \A i \in 1..Len(toDevice) :
       toDevice[i].op = "ack" =>
          flow # None /\ ~flow.acked /\ flow.call = toDevice[i].call

Lagging == parts # <<>> => parts[1].call + slips >= call

Clean ==
    /\ Fluent(Stream)
    /\ Whole(parts)
    /\ Bounded(Stream, Owed, flow.call, toDevice, Base, call + 1)
    /\ Lagging
    /\ AcksFollow
    /\ slips = 0 => Buttons /\ Expected

WireInv == TypeInv /\ (harm = 0 => Clean)

\* What the bound says of a state.
LEMMA BoundedState ==
    ASSUME TypeInv, Clean
    PROVE  /\ Owed \in {0, 1} /\ Base \in Int /\ call + 1 \in Int
           /\ Owed = 1 => flow # None /\ flow.acked /\ flow.call \in 1..MaxCalls
                          /\ flow.call \in Int
           /\ Stream # <<>> => Base <= Stream[1].call
           /\ slips = 0 => /\ Stream # <<>> => toDevice = <<>> /\ Owed = 0
                           /\ toDevice # <<>> => Len(toDevice) = 1 /\ Owed = 0
                           /\ pc = "idle" => /\ toDevice = <<>> /\ Owed = 0
                                             /\ Stream = <<>>
  <1>1. Owed \in {0, 1}
    BY DEF Owed
  <1>2. call \in Nat /\ slips \in Nat /\ Base \in Int
    BY WireAssumption DEF WireAssumption, TypeInv, WireTypeOK, Base
  <1>3. Owed = 1 => flow # None /\ flow.acked /\ flow.call \in 1..MaxCalls
                    /\ flow.call \in Int
    BY WireAssumption DEF WireAssumption, TypeInv, WireTypeOK, Owed
  <1>4. /\ \E u \in Nat : /\ Base + u + Owed + Len(toDevice) <= call + 1
                          /\ Stream # <<>> => u > 0
        /\ Stream # <<>> => Base <= Stream[1].call
    <2>1. /\ Stream \in Seq(Packet) /\ toDevice \in Seq(Message)
          /\ Fluent(Stream) /\ call + 1 \in Int
          /\ Bounded(Stream, Owed, flow.call, toDevice, Base, call + 1)
      BY <1>2, StreamTypes DEF Clean
    <2> DEFINE s == Stream
               w == Owed
               b == Base
               c == call + 1
               fc == flow.call
    <2> HIDE DEF s, w, b, c, fc
    <2>2. /\ s \in Seq(Packet) /\ w \in {0, 1} /\ b \in Int /\ c \in Int
          /\ Fluent(s) /\ Bounded(s, w, fc, toDevice, b, c)
      BY <1>1, <1>2, <2>1 DEF s, w, b, c, fc
    <2>3. /\ \E u \in Nat : /\ b + u + w + Len(toDevice) <= c
                            /\ s # <<>> => u > 0
          /\ s # <<>> => b <= s[1].call
      BY <2>1, <2>2, BoundedTight
    <2> QED BY <2>3 DEF s, w, b, c
  <1>5. Len(toDevice) \in Nat /\ (toDevice # <<>> => Len(toDevice) > 0)
    BY StreamTypes, LenProperties, EmptySeq
  <1>6. ASSUME slips = 0
        PROVE  /\ Stream # <<>> => toDevice = <<>> /\ Owed = 0
               /\ toDevice # <<>> => Len(toDevice) = 1 /\ Owed = 0
               /\ pc = "idle" => toDevice = <<>> /\ Owed = 0 /\ Stream = <<>>
    <2>1. Base >= call /\ (pc = "idle" => Base = call + 1)
      BY <1>2, <1>6 DEF Base
    <2>2. PICK u \in Nat : /\ Base + u + Owed + Len(toDevice) <= call + 1
                           /\ Stream # <<>> => u > 0
      BY <1>4
    <2>3. u + Owed + Len(toDevice) <= 1
      BY <1>1, <1>2, <1>5, <2>1, <2>2
    <2>4. pc = "idle" => u + Owed + Len(toDevice) <= 0
      BY <1>1, <1>2, <1>5, <2>1, <2>2
    <2>5. /\ u > 0 => Len(toDevice) = 0 /\ Owed = 0
          /\ Len(toDevice) > 0 => Len(toDevice) = 1 /\ Owed = 0
          /\ pc = "idle" => Len(toDevice) = 0 /\ Owed = 0 /\ ~(u > 0)
      <3> DEFINE l == Len(toDevice)
                 w == Owed
      <3>1. l \in Int /\ l >= 0 /\ w \in Int /\ w >= 0
        BY <1>1, <1>5
      <3>2. u + w + l <= 1 /\ (pc = "idle" => u + w + l <= 0)
        BY <2>3, <2>4
      <3> HIDE DEF l, w
      <3>3. /\ u > 0 => l = 0 /\ w = 0
            /\ l > 0 => l = 1 /\ w = 0
            /\ pc = "idle" => l = 0 /\ w = 0 /\ ~(u > 0)
        BY <3>1, <3>2
      <3> QED BY <3>3 DEF l, w
    <2>6. Len(toDevice) = 0 => toDevice = <<>>
      BY <1>5
    <2>7. Stream # <<>> => u > 0
      BY <2>2
    <2> QED BY <1>5, <2>5, <2>6, <2>7, Zenon
  <1> QED BY <1>1, <1>2, <1>3, <1>4, <1>6

LEMMA WireInit == ASSUME Init PROVE WireInv
  <1>1. TypeInv
    BY TypesInit
  <1>2. Stream = <<>> /\ toDevice = <<>> /\ Owed = 0 /\ Base = 1
    <2>1. Held = <<>> /\ <<>> \o <<>> = <<>>
      BY DEF Init, Held
    <2> QED BY <2>1 DEF Init, Stream, Owed, Base
  <1>3. Bounded(<<>>, 0, flow.call, <<>>, 1, 1)
    BY BoundedEmpty
  <1>4. Bounded(Stream, Owed, flow.call, toDevice, Base, call + 1)
    BY <1>2, <1>3 DEF Init
  <1>5. Fluent(<<>>) /\ Whole(<<>>)
    BY DEF Fluent, Whole
  <1>6. AcksFollow /\ Buttons /\ Expected /\ Lagging
    BY <1>2 DEF Init, AcksFollow, Buttons, Expected, Lagging
  <1> QED BY <1>1, <1>2, <1>4, <1>5, <1>6 DEF WireInv, Clean, Init

\* The simulator sends, starts, or nothing happens: the stream is the same.
LEMMA CleanStill ==
    ASSUME TypeInv, Clean, Stream' = Stream,
           UNCHANGED <<pc, parts, call, slips, toDevice, flow, refused>>
    PROVE  Clean'
  <1>1. Owed' = Owed /\ Base' = Base
    BY DEF Owed, Base
  <1>2. Bounded(Stream, Owed, flow.call, toDevice, Base, call + 1)'
    BY <1>1 DEF Clean
  <1>3. AcksFollow' /\ Lagging'
    BY DEF Clean, AcksFollow, Lagging
  <1>4. (slips = 0)' => Buttons' /\ Expected'
    BY DEF Clean, Buttons, Expected
  <1>5. Fluent(Stream)' /\ Whole(parts)'
    BY DEF Clean
  <1> QED BY <1>2, <1>3, <1>4, <1>5 DEF Clean

\* The numbers of a clean state, under short names.
LEMMA CleanNumbers ==
    ASSUME TypeInv
    PROVE  /\ call \in Nat /\ slips \in Nat /\ Base \in Int
           /\ pc = "idle" => Base = call + 1 - slips
           /\ pc # "idle" => Base = call - slips
  BY WireAssumption DEF WireAssumption, TypeInv, WireTypeOK, Base

LEMMA ButtonsDrop ==
    ASSUME TypeInv, Buttons, NEW m \in 0..Len(Stream),
           Stream' = Drop(Stream, m), UNCHANGED flow
    PROVE  Buttons'
  <1>1. Stream \in Seq(Packet)
    BY StreamTypes
  <1>2. /\ Len(Stream') = Len(Stream) - m
        /\ \A j \in 1..Len(Stream) - m :
              j + m \in 1..Len(Stream) /\ Stream'[j] = Stream[j + m]
    BY <1>1, DropProperties
  <1> QED BY <1>2 DEF Buttons

\* A call ends with an error: what it has read of a message is forgotten, and
\* perhaps the message, or the stray packet, with it.
LEMMA CleanFails ==
    ASSUME TypeInv, Clean, pc # "idle", pc' = "idle", parts' = <<>>,
           slips' = slips + 1, UNCHANGED <<call, toDevice, flow>>,
           NEW m \in 0..Len(Stream), Stream' = Drop(Stream, m)
    PROVE  Clean'
  <1>1. Stream \in Seq(Packet) /\ toDevice \in Seq(Message)
    BY StreamTypes
  <1>2. Fluent(Stream)'
    BY <1>1, FluentDrop DEF Clean
  <1>3. Owed' = Owed /\ Base' = Base
    BY CleanNumbers DEF Owed, Base
  <1>4. Bounded(Stream, Owed, flow.call, toDevice, Base, call + 1)'
    <2>1. Bounded(Drop(Stream, m), Owed, flow.call, toDevice, Base, call + 1)
      BY <1>1, BoundedState, BoundedDrop DEF Clean
    <2> QED BY <1>3, <2>1
  <1>5. Whole(parts)' /\ Lagging' /\ (slips' = 0) = FALSE
    BY CleanNumbers DEF Whole, Lagging
  <1>6. AcksFollow'
    BY DEF Clean, AcksFollow
  <1> QED BY <1>2, <1>4, <1>5, <1>6 DEF Clean

\* The packet read does not complete its message.
LEMMA CleanReads ==
    ASSUME TypeInv, Clean, pc # "idle", pc' = "rest",
           NEW ps \in Seq(Packet), ps # <<>>, Whole(ps), ps[1] = Stream[1],
           parts' = ps, Stream # <<>>, Stream' = Stream,
           UNCHANGED <<call, slips, toDevice, flow, refused>>
    PROVE  Clean'
  <1>1. Owed' = Owed /\ Base' = Base
    BY DEF Owed, Base
  <1>2. Bounded(Stream, Owed, flow.call, toDevice, Base, call + 1)'
    BY <1>1 DEF Clean
  <1>3. Lagging'
    <2>1. Base <= ps[1].call /\ ps[1] \in Packet
      BY BoundedState, FirstOf
    <2>2. ps[1].call \in Int
      BY <2>1, WireAssumption DEF WireAssumption, Packet
    <2> QED BY <2>1, <2>2, CleanNumbers DEF Lagging
  <1>4. AcksFollow'
    BY DEF Clean, AcksFollow
  <1>5. (slips = 0)' => Buttons' /\ Expected'
    BY DEF Clean, Buttons, Expected
  <1> QED BY <1>2, <1>3, <1>4, <1>5 DEF Clean

\* The message is complete and the call returns it.
LEMMA CleanReturns ==
    ASSUME TypeInv, Clean, pc # "idle", pc' = "idle",
           NEW ps \in Seq(Packet), ps # <<>>, Whole(ps), ps[1] = Stream[1],
           parts' = ps, UNCHANGED <<call, slips, toDevice, flow>>,
           NEW m \in 1..Len(Stream), Closes(Stream[m]),
           Stream' = Drop(Stream, m)
    PROVE  Clean'
  <1>1. Stream \in Seq(Packet) /\ toDevice \in Seq(Message)
        /\ Len(Stream) \in Nat
    BY StreamTypes, LenProperties
  <1>2. m \in 0..Len(Stream) /\ Stream # <<>>
    BY <1>1
  <1>3. Fluent(Stream)'
    BY <1>1, <1>2, FluentDrop DEF Clean
  <1>4. Owed' = Owed /\ Base' = Base + 1
    BY CleanNumbers DEF Owed, Base
  <1>5. Bounded(Stream, Owed, flow.call, toDevice, Base, call + 1)'
    <2>1. Bounded(Drop(Stream, m), Owed, flow.call, toDevice, Base + 1, call + 1)
      BY <1>1, BoundedState, BoundedRead DEF Clean
    <2> QED BY <1>4, <2>1
  <1>6. Lagging'
    <2>1. Base <= ps[1].call /\ ps[1] \in Packet
      BY <1>2, BoundedState, FirstOf
    <2>2. ps[1].call \in Int
      BY <2>1, WireAssumption DEF WireAssumption, Packet
    <2> QED BY <2>1, <2>2, CleanNumbers DEF Lagging
  <1>7. AcksFollow'
    BY DEF Clean, AcksFollow
  <1>8. (slips = 0)' => Buttons' /\ Expected'
    BY <1>2, ButtonsDrop DEF Clean, Expected
  <1> QED BY <1>3, <1>5, <1>6, <1>7, <1>8 DEF Clean

\* A call is refused before anything is sent.
LEMMA CleanRefused ==
    ASSUME TypeInv, Clean, CallRefused
    PROVE  Clean'
  <1>1. Stream' = Stream
    BY DEF CallRefused, Held, Stream
  <1>2. Owed' = Owed /\ Base' = Base /\ call' + 1 = call + 2
    BY CleanNumbers DEF CallRefused, Owed, Base
  <1>3. Bounded(Stream, Owed, flow.call, toDevice, Base, call + 1)'
    <2>1. Bounded(Stream, Owed, flow.call, toDevice, Base, call + 2)
      BY BoundedState, BoundedWeaker, StreamTypes, CleanNumbers, SMTT(30) DEF Clean
    <2> QED BY <1>1, <1>2, <2>1 DEF CallRefused
  <1>4. Whole(parts)' /\ Lagging' /\ (slips' = 0) = FALSE
    BY CleanNumbers DEF CallRefused, Whole, Lagging
  <1>5. AcksFollow'
    BY DEF CallRefused, Clean, AcksFollow
  <1>6. Fluent(Stream)'
    BY <1>1 DEF Clean
  <1> QED BY <1>3, <1>4, <1>5, <1>6 DEF Clean

\* What Append does to the messages on their way.
LEMMA SentLast ==
    ASSUME NEW q \in Seq(Message), NEW m \in Message
    PROVE  /\ Append(q, m) \in Seq(Message) /\ Append(q, m) # <<>>
           /\ Len(Append(q, m)) = Len(q) + 1 /\ Len(q) \in Nat
           /\ \A k \in 1..Len(q) : Append(q, m)[k] = q[k]
           /\ Append(q, m)[Len(q) + 1] = m
           /\ q = <<>> <=> Len(q) = 0
  BY AppendProperties, LenProperties, EmptySeq

\* A request goes out.
LEMMA CleanCall ==
    ASSUME TypeInv, Clean, NEW o \in WireOps \cup {"layout"}, Call(o)
    PROVE  Clean'
  <1> DEFINE m == [call |-> call + 1, op |-> o]
  <1>1. o \in Ops /\ o # "ack" /\ call + 1 \in 1..MaxCalls
    BY WireAssumption
    DEF WireAssumption, Call, Ops, Simple, Confirming, TypeInv, WireTypeOK
  <1>2. m \in Message
    BY <1>1 DEF Message
  <1>3. m.call = call + 1 /\ m.op # "ack"
    BY <1>1
  <1>4. \/ toDevice' = Append(toDevice, m) /\ refused' = refused
        \/ toDevice' = toDevice /\ refused' = TRUE
    BY <1>2, SentTypes DEF Call
  <1> HIDE DEF m
  <1>5. Stream' = Stream
    BY DEF Call, Held, Stream
  <1>6. /\ Owed' = Owed /\ Base' = Base /\ call' + 1 = call + 2
        /\ call + 2 = (call + 1) + 1 /\ flow' = flow
        /\ call' = call + 1 /\ pc' = "first" /\ ~refused
    BY CleanNumbers DEF Call, Owed, Base, deviceVars
  <1>7. Bounded(Stream, Owed, flow.call, toDevice, Base, call + 1)'
    <2>1. CASE toDevice' = Append(toDevice, m)
      <3>1. Bounded(Stream, Owed, flow.call, Append(toDevice, m), Base,
                    (call + 1) + 1)
        BY <1>2, <1>3, BoundedState, BoundedSend, StreamTypes DEF Clean
      <3> QED BY <1>5, <1>6, <2>1, <3>1
    <2>2. CASE toDevice' = toDevice
      <3>1. Bounded(Stream, Owed, flow.call, toDevice, Base, call + 2)
        BY BoundedState, BoundedWeaker, StreamTypes, CleanNumbers, SMTT(30) DEF Clean
      <3> QED BY <1>5, <1>6, <2>2, <3>1
    <2> QED BY <1>4, <2>1, <2>2
  <1>8. Whole(parts)' /\ Lagging' /\ Fluent(Stream)'
    BY <1>5 DEF Call, Clean, Whole, Lagging
  <1>9. AcksFollow'
    <2>1. CASE toDevice' = Append(toDevice, m) /\ refused' = refused
      <3>1. \A k \in 1..Len(toDevice') : toDevice'[k].op = "ack" =>
               /\ k \in 1..Len(toDevice) /\ toDevice'[k] = toDevice[k]
               /\ k # 1 => toDevice'[k - 1] = toDevice[k - 1]
               /\ k = 1 => toDevice'[1] = toDevice[1]
        BY <1>2, <1>3, <2>1, SentLast, StreamTypes
      <3>2. toDevice' # <<>> /\ toDevice'[Len(toDevice')].call = call'
        BY <1>2, <1>3, <1>6, <2>1, SentLast, StreamTypes, SMTT(30)
      <3> QED BY <1>6, <3>1, <3>2 DEF Clean, AcksFollow
    <2>2. CASE toDevice' = toDevice /\ refused' = TRUE
      BY <1>6, <2>2 DEF Clean, AcksFollow
    <2> QED BY <1>4, <2>1, <2>2
  <1>10. ASSUME slips' = 0 PROVE Buttons' /\ Expected'
    <2>1. slips = 0 /\ toDevice = <<>> /\ Stream = <<>>
      BY <1>10, BoundedState DEF Call
    <2>2. Buttons'
      BY <1>5, <2>1 DEF Buttons
    <2>3. \A i \in 1..Len(toDevice') : toDevice'[i].op # "ack"
      BY <1>2, <1>3, <1>4, <2>1, SentLast, StreamTypes
    <2> QED BY <2>2, <2>3 DEF Expected
  <1> QED BY <1>7, <1>8, <1>9, <1>10 DEF Clean

\* A button is confirmed; the call goes on, or its last round is over.
LEMMA CleanConfirms ==
    ASSUME TypeInv, Clean, pc # "idle", ~refused, parts' = <<>>,
           \/ pc' = "first" /\ slips' = slips
           \/ pc' = "idle" /\ slips' = slips + 1,
           UNCHANGED <<call, flow>>,
           Sent([call |-> call, op |-> "ack"]),
           Stream[1].kind = "button",
           NEW m \in 1..Len(Stream), Closes(Stream[m]),
           Stream' = Drop(Stream, m)
    PROVE  Clean'
  <1> DEFINE a == [call |-> call, op |-> "ack"]
  <1>1. /\ Stream \in Seq(Packet) /\ toDevice \in Seq(Message)
        /\ Len(Stream) \in Nat /\ m \in 0..Len(Stream) /\ Stream # <<>>
        /\ 1 \in 1..Len(Stream)
    BY StreamTypes, LenProperties, EmptySeq
  <1>2. a \in Message /\ a.call = call
    <2>1. call \in 1..MaxCalls
      BY WireAssumption DEF WireAssumption, TypeInv, WireTypeOK
    <2> QED BY <2>1 DEF Message
  <1>3. \/ toDevice' = Append(toDevice, a) /\ refused' = refused
        \/ toDevice' = toDevice /\ refused' = TRUE
    BY <1>2, SentTypes
  <1>4. a.op = "ack"
    OBVIOUS
  <1> HIDE DEF a
  <1>5. Fluent(Stream)'
    BY <1>1, FluentDrop DEF Clean
  <1>6. Owed' = Owed /\ Base' = Base
    BY CleanNumbers DEF Owed, Base
  <1>7. Bounded(Stream, Owed, flow.call, toDevice, Base, call + 1)'
    <2> DEFINE d == Drop(Stream, m)
    <2>1. Bounded(d, Owed, flow.call, toDevice, Base + 1, call + 1)
      BY <1>1, BoundedState, BoundedRead DEF Clean
    <2>2. d \in Seq(Packet)
      BY <1>1, DropProperties
    <2> HIDE DEF d
    <2>3. CASE toDevice' = toDevice
      <3>1. Bounded(d, Owed, flow.call, toDevice, Base, call + 1)
        BY <1>1, <2>1, <2>2, BoundedState, BoundedWeaker
      <3> QED BY <1>6, <2>3, <3>1 DEF d
    <2>4. CASE toDevice' = Append(toDevice, a)
      <3>1. Bounded(d, Owed, flow.call, toDevice, Base, call)
        BY <1>1, <2>1, <2>2, BoundedState, BoundedWeaker, CleanNumbers, SMTT(30)
      <3>2. Bounded(d, Owed, flow.call, Append(toDevice, a), Base, call + 1)
        BY <1>1, <1>2, <2>2, <3>1, BoundedState, BoundedSend, CleanNumbers
      <3> QED BY <1>6, <2>4, <3>2 DEF d
    <2> QED BY <1>3, <2>3, <2>4
  <1>8. Whole(parts)' /\ Lagging'
    BY DEF Whole, Lagging
  <1>9. AcksFollow'
    <2>1. CASE toDevice' = Append(toDevice, a) /\ refused' = refused
      <3>1. ASSUME NEW k \in 1..Len(toDevice'), toDevice'[k].op = "ack"
            PROVE  IF k = 1 THEN flow = None \/ flow.call = toDevice'[1].call
                   ELSE toDevice'[k].call = toDevice'[k - 1].call
        <4>1. CASE k \in 1..Len(toDevice)
          <5>1. /\ toDevice'[k] = toDevice[k]
                /\ k # 1 => toDevice'[k - 1] = toDevice[k - 1]
            BY <1>1, <1>2, <2>1, <4>1, SentLast
          <5> QED BY <3>1, <4>1, <5>1 DEF Clean, AcksFollow
        <4>2. CASE k = Len(toDevice) + 1
          <5>1. /\ toDevice'[k].call = call
                /\ k = 1 <=> toDevice = <<>>
                /\ k # 1 => /\ k - 1 = Len(toDevice)
                            /\ toDevice'[k - 1] = toDevice[Len(toDevice)]
            BY <1>1, <1>2, <2>1, <4>2, SentLast
          <5> QED BY <5>1 DEF Clean, AcksFollow
        <4> QED BY <1>1, <1>2, <2>1, <4>1, <4>2, SentLast
      <3>2. toDevice' # <<>> /\ toDevice'[Len(toDevice')].call = call
        BY <1>1, <1>2, <2>1, SentLast
      <3> QED BY <3>1, <3>2 DEF AcksFollow
    <2>2. CASE toDevice' = toDevice /\ refused' = TRUE
      BY <2>2 DEF Clean, AcksFollow
    <2> QED BY <1>3, <2>1, <2>2
  <1>10. ASSUME slips' = 0 PROVE Buttons' /\ Expected'
    <2>1. slips = 0
      BY <1>10, CleanNumbers
    <2>2. flow # None /\ ~flow.acked
      BY <1>1, <2>1 DEF Clean, Buttons
    <2>3. toDevice = <<>>
      BY <1>1, <2>1, BoundedState
    <2>4. flow.call = call
      BY <2>2, <2>3 DEF Clean, AcksFollow
    <2>5. \A i \in 1..Len(toDevice') : toDevice'[i].call = call
      BY <1>1, <1>2, <1>3, <2>3, SentLast
    <2>6. Buttons'
      BY <1>1, <2>1, ButtonsDrop DEF Clean
    <2> QED BY <2>2, <2>4, <2>5, <2>6 DEF Expected
  <1> QED BY <1>5, <1>7, <1>8, <1>9, <1>10 DEF Clean

\* The simulator takes a message of the call it will wait on, if on any.
LEMMA TakesFollow ==
    ASSUME TypeInv, AcksFollow, toDevice # <<>>, toDevice' = Tail(toDevice),
           flow' = None \/ flow'.call = toDevice[1].call,
           UNCHANGED <<pc, refused, call>>
    PROVE  AcksFollow'
  <1>1. /\ Len(toDevice) \in Nat \ {0} /\ Len(toDevice') = Len(toDevice) - 1
        /\ toDevice' \in Seq(Message)
        /\ \A i \in 1..Len(toDevice') : toDevice'[i] = toDevice[i + 1]
    BY StreamTypes, HeadTailProperties, EmptySeq
  <1>2. /\ Len(toDevice') \in Nat
        /\ toDevice' = <<>> <=> Len(toDevice') = 0
    <2>1. \A q \in Seq(Message) : Len(q) \in Nat /\ (q = <<>> <=> Len(q) = 0)
      BY EmptySeq, LenProperties
    <2> QED BY <1>1, <2>1
  <1>3. ASSUME NEW k \in 1..Len(toDevice'), toDevice'[k].op = "ack"
        PROVE  IF k = 1 THEN flow' = None \/ flow'.call = toDevice'[1].call
               ELSE toDevice'[k].call = toDevice'[k - 1].call
    <2>1. /\ k + 1 \in 1..Len(toDevice) /\ k + 1 # 1 /\ (k + 1) - 1 = k
          /\ toDevice'[k] = toDevice[k + 1]
      BY <1>1
    <2>2. toDevice[k + 1].call = toDevice[k].call
      BY <1>3, <2>1 DEF AcksFollow
    <2>3. CASE k = 1
      BY <2>1, <2>2, <2>3
    <2>4. CASE k # 1
      <3>1. k - 1 \in 1..Len(toDevice') /\ (k - 1) + 1 = k
        BY <1>1, <2>4
      <3>2. toDevice'[k - 1] = toDevice[k]
        BY <1>1, <3>1
      <3> QED BY <2>1, <2>2, <2>4, <3>2
    <2> QED BY <2>3, <2>4
  <1>4. ASSUME pc' # "idle", ~refused'
        PROVE  IF toDevice' = <<>> THEN flow' = None \/ flow'.call = call'
               ELSE toDevice'[Len(toDevice')].call = call'
    <2>1. toDevice[Len(toDevice)].call = call'
      BY <1>4 DEF AcksFollow
    <2>2. CASE toDevice' = <<>>
      <3>1. Len(toDevice) = 1
        BY <1>1, <1>2, <2>2
      <3> QED BY <2>1, <2>2, <3>1
    <2>3. CASE toDevice' # <<>>
      <3>1. /\ Len(toDevice') \in 1..Len(toDevice')
            /\ Len(toDevice') + 1 = Len(toDevice)
        BY <1>1, <1>2, <2>3
      <3>2. toDevice'[Len(toDevice')] = toDevice[Len(toDevice)]
        BY <1>1, <3>1
      <3> QED BY <2>1, <2>3, <3>2
    <2> QED BY <2>2, <2>3
  <1> QED BY <1>3, <1>4 DEF AcksFollow

\* The simulator is told that what it waits on was confirmed.
LEMMA CleanAcked ==
    ASSUME TypeInv, Clean, toDevice # <<>>, toDevice' = Tail(toDevice),
           toDevice[1].op = "ack",
           flow # None, flow' = [flow EXCEPT !.acked = TRUE], Stream' = Stream,
           UNCHANGED <<pc, parts, call, slips, refused>>
    PROVE  Clean'
  <1>1. /\ toDevice \in Seq(Message) /\ Stream \in Seq(Packet)
        /\ Len(toDevice) \in Nat \ {0}
    BY StreamTypes, EmptySeq
  <1>2. flow.call = toDevice[1].call
    BY <1>1 DEF Clean, AcksFollow
  <1>3. flow \in Flow /\ flow' \in Flow
    BY DEF TypeInv, WireTypeOK, Flow
  <1>4. flow'.call = flow.call /\ flow'.acked /\ flow' # None /\ Base' = Base
    BY <1>3, WireAssumption DEF WireAssumption, Flow, Base
  <1>5. Owed' = 1
    BY <1>4 DEF Owed
  <1>6. Bounded(Stream, 1, flow.call, Tail(toDevice), Base, call + 1)
    BY <1>1, <1>2, BoundedState, BoundedAck DEF Clean
  <1>7. Bounded(Stream, Owed, flow.call, toDevice, Base, call + 1)'
    BY <1>4, <1>5, <1>6
  <1>8. AcksFollow'
    BY <1>2, <1>4, TakesFollow DEF Clean
  <1>9. Fluent(Stream)' /\ Whole(parts)' /\ Lagging'
    BY DEF Clean, Lagging
  <1>10. ASSUME slips' = 0 PROVE Buttons' /\ Expected'
    <2>1. slips = 0 /\ Len(toDevice) = 1 /\ Stream = <<>>
      BY <1>10, <1>1, BoundedState
    <2>2. toDevice' = <<>>
      <3>1. Tail(toDevice) \in Seq(Message) /\ Len(Tail(toDevice)) = 0
        BY <1>1, <2>1, HeadTailProperties
      <3>2. \A q \in Seq(Message) : Len(q) = 0 => q = <<>>
        BY EmptySeq
      <3> QED BY <3>1, <3>2
    <2>3. Len(Stream') = 0
      BY <2>1
    <2>4. Buttons'
      BY <2>3 DEF Buttons
    <2>5. \A i \in 1..Len(toDevice') : FALSE
      BY <2>2
    <2> QED BY <2>4, <2>5 DEF Expected
  <1> QED BY <1>7, <1>8, <1>9, <1>10 DEF Clean

\* The simulator has an answer ready for the call it took a message of, or for
\* the one whose button was confirmed.
LEMMA CleanAnswers ==
    ASSUME TypeInv, Clean, NEW c \in 1..MaxCalls, NEW kind \in Kinds,
           NEW n \in 0..MaxConts, NEW o \in Confirming,
           out = <<>>, out' = Answer(c, kind, n),
           \/ kind = "button" /\ flow' = [call |-> c, op |-> o, acked |-> FALSE]
           \/ kind # "button" /\ flow' = None,
           \/ /\ toDevice # <<>> /\ c = toDevice[1].call
              /\ toDevice' = Tail(toDevice)
           \/ /\ flow # None /\ flow.acked /\ c = flow.call
              /\ toDevice' = toDevice,
           UNCHANGED <<pc, parts, call, slips, refused, fromDevice>>
    PROVE  Clean'
  <1> DEFINE a == Answer(c, kind, n)
  <1>1. /\ toDevice \in Seq(Message) /\ Stream \in Seq(Packet)
        /\ a \in Seq(Packet) /\ Held \in Seq(Packet)
        /\ fromDevice \in Seq(Packet)
    BY StreamTypes, AnswerTypes
  <1>2. Stream' = Stream \o a
    <2>1. fromDevice \o out = fromDevice
      BY <1>1, ConcatEmptySeq
    <2>2. Stream' = Held \o (fromDevice \o a)
      BY DEF Stream, Held
    <2> HIDE DEF a
    <2>3. Stream = Held \o fromDevice
      BY <2>1 DEF Stream
    <2>4. (Held \o fromDevice) \o a = Held \o (fromDevice \o a)
      BY <1>1, ConcatAssociative, SMTT(30)
    <2> QED BY <2>2, <2>3, <2>4
  <1>3. /\ flow' = None \/ (flow'.call = c /\ ~flow'.acked)
        /\ kind = "button" => flow' # None /\ ~flow'.acked
    <2> DEFINE f == [call |-> c, op |-> o, acked |-> FALSE]
    <2>1. f \in Flow /\ f.call = c /\ ~f.acked
      BY DEF Flow
    <2>2. None \notin Flow
      BY WireAssumption DEF WireAssumption, Flow
    <2> HIDE DEF f
    <2>3. f # None
      BY <2>1, <2>2
    <2>4. \/ kind = "button" /\ flow' = f
          \/ kind # "button" /\ flow' = None
      BY DEF f
    <2> QED BY <2>1, <2>3, <2>4
  <1>4. Owed' = 0 /\ Base' = Base
    BY <1>3 DEF Owed, Base
  <1>5. Bounded(Stream, Owed, flow.call, toDevice, Base, call + 1)'
    <2> DEFINE gc == flow'.call
    <2> HIDE DEF a, gc
    <2>1. CASE /\ toDevice # <<>> /\ c = toDevice[1].call
               /\ toDevice' = Tail(toDevice)
      <3>1. Bounded(Stream \o Answer(c, kind, n), 0, gc, Tail(toDevice), Base,
                    call + 1)
        BY <1>1, <2>1, BoundedState, BoundedAnswer DEF Clean
      <3> QED BY <1>2, <1>4, <2>1, <3>1 DEF a, gc
    <2>2. CASE /\ flow # None /\ flow.acked /\ c = flow.call
               /\ toDevice' = toDevice
      <3>1. Owed = 1
        BY <2>2 DEF Owed
      <3>2. Bounded(Stream, 1, flow.call, toDevice, Base, call + 1)
        BY <3>1 DEF Clean
      <3>3. Bounded(Stream \o Answer(c, kind, n), 0, gc, toDevice, Base,
                    call + 1)
        BY <1>1, <2>2, <3>2, BoundedState, BoundedConfirmed
      <3> QED BY <1>2, <1>4, <2>2, <3>3 DEF a, gc
    <2> QED BY <2>1, <2>2
  <1>6. Fluent(Stream)'
    BY <1>1, <1>2, FluentAnswer DEF Clean
  <1>7. AcksFollow'
    <2>1. CASE /\ toDevice # <<>> /\ c = toDevice[1].call
               /\ toDevice' = Tail(toDevice)
      BY <1>3, <2>1, TakesFollow DEF Clean
    <2>2. CASE /\ flow # None /\ flow.acked /\ c = flow.call
               /\ toDevice' = toDevice
      BY <1>3, <2>2 DEF Clean, AcksFollow
    <2> QED BY <2>1, <2>2
  <1>8. ASSUME slips' = 0 PROVE Buttons' /\ Expected'
    <2>1. slips = 0
      BY <1>8
    <2>2. Stream = <<>> /\ toDevice' = <<>>
      <3>1. CASE toDevice # <<>> /\ toDevice' = Tail(toDevice)
        <4>1. Len(toDevice) = 1 /\ Stream = <<>>
          BY <2>1, <3>1, BoundedState
        <4>2. Len(toDevice') = 0 /\ toDevice' \in Seq(Message)
          BY <1>1, <3>1, <4>1, HeadTailProperties
        <4> QED BY <4>1, <4>2, EmptySeq
      <3>2. CASE flow # None /\ flow.acked /\ toDevice' = toDevice
        <4>1. Owed = 1
          BY <3>2 DEF Owed
        <4> QED BY <2>1, <3>2, <4>1, BoundedState
      <3> QED BY <3>1, <3>2
    <2>3. Stream' = a
      <3>1. <<>> \o a = a
        BY <1>1, ConcatEmptySeq
      <3> QED BY <1>2, <2>2, <3>1
    <2>4. \A j \in 1..Len(Stream') : Stream'[j].kind = kind
      <3>1. /\ Len(a) = n + 1
            /\ \A j \in 1..n + 1 : a[j] = [call |-> c, kind |-> kind,
                                            part |-> j - 1, conts |-> n]
        BY AnswerTypes
      <3> HIDE DEF a
      <3> QED BY <2>3, <3>1
    <2>5. \A i \in 1..Len(toDevice') : FALSE
      BY <2>2
    <2> QED BY <1>3, <2>4, <2>5 DEF Buttons, Expected
  <1>9. Whole(parts)' /\ Lagging'
    BY DEF Clean, Lagging
  <1> QED BY <1>5, <1>6, <1>7, <1>8, <1>9 DEF Clean

-----------------------------------------------------------------------------
(* Every step keeps it.                                                    *)

\* A client that puts the next packet to what it holds has the next part of one
\* message, and all of it when it has as many packets as announced.
LEMMA NextPacket ==
    ASSUME TypeInv, Clean, pc # "idle", fromDevice # <<>>,
           pc = "first" => Head(fromDevice).part = 0,
           NEW ps, ps = Append(Held, Head(fromDevice))
    PROVE  /\ ps \in Seq(Packet) /\ ps # <<>> /\ Stream # <<>>
           /\ Len(ps) \in 1..Len(Stream) /\ Whole(ps) /\ ps[1] = Stream[1]
           /\ Len(ps) > ps[1].conts => Closes(Stream[Len(ps)])
           /\ Stream = ps \o (Tail(fromDevice) \o out)
           /\ Drop(Stream, Len(ps)) = Tail(fromDevice) \o out
  <1> DEFINE h == Head(fromDevice)
             l == Len(Held)
             r == Tail(fromDevice) \o out
  <1>1. /\ Held \in Seq(Packet) /\ fromDevice \in Seq(Packet)
        /\ out \in Seq(Packet) /\ Stream \in Seq(Packet)
        /\ Tail(fromDevice) \in Seq(Packet) /\ h \in Packet
    BY StreamTypes, HeadTailProperties
  <1>2. /\ ps \in Seq(Packet) /\ ps # <<>> /\ Len(ps) = l + 1 /\ l \in Nat
        /\ \A i \in 1..l : ps[i] = Held[i]
        /\ ps[l + 1] = h
    BY <1>1, AppendProperties, LenProperties
  <1>3. r \in Seq(Packet) /\ Stream = ps \o r
    BY <1>1, StreamHead, MoveHead
  <1> HIDE DEF h, r
  <1>4. /\ Len(ps) \in 0..Len(Stream)
        /\ Drop(Stream, Len(ps)) = r
        /\ \A i \in 1..Len(ps) : i \in 1..Len(Stream) /\ Stream[i] = ps[i]
    BY <1>2, <1>3, DropPrefix
  <1>5. /\ Len(Stream) \in Nat /\ Len(ps) \in 1..Len(Stream)
        /\ 1 \in 1..Len(ps) /\ ps[1] = Stream[1]
    BY <1>1, <1>2, <1>4, LenProperties
  <1>6. Stream # <<>>
    BY <1>5
  <1> HIDE DEF l
  <1>7. /\ Whole(ps)
        /\ Len(ps) > ps[1].conts => Closes(ps[Len(ps)])
    <2>1. CASE pc = "first"
      <3>1. Held = <<>> /\ l = 0
        BY <2>1 DEF Held, l
      <3>2. Len(ps) = 1 /\ ps[1] = h /\ DOMAIN ps = {1}
        BY <1>2, <3>1
      <3>3. h.part = 0 /\ h = [h EXCEPT !.part = 0] /\ h.conts \in Nat
        BY <1>1, <2>1, WireAssumption, SMTT(30) DEF WireAssumption, Packet, h
      <3> QED BY <3>2, <3>3 DEF Whole, Closes
    <2>2. CASE pc = "rest"
      <3> DEFINE x == Held[1]
                 y == Held[l]
      <3>1. /\ Held # <<>> /\ l \in Nat \ {0} /\ l <= x.conts /\ Whole(Held)
            /\ DOMAIN Held = 1..l
        <4>1. Held = parts /\ parts # <<>> /\ Len(parts) <= parts[1].conts
              /\ Whole(parts)
          BY <2>2 DEF TypeInv, PartsShape, Clean, Held
        <4> QED BY <1>1, <1>2, <4>1, EmptySeq DEF l
      <3>2. /\ 1 \in 1..l /\ l \in 1..l /\ l \in 1..Len(Stream) - 1
            /\ l + 1 \in 1..Len(ps)
        BY <1>2, <1>5, <3>1
      <3>3. x \in Packet /\ x.conts \in Nat /\ ps[1] = x /\ ps[l] = y
        <4>1. x \in Packet
          BY <1>1, <3>1, <3>2, FirstOf
        <4>2. x.conts \in Nat
          BY <4>1, WireAssumption DEF WireAssumption, Packet
        <4>3. ps[1] = x /\ ps[l] = y
          BY <1>2, <3>2
        <4> QED BY <4>1, <4>2, <4>3
      <3>4. y = [x EXCEPT !.part = l - 1]
        BY <3>1, <3>2 DEF Whole
      <3> HIDE DEF x, y
      <3>5. y.part = l - 1 /\ y.conts = x.conts /\ ~Closes(y)
        <4>1. y.part = l - 1 /\ y.conts = x.conts
          BY <3>3, <3>4 DEF Packet
        <4> QED BY <3>1, <3>3, <4>1 DEF Closes
      <3>6. Stream[l] = y /\ Stream[l + 1] = h
        BY <1>2, <1>4, <3>2, <3>3
      <3>7. h = [y EXCEPT !.part = y.part + 1]
        BY <3>2, <3>5, <3>6 DEF Clean, Fluent, Follows
      <3>8. h = [x EXCEPT !.part = l]
        <4>1. (l - 1) + 1 = l
          BY <3>1
        <4> QED BY <3>3, <3>4, <3>5, <3>7, <4>1 DEF Packet
      <3>9. ASSUME NEW i \in DOMAIN ps PROVE ps[i] = [ps[1] EXCEPT !.part = i - 1]
        <4>1. i \in 1..l + 1
          BY <1>2
        <4>2. CASE i \in 1..l
          <5>1. ps[i] = Held[i] /\ Held[i] = [Held[1] EXCEPT !.part = i - 1]
            BY <1>2, <3>1, <4>2 DEF Whole
          <5> QED BY <3>3, <5>1 DEF x
        <4>3. CASE i = l + 1
          <5>1. i - 1 = l
            BY <3>1, <4>3
          <5> QED BY <1>2, <3>3, <3>8, <4>3, <5>1
        <4> QED BY <3>1, <4>1, <4>2, <4>3
      <3>10. Len(ps) > ps[1].conts => Closes(ps[Len(ps)])
        <4>1. h.part = l /\ h.conts = x.conts
          BY <3>3, <3>8 DEF Packet
        <4>2. l + 1 > x.conts => l = x.conts
          BY <3>1, <3>3
        <4> QED BY <1>2, <3>3, <4>1, <4>2 DEF Closes
      <3> QED BY <3>9, <3>10 DEF Whole
    <2> QED BY <2>1, <2>2 DEF TypeInv, WireTypeOK
  <1>8. Len(ps) > ps[1].conts => Closes(Stream[Len(ps)])
    <2>1. Len(ps) \in 1..Len(ps)
      BY <1>2
    <2> QED BY <1>4, <1>7, <2>1
  <1> QED BY <1>2, <1>3, <1>4, <1>5, <1>6, <1>7, <1>8 DEF r

LEMMA CleanReading ==
    ASSUME TypeInv, Clean, pc # "idle", ~refused, fromDevice # <<>>,
           pc = "first" => Head(fromDevice).part = 0,
           Reads(Append(Held, Head(fromDevice)))
    PROVE  Clean'
  <1> DEFINE ps == Append(Held, Head(fromDevice))
             m == Len(ps)
  <1>1. /\ ps \in Seq(Packet) /\ ps # <<>> /\ Stream # <<>>
        /\ m \in 1..Len(Stream) /\ Whole(ps) /\ ps[1] = Stream[1]
        /\ m > ps[1].conts => Closes(Stream[m])
        /\ Stream = ps \o (Tail(fromDevice) \o out)
        /\ Drop(Stream, m) = Tail(fromDevice) \o out
    BY NextPacket
  <1>2. /\ fromDevice' = Tail(fromDevice) /\ call' = call /\ op' = op
        /\ IF m > ps[1].conts THEN Complete(ps)
           ELSE /\ pc' = "rest" /\ parts' = ps
                /\ UNCHANGED <<rounds, slips, toDevice, refused, deviceVars>>
    BY DEF Reads
  <1>3. Tail(fromDevice) \o out \in Seq(Packet)
    <2>1. /\ fromDevice \in Seq(Packet) /\ out \in Seq(Packet)
          /\ Tail(fromDevice) \in Seq(Packet)
      BY StreamTypes, HeadTailProperties
    <2> QED BY <2>1, ConcatProperties
  <1> HIDE DEF ps, m
  <1>4. CASE ~(m > ps[1].conts)
    <2>1. /\ pc' = "rest" /\ parts' = ps
          /\ UNCHANGED <<slips, toDevice, refused, flow, out>>
      BY <1>2, <1>4
    <2>2. Stream' = Stream
      BY <1>1, <1>2, <2>1 DEF Stream, Held
    <2> QED BY <1>1, <1>2, <2>1, <2>2, CleanReads
  <1>5. CASE m > ps[1].conts
    <2>1. Complete(ps) /\ Closes(Stream[m])
      BY <1>1, <1>2, <1>5
    <2>2. ASSUME pc' # "rest", out' = out PROVE Stream' = Drop(Stream, m)
      <3>1. <<>> \o (Tail(fromDevice) \o out) = Tail(fromDevice) \o out
        BY <1>3, ConcatEmptySeq
      <3> QED BY <1>1, <1>2, <2>2, <3>1 DEF Stream, Held
    <2>3. CASE Acknowledges(ps[1].kind)
      <3>1. /\ Sent([call |-> call, op |-> "ack"]) /\ parts' = <<>>
            /\ \/ pc' = "first" /\ slips' = slips
               \/ pc' = "idle" /\ slips' = slips + 1
            /\ UNCHANGED <<up, flow, out>>
        BY <2>1, <2>3 DEF Complete
      <3>2. Stream[1].kind = "button"
        BY <1>1, <2>3 DEF Acknowledges
      <3>3. Stream' = Drop(Stream, m)
        BY <2>2, <3>1
      <3> QED BY <1>1, <1>2, <2>1, <3>1, <3>2, <3>3, CleanConfirms
    <2>4. CASE ~Acknowledges(ps[1].kind) /\ Rejects(ps[1].kind)
      <3>1. /\ pc' = "idle" /\ parts' = <<>> /\ slips' = slips + 1
            /\ UNCHANGED <<toDevice, refused, flow, out>>
        BY <2>1, <2>4 DEF Complete, Fails
      <3>2. Stream' = Drop(Stream, m)
        BY <2>2, <3>1
      <3>3. m \in 0..Len(Stream)
        BY <1>1
      <3> QED BY <1>2, <3>1, <3>2, <3>3, CleanFails
    <2>5. CASE ~Acknowledges(ps[1].kind) /\ ~Rejects(ps[1].kind)
      <3>1. /\ pc' = "idle" /\ parts' = ps
            /\ UNCHANGED <<slips, toDevice, refused, flow, out>>
        BY <2>1, <2>5 DEF Complete
      <3>2. Stream' = Drop(Stream, m)
        BY <2>2, <3>1
      <3> QED BY <1>1, <1>2, <2>1, <3>1, <3>2, CleanReturns
    <2> QED BY <2>3, <2>4, <2>5
  <1> QED BY <1>4, <1>5

LEMMA CleanDevice ==
    ASSUME TypeInv, Clean, DeviceTakes \/ DeviceConfirmed
    PROVE  Clean'
  <1>1. toDevice \in Seq(Message)
    BY StreamTypes
  <1>2. CASE DeviceTakes
    <2> DEFINE m == toDevice[1]
    <2>1. /\ out = <<>> /\ toDevice # <<>> /\ toDevice' = Tail(toDevice)
          /\ UNCHANGED <<pc, parts, call, slips, refused, fromDevice>>
          /\ Head(toDevice) = m
      BY <1>2 DEF DeviceTakes, readVars
    <2>2. m \in Message /\ m.call \in 1..MaxCalls
      <3>1. Head(toDevice) \in Message
        BY <1>1, <2>1, HeadTailProperties
      <3> QED BY <2>1, <3>1 DEF Message
    <2> DEFINE c == m.call
    <2>3. ASSUME m.op # "ack", Proceeds(m.call, m.op) PROVE Clean'
      <3>1. m.op \in Ops
        BY <2>2, <2>3 DEF Message
      <3>2. PICK kind \in Kinds, n \in 0..MaxConts :
                /\ out' = Answer(m.call, kind, n)
                /\ \/ kind = "button" /\ m.op \in Confirming
                      /\ flow' = [call |-> m.call, op |-> m.op, acked |-> FALSE]
                   \/ kind # "button" /\ flow' = None
        BY <2>2, <2>3, <3>1, AnswersAre
      <3>3. CASE m.op \in Confirming
        BY <2>1, <2>2, <3>2, <3>3, CleanAnswers
      <3>4. CASE m.op \notin Confirming
        <4>1. "load" \in Confirming
          BY DEF Confirming
        <4> QED BY <2>1, <2>2, <3>2, <3>4, <4>1, CleanAnswers
      <3> QED BY <3>3, <3>4
    <2>4. ASSUME m.op = "ack", flow # None,
                 flow' = [flow EXCEPT !.acked = TRUE], UNCHANGED out
          PROVE  Clean'
      <3>1. Stream' = Stream
        BY <2>1, <2>4 DEF Stream, Held
      <3> QED BY <2>1, <2>4, <3>1, CleanAcked
    <2>5. ASSUME flow = None, out' = Answer(m.call, "failure", 0), UNCHANGED flow
          PROVE  Clean'
      <3>1. /\ "failure" \in Kinds /\ 0 \in 0..MaxConts
            /\ "load" \in Confirming /\ "failure" # "button" /\ flow' = None
        BY <2>5, WireAssumption DEF WireAssumption, Kinds, Confirming
      <3> QED BY <2>1, <2>2, <2>5, <3>1, CleanAnswers
    <2> QED BY <1>2, <2>1, <2>3, <2>4, <2>5 DEF DeviceTakes
  <1>3. CASE DeviceConfirmed
    <2>1. /\ out = <<>> /\ flow # None /\ flow.acked /\ toDevice' = toDevice
          /\ UNCHANGED <<pc, parts, call, slips, refused, fromDevice>>
      BY <1>3 DEF DeviceConfirmed, readVars
    <2>2. flow.call \in 1..MaxCalls /\ flow.op \in Ops /\ flow.op \in Confirming
      BY <1>3 DEF DeviceConfirmed, TypeInv, WireTypeOK, Ops
    <2>3. PICK kind \in Kinds, n \in 0..MaxConts :
              /\ out' = Answer(flow.call, kind, n)
              /\ \/ kind = "button" /\ flow.op \in Confirming
                    /\ flow' = [call |-> flow.call, op |-> flow.op,
                                acked |-> FALSE]
                 \/ kind # "button" /\ flow' = None
      BY <1>3, <2>2, AnswersAre DEF DeviceConfirmed
    <2> QED BY <2>1, <2>2, <2>3, CleanAnswers
  <1> QED BY <1>2, <1>3

LEMMA WireStep == ASSUME WireInv, [Next]_vars PROVE WireInv'
  <1>1. TypeInv /\ TypeInv'
    BY TypesStep DEF WireInv
  <1> SUFFICES ASSUME harm' = 0 PROVE Clean'
    BY <1>1 DEF WireInv
  <1>2. harm = 0
    <2>1. harm \in Nat
      BY <1>1, WireAssumption DEF WireAssumption, TypeInv, WireTypeOK
    <2>2. harm' = harm \/ harm' = harm + 1
      <3>1. ASSUME NEW o \in WireOps \cup {"layout"}, Call(o) PROVE harm' = harm
        BY <3>1 DEF Call
      <3>2. CASE ReceiveFirst \/ ReceiveRest
        BY <3>2 DEF ReceiveFirst, ReceiveRest, Reads
      <3>3. CASE CallRefused \/ Timeout \/ ReceiveError \/ ReceiveStray
        BY <3>3 DEF CallRefused, Timeout, ReceiveError, ReceiveStray
      <3>4. CASE DeviceTakes \/ DeviceConfirmed \/ DeviceSends \/ DeviceBoots
        BY <3>4 DEF DeviceTakes, DeviceConfirmed, DeviceSends, DeviceBoots
      <3>5. CASE Lose \/ DeviceDies
        BY <3>5 DEF Lose, DeviceDies
      <3>6. CASE UNCHANGED vars
        BY <3>6 DEF vars
      <3> QED BY <3>1, <3>2, <3>3, <3>4, <3>5, <3>6 DEF Next
    <2> QED BY <2>1, <2>2
  <1>3. Clean
    BY <1>2 DEF WireInv
  <1>4. /\ Held \in Seq(Packet) /\ fromDevice \in Seq(Packet)
        /\ out \in Seq(Packet) /\ fromDevice \o out \in Seq(Packet)
        /\ Stream \in Seq(Packet)
    BY <1>1, StreamTypes
  <1>5. CASE UNCHANGED vars
    <2>1. Stream' = Stream
      BY <1>5 DEF vars, readVars, Stream, Held
    <2> QED BY <1>1, <1>3, <1>5, <2>1, CleanStill DEF vars, readVars
  <1>6. CASE CallRefused
    BY <1>1, <1>3, <1>6, CleanRefused
  <1>7. ASSUME NEW o \in WireOps \cup {"layout"}, Call(o) PROVE Clean'
    BY <1>1, <1>3, <1>7, CleanCall
  <1>8. CASE Timeout \/ ReceiveError
    <2>1. /\ pc # "idle" /\ pc' = "idle" /\ parts' = <<>> /\ slips' = slips + 1
          /\ UNCHANGED <<call, toDevice, flow, fromDevice, out>>
      BY <1>8 DEF Timeout, ReceiveError, Fails
    <2>2. Stream' = fromDevice \o out
      <3>1. <<>> \o (fromDevice \o out) = fromDevice \o out
        BY <1>4, ConcatEmptySeq
      <3> QED BY <2>1, <3>1 DEF Stream, Held
    <2>3. /\ Len(Held) \in 0..Len(Stream)
          /\ Drop(Stream, Len(Held)) = fromDevice \o out
      BY <1>4, DropPrefix DEF Stream
    <2> QED BY <1>1, <1>3, <2>1, <2>2, <2>3, CleanFails
  <1>9. CASE ReceiveFirst
    <2>1. Held = <<>> /\ Append(<<>>, Head(fromDevice)) = <<Head(fromDevice)>>
      BY <1>9 DEF ReceiveFirst, Held
    <2> QED BY <1>1, <1>3, <1>9, <2>1, CleanReading DEF ReceiveFirst
  <1>10. CASE ReceiveStray
    <2>1. /\ pc = "first" /\ pc' = "idle" /\ parts' = <<>>
          /\ slips' = slips + 1 /\ fromDevice # <<>>
          /\ fromDevice' = Tail(fromDevice)
          /\ UNCHANGED <<call, toDevice, flow, out>>
      BY <1>10 DEF ReceiveStray, Fails
    <2>2. Held = <<>> /\ Held' = <<>>
      BY <2>1 DEF Held
    <2> DEFINE ps == Append(Held, Head(fromDevice))
               r == Tail(fromDevice) \o out
    <2>3. /\ ps \in Seq(Packet) /\ r \in Seq(Packet)
      BY <1>4, <2>1, AppendHead, MoveHead
    <2>4. Stream = ps \o r
      <3> HIDE DEF TypeInv
      <3> QED BY <1>1, <2>1, StreamHead
    <2>5. Stream' = r
      <3>1. <<>> \o r = r
        BY <2>3, ConcatEmptySeq
      <3> QED BY <2>1, <2>2, <3>1 DEF Stream
    <2> HIDE DEF ps, r
    <2>6. Len(ps) \in 0..Len(Stream) /\ Drop(Stream, Len(ps)) = r
      BY <2>3, <2>4, DropPrefix
    <2> QED BY <1>1, <1>3, <2>1, <2>5, <2>6, CleanFails
  <1>11. CASE ReceiveRest
    <2>1. Held = parts
      BY <1>11 DEF ReceiveRest, Held
    <2> QED BY <1>1, <1>3, <1>11, <2>1, CleanReading DEF ReceiveRest
  <1>12. CASE DeviceTakes \/ DeviceConfirmed
    BY <1>1, <1>3, <1>12, CleanDevice
  <1>13. CASE DeviceSends
    <2>1. Append(fromDevice, Head(out)) \o Tail(out) = fromDevice \o out
      BY <1>4, <1>13, AppendHead DEF DeviceSends
    <2>2. Stream' = Stream
      BY <1>13, <2>1 DEF DeviceSends, readVars, Stream, Held
    <2> QED BY <1>1, <1>3, <1>13, <2>2, CleanStill DEF DeviceSends, readVars
  <1>14. CASE DeviceBoots
    <2>1. Stream' = Stream
      BY <1>14 DEF DeviceBoots, readVars, Stream, Held
    <2> QED BY <1>1, <1>3, <1>14, <2>1, CleanStill DEF DeviceBoots, readVars
  <1>15. CASE Lose \/ DeviceDies
    BY <1>2, <1>15 DEF Lose, DeviceDies
  <1> QED
    BY <1>5, <1>6, <1>7, <1>8, <1>9, <1>10, <1>11, <1>12, <1>13, <1>14, <1>15
    DEF Next

LEMMA WireHolds == Spec => []WireInv
  <1>1. WireInv /\ [Next]_vars => WireInv'
    BY WireStep
  <1> QED BY WireInit, <1>1, PTL DEF Spec

\* What a client holds or returns is one message of the simulator, in order and
\* from its start, as long as no packet was lost, whichever calls timed out in the
\* middle of their answers before.
THEOREM WholeMessages == Spec => []MessageIsWhole
  <1>1. WireInv => MessageIsWhole
    BY DEF WireInv, Clean, Whole, MessageIsWhole
  <1> QED BY <1>1, WireHolds, PTL

\* An answer lags behind its request by no more calls than have ended with an
\* error, for any number of calls, errors and rounds of confirmation.
THEOREM AnswersLagBounded == Spec => []LagBounded
  <1>1. WireInv => LagBounded
    BY DEF WireInv, Clean, Lagging, LagBounded
  <1> QED BY <1>1, WireHolds, PTL

\* While no call has failed, an acknowledgement finds the simulator waiting for it
\* in the call it was sent in.
THEOREM AcksFindTheirFlow == Spec => []AcksExpected
  <1>1. WireInv => AcksExpected
    <2>1. ASSUME WireInv, harm = 0, slips = 0 PROVE Expected
      BY <2>1 DEF WireInv, Clean
    <2>2. ASSUME TypeInv PROVE DOMAIN toDevice = 1..Len(toDevice)
      BY <2>2, StreamTypes
    <2> QED BY <2>1, <2>2 DEF AcksExpected, Expected, WireInv
  <1> QED BY <1>1, WireHolds, PTL

-----------------------------------------------------------------------------
(* The safety core of ExchangeEnds: an exchange is a bounded piece of work. *)

\* Packets of the message under way that are still to be read.
Missing == parts[1].conts + 1 - Len(parts)

\* A round spent, a header read, or one packet less to read.
OneRoundLess  == pc' = "first" /\ rounds' < rounds
HeaderRead    == pc = "first" /\ pc' = "rest" /\ rounds' = rounds /\ Missing' > 0
OnePacketLess == /\ pc = "rest" /\ pc' = "rest" /\ rounds' = rounds
                 /\ Missing > Missing' /\ Missing' > 0
                 /\ parts'[1] = parts[1]

\* No exchange goes on for ever (trezor_debug.rs:146-181, 289-337, 352-371):
\* every step of an exchange leaves it where it is, ends it, spends one of the
\* rounds that recv_with_confirm has, reads a header, or leaves less of the
\* announced message to read, whose header, and with it its length, stays;
\* and no other call begins meanwhile.  A simulator that asks for a button
\* again and again, or packets of other calls, cannot hold it up.
ExchangesProgress ==
    [][pc # "idle" =>
          /\ UNCHANGED <<call, op>>
          /\ \/ UNCHANGED <<pc, rounds, parts>>
             \/ pc' = "idle"
             \/ OneRoundLess \/ HeaderRead \/ OnePacketLess]_vars

LEMMA ReadProgress ==
    ASSUME TypeInv, pc # "idle", fromDevice # <<>>,
           NEW ps \in Seq(Packet), Reads(ps),
           \/ pc = "first" /\ Len(ps) = 1
           \/ /\ pc = "rest" /\ Len(ps) = Len(parts) + 1
              /\ ps[1] = parts[1]
    PROVE  /\ UNCHANGED <<call, op>>
           /\ pc' = "idle" \/ OneRoundLess \/ HeaderRead \/ OnePacketLess
  <1>0. Len(parts) \in Nat /\ rounds \in Nat /\ ps # <<>>
    <2>1. parts \in Seq(Packet) /\ rounds \in Nat
      BY WireAssumption DEF WireAssumption, TypeInv, WireTypeOK
    <2>2. Len(parts) \in Nat /\ Len(ps) # 0
      BY <2>1
    <2> QED BY <2>1, <2>2, EmptySeq
  <1>1. ps[1].conts \in Nat /\ Len(ps) \in Nat
    BY <1>0, FirstOf
  <1>2. CASE ~(Len(ps) > ps[1].conts)
    <2>1. pc' = "rest" /\ parts' = ps /\ UNCHANGED rounds
      BY <1>2 DEF Reads
    <2>2. Missing' = ps[1].conts + 1 - Len(ps) /\ Missing' > 0
      BY <1>1, <1>2, <2>1 DEF Missing
    <2>3. CASE pc = "first"
      BY <2>1, <2>2, <2>3 DEF HeaderRead, Reads
    <2>4. CASE pc = "rest"
      <3>1. Len(ps) = Len(parts) + 1 /\ ps[1] = parts[1]
        BY <2>4
      <3>2. Missing > Missing'
        BY <1>0, <1>1, <2>2, <3>1 DEF Missing
      <3> QED BY <2>1, <2>2, <2>4, <3>1, <3>2 DEF OnePacketLess, Reads
    <2> QED BY <2>3, <2>4
  <1>3. CASE Complete(ps)
    <2>1. \/ pc' = "idle"
          \/ pc' = "first" /\ rounds' = rounds - 1
      BY <1>3 DEF Complete, Fails
    <2> QED BY <1>0, <2>1 DEF OneRoundLess, Reads
  <1> QED BY <1>2, <1>3 DEF Reads

LEMMA ExchangeStep ==
    ASSUME TypeInv, [Next]_vars, pc # "idle"
    PROVE  /\ UNCHANGED <<call, op>>
           /\ \/ UNCHANGED <<pc, rounds, parts>>
              \/ pc' = "idle"
              \/ OneRoundLess \/ HeaderRead \/ OnePacketLess
  <1>1. CASE ReceiveFirst
    <2>1. /\ <<Head(fromDevice)>> \in Seq(Packet)
          /\ Len(<<Head(fromDevice)>>) = 1
          /\ pc = "first" /\ fromDevice # <<>>
          /\ Reads(<<Head(fromDevice)>>)
      BY <1>1, ReadTypes DEF ReceiveFirst
    <2> QED BY <2>1, ReadProgress
  <1>2. CASE ReceiveRest
    <2>1. /\ parts \in Seq(Packet) /\ parts # <<>>
          /\ Head(fromDevice) \in Packet
          /\ pc = "rest" /\ fromDevice # <<>>
          /\ Reads(Append(parts, Head(fromDevice)))
      BY <1>2, ReadTypes DEF ReceiveRest, TypeInv, WireTypeOK, PartsShape
    <2>2. /\ Append(parts, Head(fromDevice)) \in Seq(Packet)
          /\ Len(Append(parts, Head(fromDevice))) = Len(parts) + 1
          /\ Append(parts, Head(fromDevice))[1] = parts[1]
      BY <2>1, AppendProperties, EmptySeq
    <2> QED BY <2>1, <2>2, ReadProgress
  <1>3. CASE Timeout \/ ReceiveError \/ ReceiveStray
    BY <1>3 DEF Timeout, ReceiveError, ReceiveStray, Fails
  <1>4. ASSUME CallRefused \/ \E o \in WireOps \cup {"layout"} : Call(o)
        PROVE  FALSE
    BY <1>4 DEF CallRefused, Call
  <1>5. CASE \/ UNCHANGED vars
             \/ DeviceTakes \/ DeviceConfirmed \/ DeviceSends \/ DeviceBoots
             \/ Lose \/ DeviceDies
    BY <1>5
    DEF vars, readVars, DeviceTakes, DeviceConfirmed, DeviceSends,
        DeviceBoots, Lose, DeviceDies
  <1> QED BY <1>1, <1>2, <1>3, <1>4, <1>5 DEF Next

\* Every exchange is over after boundedly many rounds and packets.
THEOREM ExchangesAreBounded == Spec => ExchangesProgress
  <1>1. ASSUME TypeInv, [Next]_vars
        PROVE  [pc # "idle" =>
                   /\ UNCHANGED <<call, op>>
                   /\ \/ UNCHANGED <<pc, rounds, parts>>
                      \/ pc' = "idle"
                      \/ OneRoundLess \/ HeaderRead \/ OnePacketLess]_vars
    BY <1>1, ExchangeStep
  <1> QED BY <1>1, TypesHold, PTL DEF Spec, ExchangesProgress
=============================================================================

---------------------------- MODULE Bridge_proofs ----------------------------
(***************************************************************************)
(* Theorems about module Bridge, for any number of starts, reports and     *)
(* connections: types, the order in which reports reach the emulator, that *)
(* a TCP bridge that was stopped delivers nothing and one that is up loses *)
(* nothing, and that what has ended stays so.                              *)
(***************************************************************************)
EXTENDS Bridge, SequenceTheorems, TLAPS

-----------------------------------------------------------------------------
(* The reports of one generation: p read by the thread, h in hand, c in    *)
(* the channel, o received.                                                *)

Rising(q) == \A i, j \in 1..Len(q) : i < j => q[i] < q[j]

\* What the emulator has comes before what is in hand, and that before what
\* is queued.
Flow(p, h, c, o) ==
    /\ p \in Nat /\ h \in 0..p /\ c \in Seq(1..p) /\ o \in Seq(1..p)
    /\ Rising(c) /\ Rising(o)
    /\ \A i \in 1..Len(o), j \in 1..Len(c) : o[i] < c[j]
    /\ h # 0 => /\ \A i \in 1..Len(o) : o[i] < h
                /\ \A j \in 1..Len(c) : h < c[j]

\* Nothing is missing from the start of what was received to the end of the
\* channel.
Gapless(c, o) ==
    /\ \A i \in 1..Len(o) : o[i] = i
    /\ \A j \in 1..Len(c) : c[j] = Len(o) + j

LEMMA TailOf ==
    ASSUME NEW S, NEW c \in Seq(S), c # <<>>
    PROVE  /\ Tail(c) \in Seq(S) /\ Len(Tail(c)) = Len(c) - 1
           /\ \A i \in 1..Len(Tail(c)) : Tail(c)[i] = c[i + 1]
           /\ Head(c) \in S /\ Head(c) = c[1] /\ Len(c) \in Nat \ {0}
  BY HeadTailProperties, EmptySeq, LenProperties

LEMMA AppendOf ==
    ASSUME NEW S, NEW c \in Seq(S), NEW e \in S
    PROVE  /\ Append(c, e) \in Seq(S) /\ Len(Append(c, e)) = Len(c) + 1
           /\ \A i \in 1..Len(c) : Append(c, e)[i] = c[i]
           /\ Append(c, e)[Len(c) + 1] = e
           /\ Len(c) \in Nat
  BY AppendProperties, LenProperties

LEMMA RisingTail ==
    ASSUME NEW p \in Nat, NEW c \in Seq(1..p), c # <<>>, Rising(c)
    PROVE  Rising(Tail(c)) /\ \A j \in 1..Len(Tail(c)) : Head(c) < Tail(c)[j]
  <1> DEFINE d == Tail(c)
             n == Len(c)
  <1>1. /\ Len(d) = n - 1 /\ n \in Nat \ {0}
        /\ \A i \in 1..Len(d) : d[i] = c[i + 1]
        /\ Head(c) = c[1]
    BY TailOf
  <1>2. \A i, j \in 1..n : i < j => c[i] < c[j]
    BY DEF Rising
  <1> HIDE DEF d, n
  <1>3. ASSUME NEW i \in 1..Len(d), NEW j \in 1..Len(d), i < j
        PROVE  d[i] < d[j]
    <2>1. i + 1 \in 1..n /\ j + 1 \in 1..n /\ i + 1 < j + 1
      BY <1>1, <1>3
    <2> QED BY <2>1, <1>1, <1>2
  <1>4. ASSUME NEW j \in 1..Len(d) PROVE Head(c) < d[j]
    <2>1. 1 \in 1..n /\ j + 1 \in 1..n /\ 1 < j + 1
      BY <1>1
    <2> QED BY <2>1, <1>1, <1>2
  <1> QED BY <1>3, <1>4 DEF Rising, d

LEMMA RisingAppend ==
    ASSUME NEW p \in Nat, NEW c \in Seq(1..p), NEW e \in 1..p, Rising(c),
           \A i \in 1..Len(c) : c[i] < e
    PROVE  Rising(Append(c, e))
  <1> DEFINE d == Append(c, e)
             n == Len(c)
  <1>1. /\ Len(d) = n + 1 /\ n \in Nat /\ d[n + 1] = e
        /\ \A i \in 1..n : d[i] = c[i]
    BY AppendOf
  <1>2. \A i, j \in 1..n : i < j => c[i] < c[j]
    BY DEF Rising
  <1> HIDE DEF d, n
  <1>3. ASSUME NEW i \in 1..Len(d), NEW j \in 1..Len(d), i < j
        PROVE  d[i] < d[j]
    <2>1. i \in 1..n
      BY <1>1, <1>3
    <2>2. CASE j \in 1..n
      BY <2>1, <2>2, <1>1, <1>2, <1>3
    <2>3. CASE j = n + 1
      BY <2>1, <2>3, <1>1 DEF n
    <2> QED BY <2>2, <2>3, <1>1
  <1> QED BY <1>3 DEF Rising, d

\* The thread reads a report: it is lost, or it goes into the channel.
LEMMA FlowReads ==
    ASSUME NEW p, NEW h, NEW c, NEW o, Flow(p, h, c, o)
    PROVE  Flow(p + 1, h, c, o) /\ Flow(p + 1, h, Append(c, p + 1), o)
  <1>1. /\ p \in Nat /\ p + 1 \in Nat /\ h \in 0..p
        /\ c \in Seq(1..p) /\ o \in Seq(1..p)
        /\ Len(c) \in Nat /\ Len(o) \in Nat
        /\ c \in [1..Len(c) -> 1..p] /\ o \in [1..Len(o) -> 1..p]
    BY LenProperties DEF Flow
  <1>2. c \in Seq(1..(p + 1)) /\ o \in Seq(1..(p + 1)) /\ h \in 0..(p + 1)
    <2>1. \A i \in 1..Len(c) : c[i] \in 1..(p + 1)
      BY <1>1
    <2>2. \A i \in 1..Len(o) : o[i] \in 1..(p + 1)
      BY <1>1
    <2> QED BY <2>1, <2>2, <1>1, ElementOfSeq, SeqDef
  <1>3. Flow(p + 1, h, c, o)
    BY <1>1, <1>2 DEF Flow
  <1> DEFINE d == Append(c, p + 1)
  <1>4. /\ d \in Seq(1..(p + 1)) /\ Len(d) = Len(c) + 1
        /\ \A i \in 1..Len(c) : d[i] = c[i]
        /\ d[Len(c) + 1] = p + 1
    BY <1>1, <1>2, AppendOf
  <1>5. Rising(d)
    <2>1. Rising(c) /\ p + 1 \in 1..(p + 1)
      BY <1>1 DEF Flow
    <2>2. ASSUME NEW i \in 1..Len(c) PROVE c[i] < p + 1
      <3>1. c[i] \in 1..p
        BY <1>1
      <3> QED BY <3>1, <1>1
    <2> QED BY <2>1, <2>2, <1>1, <1>2, RisingAppend
  <1> HIDE DEF d
  <1>6. ASSUME NEW j \in 1..Len(d) PROVE j \in 1..Len(c) \/ d[j] = p + 1
    BY <1>1, <1>4
  <1>7. ASSUME NEW i \in 1..Len(o), NEW j \in 1..Len(d) PROVE o[i] < d[j]
    <2>1. o[i] \in 1..p
      BY <1>1
    <2>2. CASE j \in 1..Len(c)
      <3>1. o[i] < c[j]
        BY <2>2 DEF Flow
      <3> QED BY <3>1, <2>2, <1>4
    <2>3. CASE d[j] = p + 1
      BY <2>1, <2>3, <1>1
    <2> QED BY <2>2, <2>3, <1>6
  <1>8. ASSUME h # 0, NEW j \in 1..Len(d) PROVE h < d[j]
    <2>1. CASE j \in 1..Len(c)
      <3>1. h < c[j]
        BY <1>8, <2>1 DEF Flow
      <3> QED BY <3>1, <2>1, <1>4
    <2>2. CASE d[j] = p + 1
      BY <2>2, <1>1
    <2> QED BY <2>1, <2>2, <1>6
  <1>9. Flow(p + 1, h, d, o)
    BY <1>1, <1>2, <1>3, <1>4, <1>5, <1>7, <1>8 DEF Flow
  <1> QED BY <1>3, <1>9 DEF d

\* The relay takes a report from the channel: it is lost, delivered, or kept
\* in hand.
LEMMA FlowTakes ==
    ASSUME NEW p, NEW h, NEW c, NEW o, Flow(p, h, c, o), c # <<>>
    PROVE  /\ Flow(p, h, Tail(c), o)
           /\ h = 0 => /\ Flow(p, h, Tail(c), Append(o, Head(c)))
                       /\ Flow(p, Head(c), Tail(c), o) /\ Head(c) # 0
  <1> DEFINE d == Tail(c)
             e == Head(c)
             u == Append(o, e)
  <1>1. /\ p \in Nat /\ h \in 0..p /\ c \in Seq(1..p) /\ o \in Seq(1..p)
        /\ Rising(c) /\ Rising(o) /\ Len(o) \in Nat
        /\ \A i \in 1..Len(o) : o[i] \in 1..p
    BY LenProperties, ElementOfSeq DEF Flow
  <1>2. /\ d \in Seq(1..p) /\ Len(d) = Len(c) - 1
        /\ \A i \in 1..Len(d) : d[i] = c[i + 1]
        /\ e \in 1..p /\ e = c[1] /\ Len(c) \in Nat \ {0}
    BY <1>1, TailOf
  <1>3. Rising(d) /\ \A j \in 1..Len(d) : e < d[j]
    BY <1>1, RisingTail
  <1>4. /\ u \in Seq(1..p) /\ Len(u) = Len(o) + 1 /\ u[Len(o) + 1] = e
        /\ \A i \in 1..Len(o) : u[i] = o[i]
    BY <1>1, <1>2, AppendOf
  <1>5. \A i \in 1..Len(o) : o[i] < e
    BY <1>2 DEF Flow
  <1>6. Rising(u)
    BY <1>1, <1>2, <1>5, RisingAppend
  <1> HIDE DEF d, e, u
  <1>7. ASSUME NEW i \in 1..Len(o), NEW j \in 1..Len(d) PROVE o[i] < d[j]
    <2>1. j + 1 \in 1..Len(c) /\ d[j] = c[j + 1]
      BY <1>2
    <2> QED BY <2>1 DEF Flow
  <1>8. ASSUME h # 0, NEW j \in 1..Len(d) PROVE h < d[j]
    <2>1. j + 1 \in 1..Len(c) /\ d[j] = c[j + 1]
      BY <1>2
    <2> QED BY <2>1, <1>8 DEF Flow
  <1>9. Flow(p, h, d, o)
    BY <1>1, <1>2, <1>3, <1>7, <1>8 DEF Flow
  <1>10. ASSUME h = 0 PROVE Flow(p, h, d, u)
    <2>1. ASSUME NEW i \in 1..Len(u), NEW j \in 1..Len(d) PROVE u[i] < d[j]
      <3>1. i \in 1..Len(o) \/ i = Len(o) + 1
        BY <1>1, <1>4
      <3>2. CASE i \in 1..Len(o)
        BY <3>2, <1>4, <1>7
      <3>3. CASE i = Len(o) + 1
        BY <3>3, <1>3, <1>4
      <3> QED BY <3>1, <3>2, <3>3
    <2> QED BY <2>1, <1>1, <1>2, <1>3, <1>4, <1>6, <1>10 DEF Flow
  <1>11. Flow(p, e, d, o) /\ e # 0
    BY <1>1, <1>2, <1>3, <1>5, <1>7 DEF Flow
  <1> QED BY <1>9, <1>10, <1>11 DEF d, e, u

\* The report in hand is lost, or delivered.
LEMMA FlowHands ==
    ASSUME NEW p, NEW h, NEW c, NEW o, Flow(p, h, c, o), h # 0
    PROVE  Flow(p, 0, c, o) /\ Flow(p, 0, c, Append(o, h))
  <1> DEFINE u == Append(o, h)
  <1>1. /\ p \in Nat /\ h \in 1..p /\ c \in Seq(1..p) /\ o \in Seq(1..p)
        /\ Rising(c) /\ Rising(o) /\ Len(o) \in Nat
        /\ \A i \in 1..Len(o) : o[i] < h
    BY LenProperties DEF Flow
  <1>2. Flow(p, 0, c, o)
    BY <1>1 DEF Flow
  <1>3. /\ u \in Seq(1..p) /\ Len(u) = Len(o) + 1 /\ u[Len(o) + 1] = h
        /\ \A i \in 1..Len(o) : u[i] = o[i]
    BY <1>1, AppendOf
  <1>4. Rising(u)
    BY <1>1, RisingAppend
  <1> HIDE DEF u
  <1>5. ASSUME NEW i \in 1..Len(u), NEW j \in 1..Len(c) PROVE u[i] < c[j]
    <2>1. i \in 1..Len(o) \/ u[i] = h
      BY <1>1, <1>3
    <2> QED BY <2>1, <1>3 DEF Flow
  <1>6. Flow(p, 0, c, u)
    BY <1>1, <1>3, <1>4, <1>5 DEF Flow
  <1> QED BY <1>2, <1>6 DEF u

\* Reading and delivering leave no gap.
LEMMA GaplessReads ==
    ASSUME NEW p, NEW h, NEW c, NEW o, Flow(p, h, c, o), Gapless(c, o),
           Len(o) + Len(c) = p
    PROVE  /\ Gapless(Append(c, p + 1), o)
           /\ Len(o) + Len(Append(c, p + 1)) = p + 1
  <1> DEFINE d == Append(c, p + 1)
  <1>1. c \in Seq(Nat) /\ o \in Seq(1..p) /\ p \in Nat /\ p + 1 \in Nat
        /\ Len(o) \in Nat
    <2>1. c \in Seq(1..p) /\ o \in Seq(1..p) /\ p \in Nat
      BY DEF Flow
    <2>2. Len(c) \in Nat /\ c \in [1..Len(c) -> Nat]
      BY <2>1, LenProperties
    <2> QED BY <2>1, <2>2, SeqDef, LenProperties
  <1>2. /\ Len(d) = Len(c) + 1 /\ d[Len(c) + 1] = p + 1 /\ Len(c) \in Nat
        /\ \A i \in 1..Len(c) : d[i] = c[i]
    BY <1>1, AppendOf
  <1> HIDE DEF d
  <1>3. ASSUME NEW j \in 1..Len(d) PROVE d[j] = Len(o) + j
    <2>1. j \in 1..Len(c) \/ j = Len(c) + 1
      BY <1>2
    <2> QED BY <2>1, <1>1, <1>2 DEF Gapless
  <1> QED BY <1>1, <1>2, <1>3 DEF Gapless, d

LEMMA GaplessDelivers ==
    ASSUME NEW p, NEW h, NEW c, NEW o, Flow(p, h, c, o), Gapless(c, o),
           c # <<>>
    PROVE  /\ Gapless(Tail(c), Append(o, Head(c)))
           /\ Len(Append(o, Head(c))) + Len(Tail(c)) = Len(o) + Len(c)
  <1> DEFINE d == Tail(c)
             u == Append(o, Head(c))
  <1>1. c \in Seq(1..p) /\ o \in Seq(1..p) /\ p \in Nat
    BY DEF Flow
  <1>2. /\ d \in Seq(1..p) /\ Len(d) = Len(c) - 1
        /\ \A i \in 1..Len(d) : d[i] = c[i + 1]
        /\ Head(c) \in 1..p /\ Head(c) = c[1] /\ Len(c) \in Nat \ {0}
    BY <1>1, TailOf
  <1>3. /\ Len(u) = Len(o) + 1 /\ u[Len(o) + 1] = Head(c) /\ Len(o) \in Nat
        /\ \A i \in 1..Len(o) : u[i] = o[i]
    BY <1>1, <1>2, AppendOf
  <1> HIDE DEF d, u
  <1>4. ASSUME NEW i \in 1..Len(u) PROVE u[i] = i
    <2>1. i \in 1..Len(o) \/ i = Len(o) + 1
      BY <1>3
    <2>2. c[1] = Len(o) + 1
      BY <1>2 DEF Gapless
    <2> QED BY <2>1, <2>2, <1>2, <1>3 DEF Gapless
  <1>5. ASSUME NEW j \in 1..Len(d) PROVE d[j] = Len(u) + j
    <2>1. j + 1 \in 1..Len(c) /\ d[j] = c[j + 1]
      BY <1>2
    <2>2. c[j + 1] = Len(o) + (j + 1)
      BY <2>1 DEF Gapless
    <2> QED BY <2>1, <2>2, <1>3
  <1> QED BY <1>2, <1>3, <1>4, <1>5 DEF Gapless, d, u

-----------------------------------------------------------------------------
(* The inductive invariant.                                                *)

States == {"none", "waiting", "connecting", "up", "aborting", "done"}

Types ==
    /\ kind \in Kinds
    /\ op \in {"idle", "connecting", "stopping", "dropped"}
    /\ gen \in 0..MaxStarts /\ running \in BOOLEAN /\ held \subseteq 1..gen
    /\ dev \in [Gens -> {"none", "top", "polling", "gone"}]
    /\ wrote \in [Gens -> 0..MaxReports]
    /\ polled \in [Gens -> Nat] /\ hand \in [Gens -> Nat]
    /\ chan \in [Gens -> Seq(Nat)] /\ got \in [Gens -> Seq(Nat)]
    /\ relay \in [Gens -> States]
    /\ link \in [Gens -> 0..MaxLinks]
    /\ reader \in [Gens -> [Links -> {"none", "up", "done"}]]
    /\ peer \in [Gens -> [Links -> {"up", "closed"}]]

\* A start that awaits its connect has no relay yet, and the handle holds it.
Connecting ==
    op = "connecting" => kind = "tcp" /\ gen \in held /\ relay[gen] = "none"

\* The relay of a TCP bridge waits for no first report, and writes only to
\* connection 1, between the connect and the next stop.
Shape(g) ==
    /\ g > gen => relay[g] = "none" /\ dev[g] = "none"
    /\ kind = "tcp" =>
          /\ relay[g] \in {"none", "up", "aborting", "done"}
          /\ relay[g] \in {"up", "aborting"} => link[g] = 1
          /\ relay[g] = "up"
             => op = "dropped" \/ (op # "stopping" /\ g \in held)
          /\ relay[g] = "aborting" => op = "stopping"

Fits(g) ==
    /\ polled[g] <= wrote[g]
    /\ hand[g] # 0 <=> relay[g] = "connecting"
    /\ Flow(polled[g], hand[g], chan[g], got[g])

\* Over TCP a report is missing only when the emulator has closed its end, or
\* when the thread found no relay and ended.
Unbroken(g) ==
    kind = "tcp" /\ peer[g][1] = "up" =>
       /\ Gapless(chan[g], got[g])
       /\ Len(got[g]) + Len(chan[g]) = polled[g] \/ dev[g] = "gone"

Sound(g) == Shape(g) /\ Fits(g) /\ Unbroken(g)

BridgeInv == Types /\ Connecting /\ \A g \in Gens : Sound(g)

LEMMA Numbers ==
    /\ MaxStarts \in Nat /\ MaxReports \in Nat /\ MaxLinks \in Nat \ {0}
    /\ Gens \subseteq Nat \ {0} /\ Links \subseteq Nat \ {0} /\ 1 \in Links
    /\ 0 \in 0..MaxStarts /\ 0 \in 0..MaxReports
    /\ 0 \in 0..MaxLinks /\ 1 \in 0..MaxLinks
  BY BridgeAssumption DEF BridgeAssumption, Gens, Links

LEMMA SoundInit == ASSUME BridgeInit PROVE BridgeInv
  <1>1. /\ kind \in Kinds /\ op = "idle" /\ gen = 0 /\ running = FALSE
        /\ held = {} /\ dev = [g \in Gens |-> "none"]
        /\ wrote = [g \in Gens |-> 0] /\ polled = [g \in Gens |-> 0]
        /\ hand = [g \in Gens |-> 0] /\ link = [g \in Gens |-> 0]
        /\ chan = [g \in Gens |-> <<>>] /\ got = [g \in Gens |-> <<>>]
        /\ relay = [g \in Gens |-> "none"]
        /\ reader = [g \in Gens |-> [k \in Links |-> "none"]]
        /\ peer = [g \in Gens |-> [k \in Links |-> "up"]]
    BY DEF BridgeInit
  <1>2. <<>> \in Seq(Nat) /\ <<>> \in Seq(1..0) /\ Len(<<>>) = 0
    BY EmptySeq
  <1>3. chan \in [Gens -> Seq(Nat)] /\ got \in [Gens -> Seq(Nat)]
    <2>1. \A g \in Gens : <<>> \in Seq(Nat)
      BY <1>2
    <2> HIDE <1>2
    <2> QED BY <2>1, <1>1
  <1>4. /\ dev \in [Gens -> {"none", "top", "polling", "gone"}]
        /\ wrote \in [Gens -> 0..MaxReports]
        /\ polled \in [Gens -> Nat] /\ hand \in [Gens -> Nat]
        /\ relay \in [Gens -> States] /\ link \in [Gens -> 0..MaxLinks]
    BY <1>1, Numbers DEF States
  <1>5. /\ reader \in [Gens -> [Links -> {"none", "up", "done"}]]
        /\ peer \in [Gens -> [Links -> {"up", "closed"}]]
    BY <1>1
  <1>6. Types /\ Connecting
    BY <1>1, <1>3, <1>4, <1>5, Numbers DEF Types, Connecting
  <1>7. ASSUME NEW g \in Gens PROVE Sound(g)
    <2>1. /\ polled[g] = 0 /\ hand[g] = 0 /\ chan[g] = <<>> /\ got[g] = <<>>
          /\ wrote[g] = 0 /\ relay[g] = "none" /\ dev[g] = "none"
      BY <1>1
    <2>2. Rising(<<>>) /\ Gapless(<<>>, <<>>)
      BY <1>2 DEF Rising, Gapless
    <2>3. Flow(0, 0, <<>>, <<>>)
      BY <1>2, <2>2 DEF Flow
    <2>4. Fits(g) /\ Unbroken(g)
      BY <1>2, <2>1, <2>2, <2>3 DEF Fits, Unbroken
    <2>5. Shape(g)
      BY <2>1 DEF Shape
    <2> QED BY <2>4, <2>5 DEF Sound
  <1> QED BY <1>6, <1>7 DEF BridgeInv

\* A generation is as sound as before when nothing of it changes, nor what
\* the handle does.
LEMMA Elsewhere ==
    ASSUME BridgeInv, NEW g \in Gens,
           UNCHANGED <<kind, op, gen, held>>,
           relay'[g] = relay[g], link'[g] = link[g], peer'[g] = peer[g],
           hand'[g] = hand[g], chan'[g] = chan[g], got'[g] = got[g],
           polled'[g] = polled[g], wrote'[g] = wrote[g], dev'[g] = dev[g]
    PROVE  Sound(g)'
  BY DEF BridgeInv, Sound, Shape, Fits, Unbroken

LEMMA FlowTyped ==
    ASSUME NEW p, NEW h, NEW c, NEW o, Flow(p, h, c, o)
    PROVE  /\ p \in Nat /\ h \in Nat /\ h <= p
           /\ c \in Seq(Nat) /\ o \in Seq(Nat)
  <1>1. /\ p \in Nat /\ h \in Nat /\ h <= p
        /\ c \in Seq(1..p) /\ o \in Seq(1..p)
    BY DEF Flow
  <1>2. ASSUME NEW q \in Seq(1..p) PROVE q \in Seq(Nat)
    <2>1. Len(q) \in Nat /\ q \in [1..Len(q) -> 1..p]
      BY LenProperties
    <2>2. q \in [1..Len(q) -> Nat]
      BY <2>1
    <2> QED BY <2>1, <2>2, SeqDef
  <1> QED BY <1>1, <1>2

\* The steps of one generation leave the handle and the others alone.
LEMMA OnlyOne ==
    ASSUME BridgeInv, NEW g \in Gens, Types', Sound(g)',
           UNCHANGED <<kind, op, gen, held>>,
           relay[g] = "none" => relay'[g] = "none",
           \A x \in Gens \ {g} :
              /\ relay'[x] = relay[x] /\ link'[x] = link[x]
              /\ peer'[x] = peer[x] /\ dev'[x] = dev[x]
              /\ hand'[x] = hand[x] /\ chan'[x] = chan[x]
              /\ got'[x] = got[x]
              /\ polled'[x] = polled[x] /\ wrote'[x] = wrote[x]
    PROVE  BridgeInv'
  <1>1. ASSUME NEW x \in Gens PROVE Sound(x)'
    BY <1>1, Elsewhere
  <1>2. Connecting'
    <2>1. op = "connecting" => gen \in Gens
      BY Numbers DEF BridgeInv, Types, Connecting, Gens
    <2> QED BY <2>1 DEF BridgeInv, Connecting
  <1> QED BY <1>1, <1>2 DEF BridgeInv

\* The host writes a report to the device of g.
LEMMA HostWritesStep ==
    ASSUME BridgeInv, NEW g \in Gens, HostWrites(g)
    PROVE  BridgeInv'
  <1>1. /\ wrote[g] < MaxReports /\ wrote' = [wrote EXCEPT ![g] = wrote[g] + 1]
        /\ UNCHANGED <<kind, op, gen, running, held, dev, polled, chan, relay,
                       hand, link, reader, peer, got>>
    BY DEF HostWrites, Set, handleVars, relayVars
  <1>2. wrote[g] \in 0..MaxReports /\ wrote[g] + 1 \in 0..MaxReports
    BY <1>1, Numbers DEF BridgeInv, Types
  <1>3. /\ wrote' \in [Gens -> 0..MaxReports]
        /\ wrote'[g] = wrote[g] + 1
        /\ \A x \in Gens \ {g} : wrote'[x] = wrote[x]
    BY <1>1, <1>2 DEF BridgeInv, Types
  <1>4. Types'
    BY <1>1, <1>3 DEF BridgeInv, Types
  <1>5. Sound(g)'
    <2>1. Shape(g)' /\ Unbroken(g)'
      BY <1>1 DEF BridgeInv, Sound, Shape, Unbroken
    <2>2. polled[g] \in Nat /\ polled[g] <= wrote[g] /\ Fits(g)
      BY DEF BridgeInv, Types, Sound, Fits
    <2>3. polled[g] <= wrote'[g]
      BY <1>2, <1>3, <2>2
    <2>4. Fits(g)'
      BY <1>1, <2>2, <2>3 DEF Fits
    <2> QED BY <2>1, <2>4 DEF Sound
  <1> QED BY <1>1, <1>3, <1>4, <1>5, OnlyOne

LEMMA DeviceStep ==
    ASSUME BridgeInv, NEW g \in Gens, Check(g) \/ DeviceFails(g)
    PROVE  BridgeInv'
  <1>1. /\ dev[g] \in {"top", "polling"}
        /\ \/ dev' = [dev EXCEPT ![g] = "gone"]
           \/ dev' = [dev EXCEPT ![g] = "polling"]
        /\ UNCHANGED <<kind, op, gen, running, held, wrote, polled, chan,
                       relay, hand, link, reader, peer, got>>
    BY DEF Check, DeviceFails, Set, handleVars, relayVars
  <1>2. /\ dev' \in [Gens -> {"none", "top", "polling", "gone"}]
        /\ dev'[g] \in {"polling", "gone"}
        /\ \A x \in Gens \ {g} : dev'[x] = dev[x]
    BY <1>1 DEF BridgeInv, Types
  <1>3. Types'
    BY <1>1, <1>2 DEF BridgeInv, Types
  <1>4. Sound(g)'
    <2>1. Shape(g) /\ Fits(g) /\ Unbroken(g)
      BY DEF BridgeInv, Sound
    <2>2. Shape(g)'
      BY <1>1, <2>1 DEF Shape
    <2>3. Fits(g)'
      BY <1>1, <2>1 DEF Fits
    <2>4. Unbroken(g)'
      BY <1>1, <2>1 DEF Unbroken
    <2> QED BY <2>2, <2>3, <2>4 DEF Sound
  <1> QED BY <1>1, <1>2, <1>3, <1>4, OnlyOne

LEMMA PollStep ==
    ASSUME BridgeInv, NEW g \in Gens, Poll(g)
    PROVE  BridgeInv'
  <1> DEFINE p == polled[g]
             c == chan[g]
             o == got[g]
             h == hand[g]
  <1>1. /\ dev[g] = "polling"
        /\ UNCHANGED <<kind, op, gen, running, held, wrote, relay, hand, link,
                       reader, peer, got>>
    BY DEF Poll, handleVars, relayVars
  <1>2. /\ Types /\ Shape(g) /\ Fits(g) /\ Unbroken(g)
        /\ Flow(p, h, c, o)
        /\ p \in Nat /\ c \in Seq(Nat) /\ p <= wrote[g]
        /\ wrote[g] \in Nat
    <2>1. Types /\ Shape(g) /\ Fits(g) /\ Unbroken(g)
      BY DEF BridgeInv, Sound
    <2>2. p \in Nat /\ c \in Seq(Nat) /\ wrote[g] \in 0..MaxReports
      BY <2>1 DEF Types
    <2>3. p <= wrote[g] /\ Flow(p, h, c, o)
      BY <2>1 DEF Fits
    <2> QED BY <2>1, <2>2, <2>3, Numbers
  <1>3. CASE p = wrote[g] /\ dev' = [dev EXCEPT ![g] = "top"]
             /\ UNCHANGED <<polled, chan>>
    <2>1. /\ dev' \in [Gens -> {"none", "top", "polling", "gone"}]
          /\ dev'[g] = "top"
          /\ \A x \in Gens \ {g} : dev'[x] = dev[x]
      BY <1>2, <1>3 DEF Types
    <2>2. Types'
      BY <1>1, <1>2, <1>3, <2>1 DEF Types
    <2>3. Shape(g)'
      BY <1>1, <1>2 DEF Shape
    <2>4. Fits(g)'
      BY <1>1, <1>2, <1>3 DEF Fits
    <2>5. Unbroken(g)'
      BY <1>1, <1>2, <1>3 DEF Unbroken
    <2> QED
      BY <1>1, <1>3, <2>1, <2>2, <2>3, <2>4, <2>5, OnlyOne DEF Sound
  <1>4. CASE /\ p < wrote[g] /\ polled' = [polled EXCEPT ![g] = p + 1]
             /\ \/ dev' = [dev EXCEPT ![g] = "gone"] /\ chan' = chan
                \/ /\ dev' = [dev EXCEPT ![g] = "top"]
                   /\ chan' = [chan EXCEPT ![g] = Append(c, p + 1)]
    <2>1. /\ polled' \in [Gens -> Nat] /\ polled'[g] = p + 1
          /\ \A x \in Gens \ {g} : polled'[x] = polled[x]
      BY <1>2, <1>4 DEF Types
    <2>2. Append(c, p + 1) \in Seq(Nat)
      BY <1>2, AppendOf
    <2>3. /\ dev' \in [Gens -> {"none", "top", "polling", "gone"}]
          /\ chan' \in [Gens -> Seq(Nat)]
          /\ \A x \in Gens \ {g} : dev'[x] = dev[x] /\ chan'[x] = chan[x]
          /\ \/ dev'[g] = "gone" /\ chan'[g] = c
             \/ dev'[g] = "top" /\ chan'[g] = Append(c, p + 1)
      <3>1. CASE dev' = [dev EXCEPT ![g] = "gone"] /\ chan' = chan
        BY <1>2, <3>1 DEF Types
      <3>2. CASE /\ dev' = [dev EXCEPT ![g] = "top"]
                 /\ chan' = [chan EXCEPT ![g] = Append(c, p + 1)]
        BY <1>2, <3>2, <2>2 DEF Types
      <3> QED BY <1>4, <3>1, <3>2
    <2>4. Types'
      BY <1>1, <1>2, <2>1, <2>3 DEF Types
    <2>5. Shape(g)'
      BY <1>1, <1>2 DEF Shape
    <2>6. Flow(p + 1, h, chan'[g], o)
      BY <1>2, <2>3, FlowReads
    <2>7. p + 1 <= wrote[g]
      BY <1>2, <1>4
    <2>8. Fits(g)'
      BY <1>1, <1>2, <2>1, <2>6, <2>7 DEF Fits
    <2>9. Unbroken(g)'
      <3>1. SUFFICES ASSUME kind = "tcp", peer[g][1] = "up"
                     PROVE  /\ Gapless(chan'[g], o)
                            /\ \/ Len(o) + Len(chan'[g]) = p + 1
                               \/ dev'[g] = "gone"
        BY <1>1, <2>1 DEF Unbroken
      <3>2. Gapless(c, o) /\ Len(o) + Len(c) = p
        BY <1>1, <1>2, <3>1 DEF Unbroken
      <3>3. CASE dev'[g] = "gone" /\ chan'[g] = c
        BY <3>2, <3>3
      <3>4. CASE chan'[g] = Append(c, p + 1)
        <4>1. Flow(p, h, c, o)
          BY <1>2
        <4>2. /\ Gapless(Append(c, p + 1), o)
              /\ Len(o) + Len(Append(c, p + 1)) = p + 1
          BY <3>2, <4>1, GaplessReads
        <4> QED BY <3>4, <4>2
      <3> QED BY <2>3, <3>3, <3>4
    <2> QED
      BY <1>1, <2>1, <2>3, <2>4, <2>5, <2>8, <2>9, OnlyOne DEF Sound
  <1> QED BY <1>3, <1>4 DEF Poll, Set

\* Steps of readers and of the emulator's end.
LEMMA ReaderStep ==
    ASSUME BridgeInv, NEW g \in Gens, NEW k \in Links,
           \/ PeerCloses(g, k) \/ ReaderEof(g, k)
           \/ ReaderTold(g, k) \/ ReaderFindsNoDevice(g, k)
    PROVE  BridgeInv'
  <1>1. /\ \/ peer' = [peer EXCEPT ![g][k] = "closed"] /\ reader' = reader
           \/ reader' = [reader EXCEPT ![g][k] = "done"] /\ peer' = peer
        /\ running' \in {FALSE, running}
        /\ UNCHANGED <<kind, op, gen, held, dev, wrote, polled, chan, relay,
                       hand, link, got>>
    BY DEF PeerCloses, ReaderEof, ReaderTold, ReaderFindsNoDevice, ReaderDone,
           handleVars, threadVars, relayVars
  <1>2. /\ reader' \in [Gens -> [Links -> {"none", "up", "done"}]]
        /\ peer' \in [Gens -> [Links -> {"up", "closed"}]]
        /\ \A x \in Gens \ {g} : peer'[x] = peer[x]
        /\ peer'[g][1] \in {peer[g][1], "closed"}
    <2>1. /\ reader \in [Gens -> [Links -> {"none", "up", "done"}]]
          /\ peer \in [Gens -> [Links -> {"up", "closed"}]]
      BY DEF BridgeInv, Types
    <2>2. CASE peer' = [peer EXCEPT ![g][k] = "closed"] /\ reader' = reader
      BY <2>1, <2>2, Numbers
    <2>3. CASE reader' = [reader EXCEPT ![g][k] = "done"] /\ peer' = peer
      BY <2>1, <2>3, Numbers
    <2> QED BY <1>1, <2>2, <2>3
  <1>3. Types'
    BY <1>1, <1>2 DEF BridgeInv, Types
  <1>4. Sound(g)'
    <2>1. Shape(g) /\ Fits(g) /\ Unbroken(g)
      BY DEF BridgeInv, Sound
    <2>2. Shape(g)' /\ Fits(g)' /\ Unbroken(g)'
      BY <1>1, <1>2, <2>1 DEF Shape, Fits, Unbroken
    <2> QED BY <2>2 DEF Sound
  <1> QED BY <1>1, <1>2, <1>3, <1>4, OnlyOne

\* What a step of the relay of g has to respect.
LEMMA RelayStep ==
    ASSUME BridgeInv, NEW g \in Gens, relay[g] # "none",
           running' \in {FALSE, running},
           UNCHANGED <<kind, op, gen, held, dev, wrote, polled>>,
           relay' \in [Gens -> States], link' \in [Gens -> 0..MaxLinks],
           hand' \in [Gens -> Nat],
           chan' \in [Gens -> Seq(Nat)], got' \in [Gens -> Seq(Nat)],
           reader' \in [Gens -> [Links -> {"none", "up", "done"}]],
           peer' \in [Gens -> [Links -> {"up", "closed"}]],
           \A x \in Gens \ {g} :
              /\ relay'[x] = relay[x] /\ link'[x] = link[x]
              /\ peer'[x] = peer[x] /\ hand'[x] = hand[x]
              /\ chan'[x] = chan[x] /\ got'[x] = got[x],
           Flow(polled[g], hand'[g], chan'[g], got'[g]),
           hand'[g] # 0 <=> relay'[g] = "connecting",
           kind = "tcp" => /\ relay'[g] \in {relay[g], "done"}
                           /\ link'[g] = link[g],
           kind = "tcp" /\ peer'[g][1] = "up" =>
              /\ peer[g][1] = "up"
              /\ Gapless(chan[g], got[g]) => Gapless(chan'[g], got'[g])
              /\ Len(got'[g]) + Len(chan'[g]) = Len(got[g]) + Len(chan[g])
    PROVE  BridgeInv'
  <1>1. Types /\ Shape(g) /\ Fits(g) /\ Unbroken(g)
    BY DEF BridgeInv, Sound
  <1>2. Types'
    BY <1>1 DEF Types
  <1>3. Shape(g)'
    <2>1. ~(g > gen)
      BY <1>1 DEF Shape
    <2> QED BY <2>1, <1>1 DEF Shape
  <1>4. Fits(g)'
    BY <1>1 DEF Fits
  <1>5. Unbroken(g)'
    BY <1>1 DEF Unbroken
  <1> QED BY <1>2, <1>3, <1>4, <1>5, OnlyOne DEF Sound

\* The numbers of one generation, typed.
LEMMA Parts ==
    ASSUME BridgeInv, NEW g \in Gens
    PROVE  /\ Types /\ Shape(g) /\ Fits(g) /\ Unbroken(g)
           /\ Flow(polled[g], hand[g], chan[g], got[g])
           /\ chan[g] \in Seq(Nat) /\ got[g] \in Seq(Nat)
           /\ hand[g] \in Nat /\ link[g] \in 0..MaxLinks
           /\ Len(chan[g]) \in Nat /\ Len(got[g]) \in Nat
  <1>1. Types /\ Shape(g) /\ Fits(g) /\ Unbroken(g)
    BY DEF BridgeInv, Sound
  <1>2. /\ chan[g] \in Seq(Nat) /\ got[g] \in Seq(Nat)
        /\ hand[g] \in Nat /\ link[g] \in 0..MaxLinks
    BY <1>1 DEF Types
  <1>3. Len(chan[g]) \in Nat /\ Len(got[g]) \in Nat
    BY <1>2, LenProperties
  <1> QED BY <1>1, <1>2, <1>3 DEF Fits

\* A report taken from the channel.
LEMMA Taken ==
    ASSUME BridgeInv, NEW g \in Gens, Ready(g), Take(g)
    PROVE  /\ chan' \in [Gens -> Seq(Nat)] /\ chan'[g] = Tail(chan[g])
           /\ \A x \in Gens \ {g} : chan'[x] = chan[x]
           /\ Head(chan[g]) \in Nat
  <1>1. chan[g] \in Seq(Nat) /\ chan[g] # <<>>
    BY Parts DEF Ready
  <1>2. Tail(chan[g]) \in Seq(Nat) /\ Head(chan[g]) \in Nat
    BY <1>1, TailOf
  <1> QED BY <1>2 DEF Take, Set, BridgeInv, Types

\* A report delivered.
LEMMA Delivered ==
    ASSUME BridgeInv, NEW g \in Gens, NEW r \in Nat, Deliver(g, r)
    PROVE  /\ got' \in [Gens -> Seq(Nat)] /\ got'[g] = Append(got[g], r)
           /\ \A x \in Gens \ {g} : got'[x] = got[x]
  <1>1. got[g] \in Seq(Nat)
    BY Parts
  <1>2. Append(got[g], r) \in Seq(Nat)
    BY <1>1, AppendOf
  <1> QED BY <1>2 DEF Deliver, Set, BridgeInv, Types

\* A relay that goes to state v.
LEMMA Moves ==
    ASSUME BridgeInv, NEW g \in Gens, NEW v \in States,
           relay' = [relay EXCEPT ![g] = v]
    PROVE  /\ relay' \in [Gens -> States] /\ relay'[g] = v
           /\ \A x \in Gens \ {g} : relay'[x] = relay[x]
  BY DEF BridgeInv, Types

\* The reader of a new or the current connection ends with the relay's look.
LEMMA EndsMeanwhile ==
    ASSUME BridgeInv, NEW g \in Gens, NEW k, ReaderEndsMeanwhile(g, k)
    PROVE  /\ relay' = [relay EXCEPT ![g] = "waiting"]
           /\ reader' \in [Gens -> [Links -> {"none", "up", "done"}]]
           /\ peer' \in [Gens -> [Links -> {"up", "closed"}]]
           /\ \A x \in Gens \ {g} : peer'[x] = peer[x]
           /\ kind # "tcp"
  <1>1. /\ reader \in [Gens -> [Links -> {"none", "up", "done"}]]
        /\ peer \in [Gens -> [Links -> {"up", "closed"}]]
    BY DEF BridgeInv, Types
  <1>2. /\ relay' = [relay EXCEPT ![g] = "waiting"]
        /\ reader' = [reader EXCEPT ![g][k] = "done"]
        /\ peer' = [peer EXCEPT ![g][k] = "closed"] \/ peer' = peer
        /\ kind # "tcp"
    BY DEF ReaderEndsMeanwhile, Set
  <1>3. reader' \in [Gens -> [Links -> {"none", "up", "done"}]]
    BY <1>1, <1>2
  <1>4. /\ peer' \in [Gens -> [Links -> {"up", "closed"}]]
        /\ \A x \in Gens \ {g} : peer'[x] = peer[x]
    <2>1. CASE peer' = [peer EXCEPT ![g][k] = "closed"]
      BY <1>1, <2>1
    <2>2. CASE peer' = peer
      BY <1>1, <2>2
    <2> QED BY <1>2, <2>1, <2>2
  <1> QED BY <1>2, <1>3, <1>4

LEMMA ForwardStep ==
    ASSUME BridgeInv, NEW g \in Gens, Forward(g)
    PROVE  BridgeInv'
  <1>1. /\ relay[g] \in {"up", "aborting"} /\ Ready(g) /\ Take(g)
        /\ peer[g][link[g]] = "up" /\ Deliver(g, Head(chan[g]))
        /\ UNCHANGED <<kind, op, gen, running, held, dev, wrote, polled, hand,
                       link>>
    BY DEF Forward, handleVars, threadVars
  <1>2. /\ Types /\ Shape(g) /\ Fits(g)
        /\ Flow(polled[g], hand[g], chan[g], got[g])
        /\ hand \in [Gens -> Nat] /\ link \in [Gens -> 0..MaxLinks]
        /\ hand[g] = 0
    BY <1>1, Parts DEF Fits, Types
  <1>3. /\ chan' \in [Gens -> Seq(Nat)] /\ chan'[g] = Tail(chan[g])
        /\ \A x \in Gens \ {g} : chan'[x] = chan[x]
        /\ Head(chan[g]) \in Nat /\ chan[g] # <<>>
    BY <1>1, Taken DEF Ready
  <1>4. /\ got' \in [Gens -> Seq(Nat)]
        /\ got'[g] = Append(got[g], Head(chan[g]))
        /\ \A x \in Gens \ {g} : got'[x] = got[x]
    BY <1>1, <1>3, Delivered
  <1>5. /\ relay' \in [Gens -> States]
        /\ relay'[g] \in {relay[g], "waiting"}
        /\ \A x \in Gens \ {g} : relay'[x] = relay[x] /\ peer'[x] = peer[x]
        /\ reader' \in [Gens -> [Links -> {"none", "up", "done"}]]
        /\ peer' \in [Gens -> [Links -> {"up", "closed"}]]
        /\ kind = "tcp" => relay'[g] = relay[g] /\ peer' = peer
    <2>1. CASE /\ kind \in {"unix", "dgram"}
               /\ relay' = [relay EXCEPT ![g] = "waiting"]
               /\ UNCHANGED <<reader, peer>>
      BY <1>2, <2>1, Moves DEF Types, States
    <2>2. CASE UNCHANGED <<relay, reader, peer>>
      BY <1>2, <2>2 DEF Types
    <2>3. CASE ReaderEndsMeanwhile(g, link[g])
      <3>1. /\ relay' = [relay EXCEPT ![g] = "waiting"]
            /\ reader' \in [Gens -> [Links -> {"none", "up", "done"}]]
            /\ peer' \in [Gens -> [Links -> {"up", "closed"}]]
            /\ \A x \in Gens \ {g} : peer'[x] = peer[x]
            /\ kind # "tcp"
        BY <2>3, EndsMeanwhile
      <3> QED BY <3>1, Moves DEF States
    <2> QED BY <2>1, <2>2, <2>3 DEF Forward, Set
  <1>6. Flow(polled[g], hand'[g], chan'[g], got'[g])
    <2>1. Flow(polled[g], hand[g], Tail(chan[g]),
               Append(got[g], Head(chan[g])))
      BY <1>2, <1>3, FlowTakes
    <2> QED BY <2>1, <1>1, <1>3, <1>4
  <1>7. ASSUME kind = "tcp", peer'[g][1] = "up"
        PROVE  /\ peer[g][1] = "up"
               /\ Gapless(chan[g], got[g]) => Gapless(chan'[g], got'[g])
               /\ Len(got'[g]) + Len(chan'[g]) = Len(got[g]) + Len(chan[g])
    <2>1. peer[g][1] = "up"
      BY <1>5, <1>7
    <2>2. chan[g] \in Seq(Nat) /\ got[g] \in Seq(Nat)
      BY Parts
    <2>3. Len(got'[g]) + Len(chan'[g]) = Len(got[g]) + Len(chan[g])
      <3> DEFINE m == Len(chan[g])
                 n == Len(got[g])
                 d == Len(chan'[g])
                 u == Len(got'[g])
      <3>1. d = m - 1 /\ m \in Nat
        BY <1>3, <2>2, TailOf
      <3>2. u = n + 1 /\ n \in Nat
        BY <1>3, <1>4, <2>2, AppendOf
      <3> HIDE DEF m, n, d, u
      <3>3. u + d = n + m
        BY <3>1, <3>2
      <3> QED BY <3>3 DEF m, n, d, u
    <2>4. ASSUME Gapless(chan[g], got[g]) PROVE Gapless(chan'[g], got'[g])
      <3>1. Gapless(Tail(chan[g]), Append(got[g], Head(chan[g])))
        BY <1>2, <1>3, <2>4, GaplessDelivers
      <3> QED BY <3>1, <1>3, <1>4
    <2> QED BY <2>1, <2>3, <2>4
  <1>8. hand'[g] # 0 <=> relay'[g] = "connecting"
    BY <1>1, <1>2, <1>5
  <1>9. /\ relay[g] # "none" /\ running' \in {FALSE, running}
        /\ UNCHANGED <<kind, op, gen, held, dev, wrote, polled>>
        /\ hand' \in [Gens -> Nat] /\ link' \in [Gens -> 0..MaxLinks]
        /\ \A x \in Gens \ {g} :
              /\ relay'[x] = relay[x] /\ link'[x] = link[x]
              /\ peer'[x] = peer[x] /\ hand'[x] = hand[x]
              /\ chan'[x] = chan[x] /\ got'[x] = got[x]
        /\ kind = "tcp" => /\ relay'[g] \in {relay[g], "done"}
                           /\ link'[g] = link[g]
    BY <1>1, <1>2, <1>3, <1>4, <1>5
  <1> QED BY <1>3, <1>4, <1>5, <1>6, <1>7, <1>8, <1>9, RelayStep

LEMMA ForwardLostStep ==
    ASSUME BridgeInv, NEW g \in Gens, ForwardLost(g)
    PROVE  BridgeInv'
  <1>1. /\ relay[g] \in {"up", "aborting"} /\ Ready(g) /\ Take(g)
        /\ peer[g][link[g]] = "closed"
        /\ UNCHANGED <<kind, op, gen, running, held, dev, wrote, polled, hand,
                       link, reader, peer, got>>
    BY DEF ForwardLost, handleVars, threadVars
  <1>2. /\ Types /\ Shape(g) /\ Fits(g)
        /\ Flow(polled[g], hand[g], chan[g], got[g])
        /\ hand \in [Gens -> Nat] /\ link \in [Gens -> 0..MaxLinks]
        /\ got \in [Gens -> Seq(Nat)]
        /\ reader \in [Gens -> [Links -> {"none", "up", "done"}]]
        /\ peer \in [Gens -> [Links -> {"up", "closed"}]]
        /\ hand[g] = 0
    BY <1>1, Parts DEF Fits, Types
  <1>3. /\ chan' \in [Gens -> Seq(Nat)] /\ chan'[g] = Tail(chan[g])
        /\ \A x \in Gens \ {g} : chan'[x] = chan[x]
        /\ chan[g] # <<>>
    BY <1>1, Taken DEF Ready
  <1>4. /\ relay' \in [Gens -> States]
        /\ relay'[g] \in {relay[g], "waiting", "done"}
        /\ \A x \in Gens \ {g} : relay'[x] = relay[x]
        /\ kind = "tcp" => relay'[g] \in {relay[g], "done"}
    <2>1. CASE relay' = relay
      BY <1>2, <2>1 DEF Types
    <2>2. CASE kind = "tcp" /\ relay' = [relay EXCEPT ![g] = "done"]
      BY <2>2, Moves DEF States
    <2>3. CASE kind # "tcp" /\ relay' = [relay EXCEPT ![g] = "waiting"]
      BY <2>3, Moves DEF States
    <2> QED BY <2>1, <2>2, <2>3 DEF ForwardLost, Set
  <1>5. Flow(polled[g], hand'[g], chan'[g], got'[g])
    <2>1. Flow(polled[g], hand[g], Tail(chan[g]), got[g])
      BY <1>2, <1>3, FlowTakes
    <2> QED BY <2>1, <1>1, <1>3
  <1>6. ~(kind = "tcp" /\ peer'[g][1] = "up")
    BY <1>1, <1>2 DEF Shape
  <1>7. hand'[g] # 0 <=> relay'[g] = "connecting"
    BY <1>1, <1>2, <1>4
  <1>8. /\ relay[g] # "none" /\ running' \in {FALSE, running}
        /\ UNCHANGED <<kind, op, gen, held, dev, wrote, polled>>
        /\ hand' \in [Gens -> Nat] /\ link' \in [Gens -> 0..MaxLinks]
        /\ got' \in [Gens -> Seq(Nat)]
        /\ reader' \in [Gens -> [Links -> {"none", "up", "done"}]]
        /\ peer' \in [Gens -> [Links -> {"up", "closed"}]]
        /\ \A x \in Gens \ {g} :
              /\ relay'[x] = relay[x] /\ link'[x] = link[x]
              /\ peer'[x] = peer[x] /\ hand'[x] = hand[x]
              /\ chan'[x] = chan[x] /\ got'[x] = got[x]
        /\ link'[g] = link[g]
    BY <1>1, <1>2, <1>3, <1>4
  <1> QED BY <1>3, <1>4, <1>5, <1>6, <1>7, <1>8, RelayStep

LEMMA TakeFirstStep ==
    ASSUME BridgeInv, NEW g \in Gens, TakeFirst(g)
    PROVE  BridgeInv'
  <1>1. /\ relay[g] = "waiting" /\ Ready(g) /\ Take(g)
        /\ hand' = [hand EXCEPT ![g] = Head(chan[g])]
        /\ relay' = [relay EXCEPT ![g] = "connecting"]
        /\ UNCHANGED <<kind, op, gen, running, held, dev, wrote, polled,
                       link, reader, peer, got>>
    BY DEF TakeFirst, Set, handleVars, threadVars
  <1>2. /\ Types /\ Shape(g) /\ Fits(g)
        /\ Flow(polled[g], hand[g], chan[g], got[g])
        /\ hand \in [Gens -> Nat] /\ hand[g] = 0
    BY <1>1, Parts DEF Fits, Types
  <1>3. kind # "tcp"
    BY <1>1, <1>2 DEF Shape
  <1>4. /\ chan' \in [Gens -> Seq(Nat)] /\ chan'[g] = Tail(chan[g])
        /\ \A x \in Gens \ {g} : chan'[x] = chan[x]
        /\ chan[g] # <<>> /\ Head(chan[g]) \in Nat
    BY <1>1, Taken DEF Ready
  <1>5. /\ relay' \in [Gens -> States] /\ relay'[g] = "connecting"
        /\ \A x \in Gens \ {g} : relay'[x] = relay[x]
    BY <1>1, Moves DEF States
  <1>6. /\ hand' \in [Gens -> Nat] /\ hand'[g] = Head(chan[g])
        /\ \A x \in Gens \ {g} : hand'[x] = hand[x]
    BY <1>1, <1>2, <1>4
  <1>7. Flow(polled[g], hand'[g], chan'[g], got'[g]) /\ hand'[g] # 0
    <2>1. /\ Flow(polled[g], Head(chan[g]), Tail(chan[g]), got[g])
          /\ Head(chan[g]) # 0
      BY <1>2, <1>4, FlowTakes
    <2> QED BY <2>1, <1>1, <1>4, <1>6
  <1>8. /\ relay[g] # "none" /\ running' \in {FALSE, running}
        /\ UNCHANGED <<kind, op, gen, held, dev, wrote, polled>>
        /\ link' \in [Gens -> 0..MaxLinks] /\ got' \in [Gens -> Seq(Nat)]
        /\ reader' \in [Gens -> [Links -> {"none", "up", "done"}]]
        /\ peer' \in [Gens -> [Links -> {"up", "closed"}]]
        /\ \A x \in Gens \ {g} :
              /\ relay'[x] = relay[x] /\ link'[x] = link[x]
              /\ peer'[x] = peer[x] /\ hand'[x] = hand[x]
              /\ chan'[x] = chan[x] /\ got'[x] = got[x]
    BY <1>1, <1>2, <1>4, <1>5, <1>6 DEF Types
  <1> QED BY <1>3, <1>4, <1>5, <1>6, <1>7, <1>8, RelayStep

LEMMA RelayConnectsStep ==
    ASSUME BridgeInv, NEW g \in Gens, RelayConnects(g)
    PROVE  BridgeInv'
  <1>1. /\ relay[g] = "connecting" /\ link[g] < MaxLinks
        /\ hand' = [hand EXCEPT ![g] = 0]
        /\ link' = [link EXCEPT ![g] = link[g] + 1]
        /\ Deliver(g, hand[g])
        /\ UNCHANGED <<kind, op, gen, running, held, dev, wrote, polled,
                       chan>>
    BY DEF RelayConnects, Set, handleVars, threadVars
  <1>2. /\ Types /\ Shape(g) /\ Fits(g)
        /\ Flow(polled[g], hand[g], chan[g], got[g])
        /\ hand \in [Gens -> Nat] /\ link \in [Gens -> 0..MaxLinks]
        /\ chan \in [Gens -> Seq(Nat)]
        /\ hand[g] # 0 /\ hand[g] \in Nat
    BY <1>1, Parts DEF Fits, Types
  <1>3. kind # "tcp"
    BY <1>1, <1>2 DEF Shape
  <1>4. /\ hand' \in [Gens -> Nat] /\ hand'[g] = 0
        /\ \A x \in Gens \ {g} : hand'[x] = hand[x]
    BY <1>1, <1>2
  <1>5. /\ link' \in [Gens -> 0..MaxLinks]
        /\ \A x \in Gens \ {g} : link'[x] = link[x]
    <2>1. link[g] + 1 \in 0..MaxLinks
      BY <1>1, <1>2, Numbers
    <2> QED BY <2>1, <1>1, <1>2
  <1>6. /\ got' \in [Gens -> Seq(Nat)]
        /\ got'[g] = Append(got[g], hand[g])
        /\ \A x \in Gens \ {g} : got'[x] = got[x]
    BY <1>1, <1>2, Delivered
  <1>7. /\ relay' \in [Gens -> States]
        /\ relay'[g] \in {"up", "waiting"}
        /\ \A x \in Gens \ {g} : relay'[x] = relay[x] /\ peer'[x] = peer[x]
        /\ reader' \in [Gens -> [Links -> {"none", "up", "done"}]]
        /\ peer' \in [Gens -> [Links -> {"up", "closed"}]]
    <2>1. CASE /\ relay' = [relay EXCEPT ![g] = "up"]
               /\ reader' = [reader EXCEPT ![g][link[g] + 1] = "up"]
               /\ peer' = peer
      <3>1. /\ reader \in [Gens -> [Links -> {"none", "up", "done"}]]
            /\ peer \in [Gens -> [Links -> {"up", "closed"}]]
        BY <1>2 DEF Types
      <3>2. reader' \in [Gens -> [Links -> {"none", "up", "done"}]]
        BY <2>1, <3>1
      <3> QED BY <2>1, <3>1, <3>2, Moves DEF States
    <2>2. CASE ReaderEndsMeanwhile(g, link[g] + 1)
      <3>1. /\ relay' = [relay EXCEPT ![g] = "waiting"]
            /\ reader' \in [Gens -> [Links -> {"none", "up", "done"}]]
            /\ peer' \in [Gens -> [Links -> {"up", "closed"}]]
            /\ \A x \in Gens \ {g} : peer'[x] = peer[x]
        BY <2>2, EndsMeanwhile
      <3> QED BY <3>1, Moves DEF States
    <2> QED BY <2>1, <2>2 DEF RelayConnects, Set
  <1>8. Flow(polled[g], hand'[g], chan'[g], got'[g])
    <2>1. Flow(polled[g], 0, chan[g], Append(got[g], hand[g]))
      BY <1>2, FlowHands
    <2> QED BY <2>1, <1>1, <1>4, <1>6
  <1>9. /\ relay[g] # "none" /\ running' \in {FALSE, running}
        /\ UNCHANGED <<kind, op, gen, held, dev, wrote, polled>>
        /\ chan' \in [Gens -> Seq(Nat)]
        /\ hand'[g] # 0 <=> relay'[g] = "connecting"
        /\ \A x \in Gens \ {g} :
              /\ relay'[x] = relay[x] /\ link'[x] = link[x]
              /\ peer'[x] = peer[x] /\ hand'[x] = hand[x]
              /\ chan'[x] = chan[x] /\ got'[x] = got[x]
    BY <1>1, <1>2, <1>4, <1>5, <1>6, <1>7
  <1> QED BY <1>3, <1>4, <1>5, <1>6, <1>7, <1>8, <1>9, RelayStep

\* The first report is lost, or the relay gives up with it.
LEMMA LosesFirstStep ==
    ASSUME BridgeInv, NEW g \in Gens, RelayLosesFirst(g) \/ RelayFails(g)
    PROVE  BridgeInv'
  <1>1. /\ relay[g] = "connecting"
        /\ hand' = [hand EXCEPT ![g] = 0]
        /\ running' \in {FALSE, running}
        /\ \/ relay' = [relay EXCEPT ![g] = "waiting"]
           \/ relay' = [relay EXCEPT ![g] = "done"]
        /\ UNCHANGED <<kind, op, gen, held, dev, wrote, polled, chan, link,
                       reader, peer, got>>
    BY DEF RelayLosesFirst, RelayFails, Set, handleVars, threadVars
  <1>2. /\ Types /\ Shape(g) /\ Fits(g)
        /\ Flow(polled[g], hand[g], chan[g], got[g])
        /\ hand \in [Gens -> Nat] /\ hand[g] # 0
    BY <1>1, Parts DEF Fits, Types
  <1>3. kind # "tcp"
    BY <1>1, <1>2 DEF Shape
  <1>4. /\ hand' \in [Gens -> Nat] /\ hand'[g] = 0
        /\ \A x \in Gens \ {g} : hand'[x] = hand[x]
    BY <1>1, <1>2
  <1>5. /\ relay' \in [Gens -> States] /\ relay'[g] \in {"waiting", "done"}
        /\ \A x \in Gens \ {g} : relay'[x] = relay[x]
    BY <1>1, Moves DEF States
  <1>6. Flow(polled[g], hand'[g], chan'[g], got'[g])
    <2>1. Flow(polled[g], 0, chan[g], got[g])
      BY <1>2, FlowHands
    <2> QED BY <2>1, <1>1, <1>4
  <1>7. /\ relay[g] # "none"
        /\ UNCHANGED <<kind, op, gen, held, dev, wrote, polled>>
        /\ link' \in [Gens -> 0..MaxLinks]
        /\ chan' \in [Gens -> Seq(Nat)] /\ got' \in [Gens -> Seq(Nat)]
        /\ reader' \in [Gens -> [Links -> {"none", "up", "done"}]]
        /\ peer' \in [Gens -> [Links -> {"up", "closed"}]]
        /\ \A x \in Gens \ {g} :
              /\ relay'[x] = relay[x] /\ link'[x] = link[x]
              /\ peer'[x] = peer[x] /\ hand'[x] = hand[x]
              /\ chan'[x] = chan[x] /\ got'[x] = got[x]
        /\ hand'[g] # 0 <=> relay'[g] = "connecting"
    BY <1>1, <1>2, <1>4, <1>5 DEF Types
  <1> QED BY <1>1, <1>3, <1>4, <1>5, <1>6, <1>7, RelayStep

LEMMA RelayEndsStep ==
    ASSUME BridgeInv, NEW g \in Gens, RelayAborted(g) \/ RelayEnds(g)
    PROVE  BridgeInv'
  <1>1. /\ relay[g] \in {"waiting", "up", "aborting"}
        /\ relay' = [relay EXCEPT ![g] = "done"]
        /\ UNCHANGED <<kind, op, gen, running, held, dev, wrote, polled, chan,
                       hand, link, reader, peer, got>>
    BY DEF RelayAborted, RelayEnds, Set, handleVars, threadVars
  <1>2. /\ Types /\ Fits(g)
        /\ Flow(polled[g], hand[g], chan[g], got[g]) /\ hand[g] = 0
    BY <1>1, Parts DEF Fits
  <1>3. /\ relay' \in [Gens -> States] /\ relay'[g] = "done"
        /\ \A x \in Gens \ {g} : relay'[x] = relay[x]
    BY <1>1, Moves DEF States
  <1>4. /\ relay[g] # "none" /\ running' \in {FALSE, running}
        /\ UNCHANGED <<kind, op, gen, held, dev, wrote, polled>>
        /\ hand' \in [Gens -> Nat] /\ link' \in [Gens -> 0..MaxLinks]
        /\ chan' \in [Gens -> Seq(Nat)] /\ got' \in [Gens -> Seq(Nat)]
        /\ reader' \in [Gens -> [Links -> {"none", "up", "done"}]]
        /\ peer' \in [Gens -> [Links -> {"up", "closed"}]]
        /\ \A x \in Gens \ {g} :
              /\ relay'[x] = relay[x] /\ link'[x] = link[x]
              /\ peer'[x] = peer[x] /\ hand'[x] = hand[x]
              /\ chan'[x] = chan[x] /\ got'[x] = got[x]
        /\ Flow(polled[g], hand'[g], chan'[g], got'[g])
        /\ hand'[g] # 0 <=> relay'[g] = "connecting"
        /\ link'[g] = link[g] /\ peer'[g] = peer[g]
        /\ chan'[g] = chan[g] /\ got'[g] = got[g]
    BY <1>1, <1>2, <1>3 DEF Types
  <1> QED BY <1>3, <1>4, RelayStep

-----------------------------------------------------------------------------
(* The steps of the handle: they touch no report.                          *)

LEMMA HandleStep ==
    ASSUME BridgeInv, Types', Connecting',
           UNCHANGED <<kind, wrote, polled, chan, hand, peer, got>>,
           \A g \in Gens :
              /\ Shape(g)'
              /\ relay'[g] = "connecting" <=> relay[g] = "connecting"
              /\ dev'[g] = dev[g] \/ dev[g] = "none"
    PROVE  BridgeInv'
  <1>1. ASSUME NEW g \in Gens PROVE Sound(g)'
    <2>1. /\ Shape(g)' /\ Fits(g) /\ Unbroken(g)
          /\ relay'[g] = "connecting" <=> relay[g] = "connecting"
          /\ dev'[g] = dev[g] \/ dev[g] = "none"
      BY DEF BridgeInv, Sound
    <2>2. Fits(g)'
      BY <2>1 DEF Fits
    <2>3. Unbroken(g)'
      BY <2>1 DEF Unbroken
    <2> QED BY <2>1, <2>2, <2>3 DEF Sound
  <1> QED BY <1>1 DEF BridgeInv

LEMMA StartStep == ASSUME BridgeInv, Start PROVE BridgeInv'
  <1> DEFINE g == gen + 1
  <1>1. /\ op = "idle" /\ gen' = g /\ held' = held \cup {g}
        /\ dev' = [dev EXCEPT ![g] = "top"] /\ running' = TRUE
        /\ UNCHANGED <<kind, wrote, polled, chan, hand, peer, got>>
    BY DEF Start, Set
  <1>2. /\ gen \in 0..MaxStarts /\ gen < MaxStarts /\ held \subseteq 1..gen
        /\ Types
    BY DEF Start, BridgeInv, Types
  <1>3. /\ g \in Gens /\ g \in 0..MaxStarts /\ g > gen
        /\ held \cup {g} \subseteq 1..g
    BY <1>2, Numbers DEF Gens
  <1>4. \/ kind = "tcp" /\ op' = "connecting"
           /\ UNCHANGED <<relay, link, reader>>
        \/ /\ kind # "tcp" /\ op' = op
           /\ \/ relay' = [relay EXCEPT ![g] = "waiting"]
                 /\ UNCHANGED <<link, reader>>
              \/ /\ relay' = [relay EXCEPT ![g] = "up"]
                 /\ link' = [link EXCEPT ![g] = 1]
                 /\ reader' = [reader EXCEPT ![g][1] = "up"]
    BY DEF Start, Set
  <1>5. /\ \A x \in Gens : Shape(x)
        /\ relay[g] = "none" /\ dev[g] = "none"
    BY <1>3 DEF BridgeInv, Sound, Shape
  <1> HIDE DEF g
  <1>6. /\ relay \in [Gens -> States] /\ link \in [Gens -> 0..MaxLinks]
        /\ reader \in [Gens -> [Links -> {"none", "up", "done"}]]
        /\ dev \in [Gens -> {"none", "top", "polling", "gone"}]
    BY <1>2 DEF Types
  <1>7. /\ relay' \in [Gens -> States] /\ link' \in [Gens -> 0..MaxLinks]
        /\ reader' \in [Gens -> [Links -> {"none", "up", "done"}]]
        /\ \A x \in Gens \ {g} : relay'[x] = relay[x] /\ link'[x] = link[x]
        /\ relay'[g] # "connecting"
        /\ kind = "tcp" => relay' = relay /\ link' = link
    <2>1. CASE UNCHANGED <<relay, link, reader>>
      BY <1>5, <1>6, <2>1
    <2>2. CASE /\ relay' = [relay EXCEPT ![g] = "waiting"]
               /\ UNCHANGED <<link, reader>> /\ kind # "tcp"
      BY <1>3, <1>6, <2>2 DEF States
    <2>3. CASE /\ relay' = [relay EXCEPT ![g] = "up"]
               /\ link' = [link EXCEPT ![g] = 1]
               /\ reader' = [reader EXCEPT ![g][1] = "up"] /\ kind # "tcp"
      <3>1. /\ relay' \in [Gens -> States] /\ link' \in [Gens -> 0..MaxLinks]
            /\ \A x \in Gens \ {g} : relay'[x] = relay[x] /\ link'[x] = link[x]
            /\ relay'[g] # "connecting"
        BY <1>3, <1>6, <2>3, Numbers DEF States
      <3>2. reader' \in [Gens -> [Links -> {"none", "up", "done"}]]
        BY <1>6, <2>3
      <3> QED BY <3>1, <3>2, <2>3
    <2> QED BY <1>4, <2>1, <2>2, <2>3
  <1>8. /\ dev' \in [Gens -> {"none", "top", "polling", "gone"}]
        /\ \A x \in Gens \ {g} : dev'[x] = dev[x]
    BY <1>1, <1>6
  <1>9. op' \in {"idle", "connecting"}
    BY <1>1, <1>4
  <1>10. Types'
    BY <1>1, <1>2, <1>3, <1>7, <1>8, <1>9 DEF Types
  <1>11. Connecting'
    BY <1>1, <1>4, <1>5 DEF Connecting
  <1>12. ASSUME NEW x \in Gens PROVE Shape(x)'
    <2>1. ASSUME x > gen' PROVE relay'[x] = "none" /\ dev'[x] = "none"
      <3>1. x > gen /\ x # g
        BY <2>1, <1>1, <1>2, Numbers DEF g
      <3> QED BY <3>1, <1>5, <1>7, <1>8 DEF Shape
    <2>2. Shape(x)
      BY <1>5
    <2> QED BY <1>1, <1>4, <1>7, <2>1, <2>2 DEF Shape
  <1>13. \A x \in Gens :
            /\ relay'[x] = "connecting" <=> relay[x] = "connecting"
            /\ dev'[x] = dev[x] \/ dev[x] = "none"
    BY <1>5, <1>7, <1>8
  <1> QED BY <1>1, <1>10, <1>11, <1>12, <1>13, HandleStep

LEMMA ConnectStep ==
    ASSUME BridgeInv, Connect \/ ConnectFails PROVE BridgeInv'
  <1>1. /\ op = "connecting" /\ op' = "idle"
        /\ UNCHANGED <<kind, gen, running, held, dev, wrote, polled, chan,
                       hand, peer, got>>
        /\ \/ /\ relay' = [relay EXCEPT ![gen] = "up"]
              /\ link' = [link EXCEPT ![gen] = 1]
              /\ reader' = [reader EXCEPT ![gen][1] = "up"]
           \/ /\ relay' = [relay EXCEPT ![gen] = "done"]
              /\ UNCHANGED <<link, reader>>
    BY DEF Connect, ConnectFails, Set, threadVars
  <1>2. /\ Types /\ kind = "tcp" /\ gen \in held /\ relay[gen] = "none"
        /\ gen \in Gens /\ gen \in Nat
        /\ \A x \in Gens : Shape(x)
    <2>1. /\ Types /\ kind = "tcp" /\ gen \in held /\ relay[gen] = "none"
          /\ \A x \in Gens : Shape(x)
      BY <1>1 DEF BridgeInv, Connecting, Sound
    <2>2. gen \in 0..MaxStarts /\ gen \in 1..gen
      BY <2>1 DEF Types
    <2> QED BY <2>1, <2>2, Numbers DEF Gens
  <1>3. /\ relay \in [Gens -> States] /\ link \in [Gens -> 0..MaxLinks]
        /\ reader \in [Gens -> [Links -> {"none", "up", "done"}]]
    BY <1>2 DEF Types
  <1>4. /\ relay' \in [Gens -> States] /\ link' \in [Gens -> 0..MaxLinks]
        /\ reader' \in [Gens -> [Links -> {"none", "up", "done"}]]
        /\ \A x \in Gens \ {gen} : relay'[x] = relay[x] /\ link'[x] = link[x]
        /\ (relay'[gen] = "up" /\ link'[gen] = 1) \/ relay'[gen] = "done"
    <2>1. CASE /\ relay' = [relay EXCEPT ![gen] = "up"]
               /\ link' = [link EXCEPT ![gen] = 1]
               /\ reader' = [reader EXCEPT ![gen][1] = "up"]
      <3>1. reader' \in [Gens -> [Links -> {"none", "up", "done"}]]
        BY <1>3, <2>1
      <3> QED BY <3>1, <1>2, <1>3, <2>1, Numbers DEF States
    <2>2. CASE /\ relay' = [relay EXCEPT ![gen] = "done"]
               /\ UNCHANGED <<link, reader>>
      BY <1>2, <1>3, <2>2 DEF States
    <2> QED BY <1>1, <2>1, <2>2
  <1>5. Types' /\ Connecting'
    BY <1>1, <1>2, <1>4 DEF Types, Connecting
  <1>6. ASSUME NEW x \in Gens PROVE Shape(x)'
    <2>1. Shape(x) /\ x \in Nat
      BY <1>2, Numbers
    <2>2. CASE x = gen
      BY <1>1, <1>2, <1>4, <2>2 DEF Shape
    <2>3. CASE x # gen
      BY <1>1, <1>2, <1>4, <2>1, <2>3 DEF Shape
    <2> QED BY <2>2, <2>3
  <1>7. \A x \in Gens :
           relay'[x] = "connecting" <=> relay[x] = "connecting"
    BY <1>2, <1>4
  <1> QED BY <1>1, <1>5, <1>6, <1>7, HandleStep

LEMMA StopStep ==
    ASSUME BridgeInv, Stop PROVE BridgeInv'
  <1>1. /\ op = "idle" /\ op' = "stopping" /\ held' = {}
        /\ UNCHANGED <<kind, gen, running, dev, wrote, polled, chan, hand,
                       link, peer, got>>
        /\ \/ /\ kind = "tcp"
              /\ relay' = [g \in Gens |-> IF relay[g] = "up" THEN "aborting"
                                          ELSE relay[g]]
              /\ reader' = [g \in Gens |-> [k \in Links |->
                               IF reader[g][k] = "up" THEN "done"
                               ELSE reader[g][k]]]
           \/ kind # "tcp" /\ UNCHANGED <<relay, reader>>
    BY DEF Stop, threadVars
  <1>2. Types /\ \A x \in Gens : Shape(x)
    BY DEF BridgeInv, Sound
  <1>3. /\ relay \in [Gens -> States]
        /\ reader \in [Gens -> [Links -> {"none", "up", "done"}]]
    BY <1>2 DEF Types
  <1>4. /\ relay' \in [Gens -> States]
        /\ \A x \in Gens : relay'[x] = IF kind = "tcp" /\ relay[x] = "up"
                                       THEN "aborting" ELSE relay[x]
    BY <1>1, <1>3 DEF States
  <1>5. reader' \in [Gens -> [Links -> {"none", "up", "done"}]]
    BY <1>1, <1>3
  <1>6. Types' /\ Connecting'
    <2>1. held' \subseteq 1..gen'
      BY <1>1
    <2> QED BY <1>1, <1>2, <1>4, <1>5, <2>1 DEF Types, Connecting
  <1>7. ASSUME NEW x \in Gens PROVE Shape(x)'
    BY <1>1, <1>2, <1>4 DEF Shape
  <1> QED BY <1>1, <1>4, <1>6, <1>7, HandleStep

LEMMA StopDoneStep ==
    ASSUME BridgeInv, StopDone PROVE BridgeInv'
  <1>1. /\ op = "stopping" /\ op' = "idle" /\ running' = FALSE
        /\ \A g \in Gens : relay[g] # "aborting"
        /\ UNCHANGED <<kind, gen, held, dev, wrote, polled, chan, relay, hand,
                       link, reader, peer, got>>
    BY DEF StopDone, threadVars, relayVars
  <1>2. Types /\ \A x \in Gens : Shape(x)
    BY DEF BridgeInv, Sound
  <1>3. Types' /\ Connecting'
    BY <1>1, <1>2 DEF Types, Connecting
  <1>4. ASSUME NEW x \in Gens PROVE Shape(x)'
    BY <1>1, <1>2 DEF Shape
  <1> QED BY <1>1, <1>3, <1>4, HandleStep

LEMMA DropStep ==
    ASSUME BridgeInv, Drop PROVE BridgeInv'
  <1>1. /\ op = "idle" /\ op' = "dropped" /\ held' = {}
        /\ UNCHANGED <<kind, gen, running, dev, wrote, polled, chan, relay,
                       hand, link, reader, peer, got>>
    BY DEF Drop, threadVars, relayVars
  <1>2. Types /\ \A x \in Gens : Shape(x)
    BY DEF BridgeInv, Sound
  <1>3. Types' /\ Connecting'
    <2>1. held' \subseteq 1..gen'
      BY <1>1
    <2> QED BY <1>1, <1>2, <2>1 DEF Types, Connecting
  <1>4. ASSUME NEW x \in Gens PROVE Shape(x)'
    BY <1>1, <1>2 DEF Shape
  <1> QED BY <1>1, <1>3, <1>4, HandleStep

LEMMA BridgeStutters ==
    ASSUME BridgeInv, UNCHANGED bridgeVars PROVE BridgeInv'
  BY DEF BridgeInv, Types, Connecting, Sound, Shape, Fits, Unbroken,
         bridgeVars

LEMMA BridgeSteps ==
    ASSUME BridgeInv, [BridgeNext]_bridgeVars PROVE BridgeInv'
  <1>1. CASE UNCHANGED bridgeVars
    BY <1>1, BridgeStutters
  <1>2. CASE Start \/ Stop \/ Drop \/ Connect \/ ConnectFails \/ StopDone
    BY <1>2, StartStep, StopStep, DropStep, ConnectStep, StopDoneStep
  <1>3. ASSUME NEW g \in Gens,
               \/ HostWrites(g) \/ Check(g) \/ Poll(g) \/ DeviceFails(g)
        PROVE  BridgeInv'
    BY <1>3, HostWritesStep, DeviceStep, PollStep
  <1>4. ASSUME NEW g \in Gens,
               \/ Forward(g) \/ ForwardLost(g) \/ TakeFirst(g)
               \/ RelayConnects(g) \/ RelayLosesFirst(g) \/ RelayFails(g)
               \/ RelayAborted(g) \/ RelayEnds(g)
        PROVE  BridgeInv'
    BY <1>4, ForwardStep, ForwardLostStep, TakeFirstStep, RelayConnectsStep,
       LosesFirstStep, RelayEndsStep
  <1>5. ASSUME NEW g \in Gens, NEW k \in Links,
               \/ PeerCloses(g, k) \/ ReaderEof(g, k)
               \/ ReaderTold(g, k) \/ ReaderFindsNoDevice(g, k)
        PROVE  BridgeInv'
    BY <1>5, ReaderStep
  <1> QED BY <1>1, <1>2, <1>3, <1>4, <1>5 DEF BridgeNext

\* The inductive invariant of a bridge (generic.rs): types, which relays may
\* be up, and what became of the reports of each start.
THEOREM BridgeSound == BridgeSpec => []BridgeInv
  <1>1. BridgeInit => BridgeInv
    BY SoundInit
  <1>2. BridgeInv /\ [BridgeNext]_bridgeVars => BridgeInv'
    BY BridgeSteps
  <1> QED BY <1>1, <1>2, PTL DEF BridgeSpec

-----------------------------------------------------------------------------
(* What the runs check.                                                    *)

LEMMA InvTypes == ASSUME BridgeInv PROVE BridgeTypeOK
  <1>1. Types /\ \A g \in Gens : Fits(g)
    BY DEF BridgeInv, Sound
  <1>2. ASSUME NEW g \in Gens
        PROVE  /\ polled[g] \in 0..wrote[g] /\ hand[g] \in 0..MaxReports
               /\ chan[g] \in Seq(1..polled[g])
               /\ got[g] \in Seq(1..polled[g])
               /\ hand[g] # 0 <=> relay[g] = "connecting"
    <2>1. /\ polled[g] \in Nat /\ wrote[g] \in 0..MaxReports
      BY <1>1 DEF Types
    <2>2. /\ polled[g] <= wrote[g] /\ hand[g] \in 0..polled[g]
          /\ chan[g] \in Seq(1..polled[g]) /\ got[g] \in Seq(1..polled[g])
          /\ hand[g] # 0 <=> relay[g] = "connecting"
      BY <1>1 DEF Fits, Flow
    <2> QED BY <2>1, <2>2, Numbers
  <1>3. hand \in [Gens -> 0..MaxReports]
    BY <1>1, <1>2 DEF Types
  <1> QED BY <1>1, <1>2, <1>3 DEF BridgeTypeOK, Types, States

\* Types (Bridge): every variable stays in its range, the channel and the
\* emulator hold only reports the thread has read, and a report is in hand
\* exactly while the relay connects.
THEOREM BridgeTypes == BridgeSpec => []BridgeTypeOK
  <1>1. BridgeInv => BridgeTypeOK
    BY InvTypes
  <1> QED BY <1>1, BridgeSound, PTL

\* What was received, what is in hand and what is queued, one after another.
LEMMA FlowInOrder ==
    ASSUME NEW p, NEW h, NEW c, NEW o, Flow(p, h, c, o)
    PROVE  LET way == o \o (IF h = 0 THEN <<>> ELSE <<h>>) \o c
           IN /\ \A i, j \in 1..Len(way) : i < j => way[i] < way[j]
              /\ h = 0 /\ Gapless(c, o)
                 => \A i \in 1..Len(way) : way[i] = i
  <1> DEFINE m == IF h = 0 THEN <<>> ELSE <<h>>
             v == o \o m
             w == v \o c
             a == Len(o)
             b == Len(m)
             n == Len(c)
  <1>1. /\ p \in Nat /\ h \in Nat /\ c \in Seq(Nat) /\ o \in Seq(Nat)
        /\ Rising(c) /\ Rising(o)
        /\ \A i \in 1..a, j \in 1..n : o[i] < c[j]
        /\ h # 0 => /\ \A i \in 1..a : o[i] < h
                    /\ \A j \in 1..n : h < c[j]
    BY FlowTyped DEF Flow
  <1>2. /\ m \in Seq(Nat) /\ b \in Nat /\ a \in Nat /\ n \in Nat
        /\ h = 0 => b = 0
        /\ h # 0 => b = 1 /\ m[1] = h
    <2>1. CASE h = 0
      BY <1>1, <2>1, EmptySeq, LenProperties
    <2>2. CASE h # 0
      BY <1>1, <2>2, LenProperties
    <2> QED BY <2>1, <2>2
  <1>3. /\ v \in Seq(Nat) /\ Len(v) = a + b
        /\ \A i \in 1..(a + b) : v[i] = IF i <= a THEN o[i] ELSE m[i - a]
    <2> HIDE DEF m
    <2> QED BY <1>1, <1>2, ConcatProperties
  <1>4. /\ Len(w) = (a + b) + n
        /\ \A i \in 1..((a + b) + n) :
              w[i] = IF i <= a + b THEN v[i] ELSE c[i - (a + b)]
    <2> HIDE DEF m, v
    <2>1. /\ Len(w) = Len(v) + Len(c)
          /\ \A i \in 1..(Len(v) + Len(c)) :
                w[i] = IF i <= Len(v) THEN v[i] ELSE c[i - Len(v)]
      BY <1>1, <1>3, ConcatProperties, SMTT(30)
    <2> HIDE DEF w
    <2> QED BY <2>1, <1>3
  <1> HIDE DEF m, v, w, a, b, n
  <1>5. /\ \A i \in 1..Len(w) : i \in Nat
        /\ \A i \in 1..a : w[i] = o[i]
        /\ \A i \in 1..Len(w) : a < i /\ i <= a + b
                                => i = a + 1 /\ w[i] = h /\ h # 0
        /\ \A i \in 1..Len(w) : a + b < i
                                => i - (a + b) \in 1..n /\ w[i] = c[i - (a + b)]
    BY <1>2, <1>3, <1>4
  <1>6. ASSUME NEW i \in 1..Len(w), NEW j \in 1..Len(w), i < j
        PROVE  w[i] < w[j]
    <2>1. CASE j <= a
      <3>1. i \in 1..a /\ j \in 1..a
        BY <1>2, <1>5, <1>6, <2>1
      <3>2. w[i] = o[i] /\ w[j] = o[j]
        BY <3>1, <1>5
      <3>3. o[i] < o[j]
        BY <3>1, <1>1, <1>6 DEF Rising, a
      <3> QED BY <3>2, <3>3
    <2>2. CASE a < j /\ j <= a + b
      BY <1>1, <1>2, <1>5, <1>6, <2>2
    <2>3. CASE a + b < j
      <3> DEFINE y == j - (a + b)
      <3>1. y \in 1..n /\ w[j] = c[y]
        BY <1>5, <2>3
      <3>2. CASE i <= a
        <4>1. i \in 1..a /\ w[i] = o[i]
          BY <1>2, <1>5, <3>2
        <4> HIDE DEF y
        <4> QED BY <4>1, <3>1, <1>1
      <3>3. CASE a < i /\ i <= a + b
        <4>1. w[i] = h /\ h # 0
          BY <1>5, <3>3
        <4> HIDE DEF y
        <4> QED BY <4>1, <3>1, <1>1
      <3>4. CASE a + b < i
        <4> DEFINE x == i - (a + b)
        <4>1. x \in 1..n /\ w[i] = c[x] /\ x < y
          BY <1>2, <1>5, <1>6, <3>4
        <4> HIDE DEF x, y
        <4> QED BY <4>1, <3>1, <1>1 DEF Rising, n
      <3> QED BY <1>2, <3>2, <3>3, <3>4
    <2> QED BY <1>2, <2>1, <2>2, <2>3
  <1>7. ASSUME h = 0, Gapless(c, o), NEW i \in 1..Len(w) PROVE w[i] = i
    <2>1. CASE i <= a
      BY <1>2, <1>5, <1>7, <2>1 DEF Gapless, a
    <2>2. CASE a + b < i
      <3> DEFINE x == i - (a + b)
      <3>1. x \in 1..n /\ w[i] = c[x] /\ b = 0 /\ i = a + x
        BY <1>2, <1>5, <1>7, <2>2
      <3> HIDE DEF x
      <3> QED BY <3>1, <1>7 DEF Gapless, n, a
    <2> QED BY <1>2, <1>7, <2>1, <2>2
  <1> QED BY <1>6, <1>7 DEF w, v, m

\* In order (InOrder, generic.rs:145-157, 251-355): over connects,
\* reconnects, stops and lost writes the emulator receives no report of a
\* start twice and none before an earlier one, and over TCP it misses none
\* until its end is closed.
THEOREM ReportsInOrder == BridgeSpec => []InOrder
  <1>1. ASSUME BridgeInv PROVE InOrder
    <2>1. ASSUME NEW g \in Gens
          PROVE  LET way == OnTheWay(g)
                 IN /\ \A i, j \in 1..Len(way) : i < j => way[i] < way[j]
                    /\ kind = "tcp" /\ peer[g][1] = "up"
                       => \A i \in 1..Len(way) : way[i] = i
      <3>1. Flow(polled[g], hand[g], chan[g], got[g])
        BY <1>1, Parts
      <3>2. kind = "tcp" /\ peer[g][1] = "up"
            => hand[g] = 0 /\ Gapless(chan[g], got[g])
        <4>1. Shape(g) /\ Fits(g) /\ Unbroken(g)
          BY <1>1, Parts
        <4> QED BY <4>1 DEF Shape, Fits, Unbroken
      <3> HIDE DEF Flow, Gapless
      <3>3. LET way == got[g] \o (IF hand[g] = 0 THEN <<>> ELSE <<hand[g]>>)
                       \o chan[g]
            IN /\ \A i, j \in 1..Len(way) : i < j => way[i] < way[j]
               /\ hand[g] = 0 /\ Gapless(chan[g], got[g])
                  => \A i \in 1..Len(way) : way[i] = i
        BY <3>1, FlowInOrder
      <3> QED BY <3>2, <3>3 DEF OnTheWay
    <2> QED BY <2>1 DEF InOrder
  <1> QED BY <1>1, BridgeSound, PTL

\* Stop is final (StoppedIsSilent, generic.rs:475-489): a step that hands a
\* report to the emulator of a TCP bridge, outside a stop and before the
\* handle is dropped, is one of a start the handle still holds.
THEOREM StopIsFinal == BridgeSpec => StoppedIsSilent
  <1> DEFINE Silent ==
        \A g \in Gens :
           kind = "tcp" /\ op \notin {"stopping", "dropped"} /\ got'[g] # got[g]
           => g \in held
  <1>1. ASSUME BridgeInv, [BridgeNext]_bridgeVars PROVE [Silent]_bridgeVars
    <2>1. SUFFICES ASSUME NEW g \in Gens, kind = "tcp",
                          op \notin {"stopping", "dropped"},
                          got'[g] # got[g]
                   PROVE  g \in held
      OBVIOUS
    <2>2. Types /\ Shape(g)
      BY <1>1, Parts
    <2>3. \E x \in Gens : Forward(x) \/ RelayConnects(x)
      BY <1>1, <2>1, ZenonT(30)
      DEF BridgeNext, bridgeVars, handleVars, threadVars, relayVars,
          Start, Stop, Drop, Connect, ConnectFails, StopDone, HostWrites,
          Check, Poll, DeviceFails, ForwardLost, TakeFirst, RelayLosesFirst,
          RelayFails, RelayAborted, RelayEnds, PeerCloses, ReaderEof,
          ReaderTold, ReaderFindsNoDevice
    <2>4. PICK x \in Gens : Forward(x) \/ RelayConnects(x)
      BY <2>3
    <2>5. relay[x] \in {"up", "aborting", "connecting"} /\ x = g
      <3>1. \E r : got' = [got EXCEPT ![x] = r]
        BY <2>4 DEF Forward, RelayConnects, Deliver, Set
      <3>2. x = g
        BY <3>1, <2>1, <2>2 DEF Types
      <3> QED BY <2>4, <3>2 DEF Forward, RelayConnects
    <2> QED BY <2>1, <2>2, <2>5 DEF Shape
  <1>2. BridgeSpec => [][Silent]_bridgeVars
    BY <1>1, BridgeSound, PTL DEF BridgeSpec
  <1> QED BY <1>2 DEF StoppedIsSilent

-----------------------------------------------------------------------------
(* What the liveness properties of the runs rest on, without fairness.     *)

\* A TCP bridge throws nothing away (generic.rs:209-274): whatever its thread
\* has read, before or after the connect, is with the emulator or queued for
\* it, every single report, as long as neither the device nor the emulator's
\* end is gone.
Complete ==
    \A g \in Gens :
       kind = "tcp" /\ peer[g][1] = "up" /\ dev[g] # "gone" =>
          /\ Gapless(chan[g], got[g])
          /\ Len(got[g]) + Len(chan[g]) = polled[g]

\* What ends in a start has ended for good, whatever the owner does with the
\* handle afterwards (generic.rs:126-161, 475-489): a later start takes up no
\* sender, device, relay or connection of an earlier one.
StaysEnded(g) ==
    /\ Told(g) => Told(g)'
    /\ dev[g] = "gone" => dev'[g] = "gone"
    /\ Deaf(g) => Deaf(g)'
    /\ \A k \in Links : peer[g][k] = "closed" => peer'[g][k] = "closed"

EndsForGood == [][\A g \in 1..gen : StaysEnded(g)]_bridgeVars

DevRank == [none |-> 3, polling |-> 2, top |-> 1, gone |-> 0]

\* The thread of a GenericBridge the handle has let go of starts no further
\* round (generic.rs:126-161): it ends the one it is in and then the device,
\* also with reports queued, a connect that failed or a new start meanwhile.
GoesDown(g) ==
    kind # "udp" /\ dev[g] # "none" /\ Told(g) =>
       /\ Told(g)'
       /\ dev'[g] = dev[g] \/ DevRank[dev'[g]] < DevRank[dev[g]]

DevicesGoDown == [][\A g \in Gens : GoesDown(g)]_bridgeVars

\* No report the thread of a TCP bridge has read is lost while both ends are
\* there.  With fairness this is ReportsArrive, which the run checks.
THEOREM NothingIsLost == BridgeSpec => []Complete
  <1>1. BridgeInv => Complete
    <2> SUFFICES ASSUME BridgeInv, NEW g \in Gens, kind = "tcp",
                        peer[g][1] = "up", dev[g] # "gone"
                 PROVE  /\ Gapless(chan[g], got[g])
                        /\ Len(got[g]) + Len(chan[g]) = polled[g]
      BY DEF Complete
    <2>1. Unbroken(g)
      BY Parts
    <2> QED BY <2>1 DEF Unbroken
  <1> QED BY <1>1, BridgeSound, PTL

\* The steps that touch the senders a handle holds.
LEMMA LettingGo ==
    ASSUME BridgeInv, [BridgeNext]_bridgeVars
    PROVE  UNCHANGED held \/ held' = {} \/ held' = held \cup {gen + 1}
  <1> USE DEF handleVars, threadVars, relayVars
  <1>1. CASE \/ Start \/ Stop \/ Drop \/ Connect \/ ConnectFails \/ StopDone
             \/ UNCHANGED bridgeVars
    BY <1>1 DEF Start, Stop, Drop, Connect, ConnectFails, StopDone, bridgeVars
  <1>2. ASSUME NEW g \in Gens,
               \/ HostWrites(g) \/ Check(g) \/ Poll(g) \/ DeviceFails(g)
        PROVE  UNCHANGED held
    BY <1>2 DEF HostWrites, Check, Poll, DeviceFails
  <1>3. ASSUME NEW g \in Gens,
               \/ Forward(g) \/ ForwardLost(g) \/ TakeFirst(g)
               \/ RelayConnects(g) \/ RelayLosesFirst(g) \/ RelayFails(g)
               \/ RelayAborted(g) \/ RelayEnds(g)
        PROVE  UNCHANGED held
    BY <1>3 DEF Forward, ForwardLost, TakeFirst, RelayConnects,
                RelayLosesFirst, RelayFails, RelayAborted, RelayEnds
  <1>4. ASSUME NEW g \in Gens, NEW k \in Links,
               \/ PeerCloses(g, k) \/ ReaderEof(g, k)
               \/ ReaderTold(g, k) \/ ReaderFindsNoDevice(g, k)
        PROVE  UNCHANGED held
    BY <1>4 DEF PeerCloses, ReaderEof, ReaderTold, ReaderFindsNoDevice
  <1> QED BY <1>1, <1>2, <1>3, <1>4 DEF BridgeNext

LEMMA StaysTold ==
    ASSUME BridgeInv, [BridgeNext]_bridgeVars, NEW g \in 1..gen, Told(g)
    PROVE  Told(g)'
  <1>1. gen \in Nat /\ g # gen + 1
    BY Numbers DEF BridgeInv, Types
  <1> QED BY <1>1, LettingGo DEF Told

\* The steps that touch a device, and how they leave it.
LEMMA DeviceMoves ==
    ASSUME BridgeInv, [BridgeNext]_bridgeVars, NEW g \in 1..gen
    PROVE  \/ dev'[g] = dev[g]
           \/ dev[g] = "top" /\ (Told(g) /\ kind # "udp" => dev'[g] = "gone")
           \/ dev[g] = "polling" /\ dev'[g] \in {"top", "gone"}
  <1>1. /\ gen \in Nat /\ g # gen + 1 /\ DOMAIN dev = Gens /\ g \in Gens
    BY Numbers DEF BridgeInv, Types, Gens
  <1>2. CASE UNCHANGED dev
    BY <1>2
  <1>3. CASE Start
    BY <1>1, <1>3 DEF Start, Set
  <1>4. ASSUME NEW x \in Gens, Check(x) \/ Poll(x) \/ DeviceFails(x)
        PROVE  \/ dev'[g] = dev[g]
               \/ dev[g] = "top" /\ (Told(g) /\ kind # "udp" => dev'[g] = "gone")
               \/ dev[g] = "polling" /\ dev'[g] \in {"top", "gone"}
    <2>1. /\ dev[x] \in {"top", "polling"}
          /\ \/ dev' = Set(dev, x, dev'[x])
             \/ UNCHANGED dev
          /\ dev[x] = "top" /\ Told(x) /\ kind # "udp" => dev'[x] = "gone"
          /\ dev[x] = "polling" => dev'[x] \in {"top", "gone"}
      BY <1>1, <1>4 DEF Check, Poll, DeviceFails, Set
    <2> QED BY <1>1, <2>1 DEF Set
  <1>5. \/ UNCHANGED dev \/ Start
        \/ \E x \in Gens : Check(x) \/ Poll(x) \/ DeviceFails(x)
    BY ZenonT(30)
    DEF BridgeNext, bridgeVars, handleVars, threadVars, relayVars, Stop,
        Drop, Connect, ConnectFails, StopDone, HostWrites, Forward,
        ForwardLost, TakeFirst, RelayConnects, RelayLosesFirst, RelayFails,
        RelayAborted, RelayEnds, PeerCloses, ReaderEof, ReaderTold,
        ReaderFindsNoDevice, ReaderDone
  <1> QED BY <1>2, <1>3, <1>4, <1>5

LEMMA StaysDeaf ==
    ASSUME BridgeInv, [BridgeNext]_bridgeVars, NEW g \in 1..gen, Deaf(g)
    PROVE  Deaf(g)'
  <1>1. /\ gen \in Nat /\ g # gen + 1 /\ DOMAIN relay = Gens /\ g \in Gens
        /\ relay[g] = "done"
    BY Numbers DEF BridgeInv, Types, Gens, Deaf
  <1>2. CASE UNCHANGED relay
    BY <1>1, <1>2 DEF Deaf
  <1>3. CASE Start
    BY <1>1, <1>3 DEF Start, Set, Deaf
  <1>4. CASE Connect \/ ConnectFails
    <2>1. gen # g
      BY <1>1, <1>4 DEF BridgeInv, Connecting, Connect, ConnectFails
    <2> QED BY <1>1, <1>4, <2>1 DEF Connect, ConnectFails, Set, Deaf
  <1>5. CASE Stop
    BY <1>1, <1>5 DEF Stop, Deaf
  <1>6. ASSUME NEW x \in Gens,
               \/ Forward(x) \/ ForwardLost(x) \/ TakeFirst(x)
               \/ RelayConnects(x) \/ RelayLosesFirst(x) \/ RelayFails(x)
               \/ RelayAborted(x) \/ RelayEnds(x)
        PROVE  Deaf(g)'
    <2>1. relay[x] # "done"
      BY <1>6 DEF Forward, ForwardLost, TakeFirst, RelayConnects,
                  RelayLosesFirst, RelayFails, RelayAborted, RelayEnds
    <2>2. UNCHANGED relay \/ \E s : relay' = Set(relay, x, s)
      BY <1>6 DEF Forward, ForwardLost, TakeFirst, RelayConnects,
                  RelayLosesFirst, RelayFails, RelayAborted, RelayEnds,
                  ReaderEndsMeanwhile
    <2> QED BY <1>1, <2>1, <2>2 DEF Set, Deaf
  <1>7. \/ UNCHANGED relay \/ Start \/ Connect \/ ConnectFails \/ Stop
        \/ \E x \in Gens :
              \/ Forward(x) \/ ForwardLost(x) \/ TakeFirst(x)
              \/ RelayConnects(x) \/ RelayLosesFirst(x) \/ RelayFails(x)
              \/ RelayAborted(x) \/ RelayEnds(x)
    BY ZenonT(30)
    DEF BridgeNext, bridgeVars, handleVars, threadVars, relayVars, Drop,
        StopDone, HostWrites, Check, Poll, DeviceFails, PeerCloses,
        ReaderEof, ReaderTold, ReaderFindsNoDevice, ReaderDone
  <1> QED BY <1>2, <1>3, <1>4, <1>5, <1>6, <1>7

LEMMA StaysClosed ==
    ASSUME BridgeInv, [BridgeNext]_bridgeVars,
           NEW g \in Gens, NEW k \in Links, peer[g][k] = "closed"
    PROVE  peer'[g][k] = "closed"
  <1>1. \/ UNCHANGED peer
        \/ \E x \in Gens : \E l : peer' = [peer EXCEPT ![x][l] = "closed"]
    <2>1. ASSUME NEW x \in Gens, Forward(x) \/ RelayConnects(x)
          PROVE  \/ UNCHANGED peer
                 \/ \E l : peer' = [peer EXCEPT ![x][l] = "closed"]
      BY <2>1 DEF Forward, RelayConnects, ReaderEndsMeanwhile
    <2>2. ASSUME NEW x \in Gens, NEW l \in Links, PeerCloses(x, l)
          PROVE  peer' = [peer EXCEPT ![x][l] = "closed"]
      BY <2>2 DEF PeerCloses
    <2>3. \/ UNCHANGED peer
          \/ \E x \in Gens : Forward(x) \/ RelayConnects(x)
          \/ \E x \in Gens, l \in Links : PeerCloses(x, l)
      BY ZenonT(30)
      DEF BridgeNext, bridgeVars, handleVars, threadVars, relayVars, Start,
          Stop, Drop, Connect, ConnectFails, StopDone, HostWrites, Check,
          Poll, DeviceFails, ForwardLost, TakeFirst, RelayLosesFirst,
          RelayFails, RelayAborted, RelayEnds, ReaderEof, ReaderTold,
          ReaderFindsNoDevice, ReaderDone
    <2> QED BY <2>1, <2>2, <2>3
  <1>2. peer \in [Gens -> [Links -> {"up", "closed"}]]
    BY DEF BridgeInv, Types
  <1>3. ASSUME NEW x \in Gens, NEW l, peer' = [peer EXCEPT ![x][l] = "closed"]
        PROVE  peer'[g][k] = "closed"
    BY <1>2, <1>3
  <1> QED BY <1>1, <1>3

\* Senders let go of, devices destroyed, relays that have dropped their
\* channel and connections the emulator has closed stay so.
THEOREM EndsAreFinal == BridgeSpec => EndsForGood
  <1>1. ASSUME BridgeInv, [BridgeNext]_bridgeVars
        PROVE  [\A g \in 1..gen : StaysEnded(g)]_bridgeVars
    <2>1. 1..gen \subseteq Gens
      BY <1>1, Numbers DEF BridgeInv, Types, Gens
    <2>2. ASSUME NEW g \in 1..gen, dev[g] = "gone" PROVE dev'[g] = "gone"
      BY <1>1, <2>2, DeviceMoves
    <2> QED BY <1>1, <2>1, <2>2, StaysTold, StaysDeaf, StaysClosed
       DEF StaysEnded
  <1> QED BY <1>1, BridgeSound, PTL DEF BridgeSpec, EndsForGood

\* A device the handle has let go of is at most two steps of its thread from
\* its end, and no step of anybody takes it away from there.  With fairness
\* this is DeviceCloses, which the run checks.
THEOREM DevicesEnd == BridgeSpec => DevicesGoDown
  <1>1. ASSUME BridgeInv, [BridgeNext]_bridgeVars
        PROVE  [\A g \in Gens : GoesDown(g)]_bridgeVars
    <2>1. ASSUME NEW g \in Gens, kind # "udp", dev[g] # "none", Told(g)
          PROVE  /\ Told(g)'
                 /\ \/ dev'[g] = dev[g]
                    \/ DevRank[dev'[g]] < DevRank[dev[g]]
      <3>1. g \in 1..gen
        <4>1. Shape(g) /\ gen \in Nat /\ g \in Nat \ {0}
          BY <1>1, Parts, Numbers DEF Types
        <4> QED BY <2>1, <4>1 DEF Shape
      <3>2. Told(g)'
        BY <1>1, <2>1, <3>1, StaysTold
      <3>3. \/ dev'[g] = dev[g]
            \/ dev[g] = "top" /\ dev'[g] = "gone"
            \/ dev[g] = "polling" /\ dev'[g] \in {"top", "gone"}
        BY <1>1, <2>1, <3>1, DeviceMoves
      <3> QED BY <3>2, <3>3 DEF DevRank
    <2> QED BY <2>1 DEF GoesDown
  <1> QED BY <1>1, BridgeSound, PTL DEF BridgeSpec, DevicesGoDown
=============================================================================

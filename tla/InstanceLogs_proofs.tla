------------------------- MODULE InstanceLogs_proofs -------------------------
(***************************************************************************)
(* Theorems about module InstanceLogs, for any capacity of the rings and   *)
(* any number of lines, reports and queries: types, what a ring holds, how *)
(* the counters lead the log, that no answer goes back behind an earlier   *)
(* one, and that an answer to logs has no hole.                            *)
(***************************************************************************)
EXTENDS InstanceLogs, SequenceTheorems, FiniteSetTheorems, TLAPS

USE DEF logVars, pipeVars, askVars

-----------------------------------------------------------------------------
(* Rings.                                                                  *)

LEMMA NewestProperties ==
    ASSUME NEW S, NEW s \in Seq(S), NEW n \in Nat
    PROVE  LET k == IF Len(s) > n THEN n ELSE Len(s)
           IN /\ Newest(s, n) \in Seq(S)
              /\ Len(Newest(s, n)) = k
              /\ \A i \in 1..k : Newest(s, n)[i] = s[Len(s) - k + i]
  <1> DEFINE k == IF Len(s) > n THEN n ELSE Len(s)
             a == IF Len(s) > n THEN Len(s) - n + 1 ELSE 1
  <1>1. Len(s) \in Nat /\ a \in Int /\ a >= 1 /\ Len(s) - a + 1 = k /\ k \in Nat
    BY LenProperties
  <1>2. \A i \in a..Len(s) : s[i] \in S
    BY <1>1, ElementOfSeq
  <1>3. /\ SubSeq(s, a, Len(s)) \in Seq(S)
        /\ Len(SubSeq(s, a, Len(s))) =
              IF a <= Len(s) THEN Len(s) - a + 1 ELSE 0
        /\ \A i \in 1..Len(s) - a + 1 : SubSeq(s, a, Len(s))[i] = s[a + i - 1]
    BY <1>1, <1>2, SubSeqProperties
  <1>4. /\ (IF a <= Len(s) THEN Len(s) - a + 1 ELSE 0) = k
        /\ \A i \in 1..k : a + i - 1 = Len(s) - k + i
    <2> DEFINE l == Len(s)
    <2> HIDE DEF l
    <2>1. /\ l \in Nat
          /\ k = IF l > n THEN n ELSE l
          /\ a = IF l > n THEN l - n + 1 ELSE 1
      BY <1>1 DEF l
    <2> HIDE DEF k, a
    <2>2. (IF a <= l THEN l - a + 1 ELSE 0) = k
      BY <2>1
    <2>3. \A i \in Int : a + i - 1 = l - k + i
      BY <2>1
    <2> QED BY <2>2, <2>3 DEF l
  <1>5. Newest(s, n) = SubSeq(s, a, Len(s))
    BY DEF Newest
  <1> HIDE DEF a
  <1> QED BY <1>1, <1>3, <1>4, <1>5

\* A ring that holds the newest entries of what was written holds them again
\* after the next one.
LEMMA PushedNewest ==
    ASSUME NEW S, NEW s \in Seq(S), NEW e \in S
    PROVE  Pushed(Newest(s, Cap), e) = Newest(Append(s, e), Cap)
  <1> DEFINE l == Len(s)
             ring == Newest(s, Cap)
             all == Append(s, e)
             new == Newest(all, Cap)
             kept == IF Len(ring) >= Cap THEN Tail(ring) ELSE ring
             x == Append(kept, e)
             k == IF l > Cap THEN Cap ELSE l
             m == IF l + 1 > Cap THEN Cap ELSE l + 1
  <1>1. Cap \in Nat \ {0} /\ l \in Nat
    BY LogsAssumption, LenProperties DEF LogsAssumption
  <1>2. /\ all \in Seq(S) /\ Len(all) = l + 1 /\ all[l + 1] = e
        /\ \A i \in 1..l : all[i] = s[i]
    BY AppendProperties
  <1>3. /\ ring \in Seq(S) /\ Len(ring) = k
        /\ \A i \in 1..k : ring[i] = s[l - k + i]
    BY <1>1, NewestProperties
  <1>4. /\ new \in Seq(S) /\ Len(new) = m
        /\ \A i \in 1..m : new[i] = all[l + 1 - m + i]
    <2> DEFINE j == IF Len(all) > Cap THEN Cap ELSE Len(all)
    <2>1. /\ new \in Seq(S) /\ Len(new) = j
          /\ \A i \in 1..j : new[i] = all[Len(all) - j + i]
      BY <1>1, <1>2, NewestProperties
    <2>2. j = m /\ Len(all) = l + 1
      BY <1>2
    <2>3. m \in Int /\ l \in Int
      BY <1>1
    <2> HIDE DEF l, all, new, j, m
    <2>4. ASSUME NEW i \in 1..m PROVE new[i] = all[l + 1 - m + i]
      <3>1. new[i] = all[Len(all) - j + i]
        BY <2>1, <2>2
      <3>2. Len(all) - j + i = l + 1 - m + i
        BY <2>2, <2>3
      <3> QED BY <3>1, <3>2
    <2> QED BY <2>1, <2>2, <2>4
  <1>5. /\ l >= Cap => k = Cap /\ m = Cap
        /\ l < Cap => k = l /\ m = l + 1
    BY <1>1
  <1> HIDE DEF l, ring, all, new, k, m
  <1>6. CASE l >= Cap
    <2>1. /\ Len(ring) = Cap /\ Len(new) = Cap /\ kept = Tail(ring)
          /\ \A i \in 1..Cap : ring[i] = s[l - Cap + i]
          /\ \A i \in 1..Cap : new[i] = all[l + 1 - Cap + i]
      BY <1>1, <1>3, <1>4, <1>6, <1>5
    <2>2. ring # <<>>
      BY <1>1, <2>1
    <2>3. /\ kept \in Seq(S) /\ Len(kept) = Cap - 1
          /\ \A i \in 1..Cap - 1 : kept[i] = ring[i + 1]
      BY <1>3, <2>1, <2>2, HeadTailProperties
    <2> HIDE DEF kept
    <2>4. /\ x \in Seq(S) /\ Len(x) = Cap /\ x[Cap] = e
          /\ \A i \in 1..Cap - 1 : x[i] = kept[i]
      <3>1. /\ x \in Seq(S) /\ Len(x) = Len(kept) + 1
            /\ x[Len(kept) + 1] = e /\ \A i \in 1..Len(kept) : x[i] = kept[i]
        BY <2>3, AppendProperties
      <3> HIDE DEF x
      <3>2. Cap - 1 + 1 = Cap
        BY <1>1
      <3> QED BY <2>3, <3>1, <3>2
    <2> HIDE DEF x
    <2>5. ASSUME NEW i \in 1..Len(x) PROVE x[i] = new[i]
      <3>1. CASE i = Cap
        <4>1. l + 1 - Cap + i = l + 1 /\ i \in 1..Cap
          BY <1>1, <3>1
        <4> QED BY <1>2, <2>1, <2>4, <3>1, <4>1
      <3>2. CASE i # Cap
        <4>1. /\ i \in 1..Cap - 1 /\ i \in 1..Cap /\ i + 1 \in 1..Cap
              /\ l + 1 - Cap + i \in 1..l /\ l + 1 - Cap + i = l - Cap + (i + 1)
          BY <1>1, <1>6, <2>4, <3>2
        <4>2. x[i] = ring[i + 1]
          BY <2>3, <2>4, <4>1
        <4>3. ring[i + 1] = s[l - Cap + (i + 1)]
          BY <2>1, <4>1
        <4>4. new[i] = s[l + 1 - Cap + i]
          BY <1>2, <2>1, <4>1
        <4> QED BY <4>1, <4>2, <4>3, <4>4
      <3> QED BY <3>1, <3>2
    <2>6. x = new
      BY <1>4, <2>1, <2>4, <2>5, SeqEqual
    <2> QED BY <2>6 DEF Pushed, x, kept, new, ring, all
  <1>7. CASE l < Cap
    <2>1. /\ Len(ring) = l /\ Len(new) = l + 1 /\ kept = ring
          /\ \A i \in 1..l : ring[i] = s[i]
          /\ \A i \in 1..l + 1 : new[i] = all[i]
      <3>1. k = l /\ m = l + 1 /\ ~(l >= Cap)
        BY <1>1, <1>7, <1>5
      <3>2. \A i \in Int : l - l + i = i /\ l + 1 - (l + 1) + i = i
        BY <1>1
      <3> QED BY <1>1, <1>3, <1>4, <3>1, <3>2
    <2> HIDE DEF kept
    <2>2. /\ x \in Seq(S) /\ Len(x) = l + 1 /\ x[l + 1] = e
          /\ \A i \in 1..l : x[i] = s[i]
      <3>1. /\ x \in Seq(S) /\ Len(x) = Len(kept) + 1
            /\ x[Len(kept) + 1] = e /\ \A i \in 1..Len(kept) : x[i] = kept[i]
        BY <1>3, <2>1, AppendProperties
      <3> HIDE DEF x
      <3> QED BY <2>1, <3>1
    <2> HIDE DEF x
    <2>3. \A i \in 1..Len(x) : x[i] = new[i]
      BY <1>1, <1>2, <2>1, <2>2, SMTT(30)
    <2>4. x = new
      BY <1>4, <2>1, <2>2, <2>3, SeqEqual
    <2> QED BY <2>4 DEF Pushed, x, kept, new, ring, all
  <1> QED BY <1>1, <1>6, <1>7

LEMMA InBoundedSeq ==
    ASSUME NEW S, NEW s \in Seq(S), NEW n \in Nat, Len(s) <= n
    PROVE  s \in BoundedSeq(S, n)
  <1>1. Len(s) \in 0..n /\ s \in [1..Len(s) -> S]
    BY LenProperties
  <1> QED BY <1>1 DEF BoundedSeq, SeqOf

-----------------------------------------------------------------------------
(* How often a direction occurs.                                           *)

LEMMA OfDirectionEmpty ==
    ASSUME NEW d
    PROVE  OfDirection(<<>>, d) = 0
  <1>1. {i \in DOMAIN <<>> : <<>>[i].dir = d} = {}
    OBVIOUS
  <1> QED BY <1>1, FS_EmptySet DEF OfDirection

LEMMA OfDirectionNat ==
    ASSUME NEW s \in Seq(Logged), NEW d
    PROVE  OfDirection(s, d) \in Nat
  <1> DEFINE I == {i \in 1..Len(s) : s[i].dir = d}
  <1>1. Len(s) \in Nat /\ DOMAIN s = 1..Len(s)
    BY LenProperties
  <1>2. IsFiniteSet(1..Len(s)) /\ I \in SUBSET (1..Len(s))
    BY <1>1, FS_Interval
  <1>3. IsFiniteSet(I)
    BY <1>2, FS_Subset
  <1> QED BY <1>1, <1>3, FS_CardinalityType DEF OfDirection

LEMMA OfDirectionAppend ==
    ASSUME NEW s \in Seq(Logged), NEW e \in Logged, NEW d
    PROVE  OfDirection(Append(s, e), d) =
              IF e.dir = d THEN OfDirection(s, d) + 1 ELSE OfDirection(s, d)
  <1> DEFINE l == Len(s)
             a == Append(s, e)
             I == {i \in 1..l : s[i].dir = d}
             J == {i \in 1..l + 1 : a[i].dir = d}
  <1>1. /\ l \in Nat /\ DOMAIN s = 1..l /\ DOMAIN a = 1..l + 1
        /\ a[l + 1] = e /\ \A i \in 1..l : a[i] = s[i]
    BY AppendProperties, LenProperties
  <1>2. IsFiniteSet(I) /\ Cardinality(I) \in Nat /\ l + 1 \notin I
    <2>1. IsFiniteSet(1..l) /\ I \in SUBSET (1..l)
      BY <1>1, FS_Interval
    <2>2. IsFiniteSet(I)
      BY <2>1, FS_Subset
    <2> QED BY <1>1, <2>2, FS_CardinalityType
  <1> HIDE DEF l, a
  <1>3. CASE e.dir = d
    <2>1. J = I \cup {l + 1}
      BY <1>1, <1>3
    <2>2. Cardinality(J) = Cardinality(I) + 1
      BY <1>2, <2>1, FS_AddElement
    <2> QED BY <1>1, <1>2, <1>3, <2>2 DEF OfDirection, a
  <1>4. CASE e.dir # d
    <2>1. J = I
      BY <1>1, <1>4
    <2> QED BY <1>1, <1>2, <1>4, <2>1 DEF OfDirection, a
  <1> QED BY <1>3, <1>4

-----------------------------------------------------------------------------
(* The invariant.                                                          *)

Drain == [dir : Directions, todo : SUBSET {"reports", "bytes"}]

\* The drain task has counted its report in k, of direction d.
Counted(d, k) == drain # None /\ drain.dir = d /\ k \notin drain.todo

Exact ==
    \A d \in Directions :
       /\ stats[<<d, "reports">>] = OfDirection(drained, d)
                                    + (IF Counted(d, "reports") THEN 1 ELSE 0)
       /\ stats[<<d, "bytes">>] = ReportSize * OfDirection(drained, d)
                                  + (IF Counted(d, "bytes") THEN ReportSize ELSE 0)

\* Every report is in the channel, with the drain task, or logged.
Reported == Len(drained) + Len(channel) + (IF drain = None THEN 0 ELSE 1)

QueryShape ==
    \/ query = Idle
    \/ \E p \in {"emulator", "bridge"} : \E s, t, o :
          query = [pc |-> p, source |-> s, tail |-> t, out |-> o]
    \/ \E c : query = [pc |-> "stats", left |-> c]

LogTypes ==
    /\ now \in 0..MaxTime /\ alive \in BOOLEAN
    /\ lines \in Seq(Line) /\ Len(lines) <= MaxLines
    /\ drained \in Seq(Logged) /\ channel \in Seq(Directions)
    /\ drain \in {None} \cup Drain
    /\ Reported <= MaxReports
    /\ stats \in [Counters -> Nat] /\ snap \in [Counters -> Nat]
    /\ QueryShape

LogsInv ==
    /\ LogTypes
    /\ RingsKeepNewest
    /\ Exact
    /\ \A c \in Counters : snap[c] <= stats[c]

LEMMA Bounds ==
    /\ Cap \in Nat \ {0} /\ ReportSize \in Nat \ {0}
    /\ MaxLines \in Nat /\ MaxReports \in Nat /\ MaxTime \in Nat
    /\ None \notin Drain
  BY LogsAssumption DEF LogsAssumption, Drain

LEMMA QueryPc ==
    ASSUME QueryShape
    PROVE  query.pc \in {"idle", "emulator", "bridge", "stats"}
  BY DEF QueryShape, Idle

LEMMA LogsInit == ASSUME Init PROVE LogsInv
  <1>1. /\ lines = <<>> /\ drained = <<>> /\ channel = <<>> /\ drain = None
        /\ emuRing = <<>> /\ bridgeRing = <<>> /\ now = 0 /\ alive = TRUE
        /\ query = Idle
        /\ stats = [c \in Counters |-> 0] /\ snap = [c \in Counters |-> 0]
    BY DEF Init
  <1>2. Newest(<<>>, Cap) = <<>>
    <2>1. /\ Newest(<<>>, Cap) \in Seq(Line) /\ Len(<<>>) = 0
          /\ Len(Newest(<<>>, Cap)) = IF Len(<<>>) > Cap THEN Cap ELSE Len(<<>>)
      BY NewestProperties, Bounds, EmptySeq
    <2>2. Len(Newest(<<>>, Cap)) = 0
      BY <2>1, Bounds
    <2> QED BY <2>1, <2>2, EmptySeq
  <1>3. LogTypes
    BY <1>1, Bounds, EmptySeq DEF LogTypes, Reported, QueryShape
  <1>4. Exact
    <2> SUFFICES ASSUME NEW d \in Directions
                 PROVE  /\ stats[<<d, "reports">>] =
                              OfDirection(drained, d)
                              + (IF Counted(d, "reports") THEN 1 ELSE 0)
                        /\ stats[<<d, "bytes">>] =
                              ReportSize * OfDirection(drained, d)
                              + (IF Counted(d, "bytes") THEN ReportSize ELSE 0)
      BY DEF Exact
    <2>1. /\ stats[<<d, "reports">>] = 0 /\ stats[<<d, "bytes">>] = 0
          /\ OfDirection(drained, d) = 0 /\ ReportSize * 0 = 0
      BY <1>1, Bounds, OfDirectionEmpty DEF Counters
    <2>2. ~Counted(d, "reports") /\ ~Counted(d, "bytes")
      BY <1>1 DEF Counted
    <2>3. /\ OfDirection(drained, d) + 0 = 0
          /\ ReportSize * OfDirection(drained, d) + 0 = 0
      BY <2>1
    <2> QED BY <2>1, <2>2, <2>3
  <1>5. RingsKeepNewest
    BY <1>1, <1>2 DEF RingsKeepNewest
  <1> QED BY <1>1, <1>3, <1>4, <1>5 DEF LogsInv

\* A step that leaves the rings, the counters and the drain task alone.
LEMMA QuietStep ==
    ASSUME LogsInv, UNCHANGED <<logVars, pipeVars, snap>>,
           now' \in 0..MaxTime, alive' \in BOOLEAN, QueryShape'
    PROVE  LogsInv'
  BY DEF LogsInv, LogTypes, RingsKeepNewest, Exact, Counted, Reported

LEMMA PrintStep == ASSUME LogsInv, PrintLine PROVE LogsInv'
  <1> DEFINE l == [n |-> Len(lines) + 1, at |-> now]
  <1>1. /\ lines' = Append(lines, l) /\ emuRing' = Pushed(emuRing, l)
        /\ UNCHANGED <<now, alive, pipeVars, askVars>>
        /\ Len(lines) < MaxLines /\ Len(lines) \in Nat
    BY LenProperties DEF PrintLine, LogsInv, LogTypes
  <1>2. l \in Line
    BY <1>1, Bounds DEF Line, LogsInv, LogTypes
  <1> HIDE DEF l
  <1>3. lines' \in Seq(Line) /\ Len(lines') <= MaxLines
    <2>1. Append(lines, l) \in Seq(Line) /\ Len(Append(lines, l)) = Len(lines) + 1
      BY <1>2, AppendProperties DEF LogsInv, LogTypes
    <2> QED BY <1>1, <2>1, Bounds
  <1>4. emuRing' = Newest(lines', Cap)
    BY <1>1, <1>2, PushedNewest DEF LogsInv, LogTypes, RingsKeepNewest
  <1>5. LogTypes'
    BY <1>1, <1>3 DEF LogsInv, LogTypes, Reported, QueryShape
  <1>6. Exact'
    BY <1>1 DEF LogsInv, Exact, Counted
  <1> QED BY <1>1, <1>4, <1>5, <1>6 DEF LogsInv, RingsKeepNewest

LEMMA InterceptStep ==
    ASSUME LogsInv, NEW d \in Directions, Intercept(d) PROVE LogsInv'
  <1>1. /\ channel' = Append(channel, d) /\ Reported < MaxReports
        /\ UNCHANGED <<now, alive, drain, bridgeRing, stats, drained, logVars,
                       askVars>>
    BY DEF Intercept, Reported
  <1>2. /\ channel' \in Seq(Directions) /\ Len(channel') = Len(channel) + 1
        /\ Len(channel) \in Nat /\ Len(drained) \in Nat
    BY <1>1, AppendProperties, LenProperties DEF LogsInv, LogTypes
  <1>3. Reported' <= MaxReports
    BY <1>1, <1>2, Bounds DEF Reported
  <1>4. LogTypes'
    BY <1>1, <1>2, <1>3 DEF LogsInv, LogTypes, QueryShape
  <1>5. Exact'
    BY <1>1 DEF LogsInv, Exact, Counted
  <1> QED BY <1>1, <1>4, <1>5 DEF LogsInv, RingsKeepNewest

LEMMA ReceiveStep == ASSUME LogsInv, Receive PROVE LogsInv'
  <1> DEFINE r == [dir |-> Head(channel), todo |-> {"reports", "bytes"}]
  <1>1. /\ drain = None /\ channel # <<>> /\ drain' = r
        /\ channel' = Tail(channel)
        /\ UNCHANGED <<now, alive, bridgeRing, stats, drained, logVars, askVars>>
    BY DEF Receive
  <1>2. /\ Head(channel) \in Directions /\ channel' \in Seq(Directions)
        /\ Len(channel') = Len(channel) - 1
        /\ Len(channel) \in Nat /\ Len(drained) \in Nat
    BY <1>1, HeadTailProperties, LenProperties DEF LogsInv, LogTypes
  <1>3. r \in Drain /\ r.todo = {"reports", "bytes"}
    BY <1>2 DEF Drain
  <1>4. Reported' <= MaxReports
    <2>1. Len(drained) + Len(channel) + 0 <= MaxReports
      BY <1>1 DEF LogsInv, LogTypes, Reported
    <2>2. Reported' = Len(drained) + (Len(channel) - 1) + 1
      BY <1>1, <1>2, <1>3, Bounds DEF Reported
    <2> QED BY <1>2, <2>1, <2>2, Bounds
  <1>5. LogTypes'
    BY <1>1, <1>2, <1>3, <1>4 DEF LogsInv, LogTypes, QueryShape
  <1>6. Exact'
    <2>1. \A d : /\ ~Counted(d, "reports") /\ ~Counted(d, "bytes")
                 /\ ~Counted(d, "reports")' /\ ~Counted(d, "bytes")'
      BY <1>1, <1>3 DEF Counted
    <2> QED BY <1>1, <2>1 DEF LogsInv, Exact
  <1> QED BY <1>1, <1>5, <1>6 DEF LogsInv, RingsKeepNewest

LEMMA CountStep ==
    ASSUME LogsInv, NEW k \in {"reports", "bytes"}, Count(k) PROVE LogsInv'
  <1> DEFINE x == <<drain.dir, k>>
             v == IF k = "reports" THEN 1 ELSE ReportSize
  <1>1. /\ drain # None /\ k \in drain.todo
        /\ stats' = [stats EXCEPT ![x] = stats[x] + v]
        /\ drain' = [drain EXCEPT !.todo = drain.todo \ {k}]
        /\ UNCHANGED <<now, alive, channel, bridgeRing, drained, logVars,
                       askVars>>
    BY DEF Count
  <1>2. drain \in Drain /\ drain' \in Drain /\ drain'.dir = drain.dir
        /\ drain'.todo = drain.todo \ {k} /\ drain.dir \in Directions
    BY <1>1 DEF LogsInv, LogTypes, Drain
  <1>3. x \in Counters /\ v \in Nat \ {0} /\ stats \in [Counters -> Nat]
    BY <1>2, Bounds DEF Counters, LogsInv, LogTypes
  <1>4. stats' \in [Counters -> Nat]
    BY <1>1, <1>3
  <1>5. Reported' = Reported
    BY <1>1, <1>2, Bounds DEF Reported
  <1>6. LogTypes'
    BY <1>1, <1>2, <1>4, <1>5 DEF LogsInv, LogTypes, QueryShape
  <1>7. ASSUME NEW c \in Counters PROVE snap'[c] <= stats'[c]
    <2>1. snap[c] <= stats[c] /\ snap[c] \in Nat /\ stats[c] \in Nat
      BY DEF LogsInv, LogTypes
    <2>2. stats'[c] = stats[c] \/ stats'[c] = stats[c] + v
      BY <1>1, <1>3
    <2> QED BY <1>1, <1>3, <2>1, <2>2
  <1>8. ASSUME NEW d \in Directions, NEW j \in {"reports", "bytes"}
        PROVE  /\ <<d, j>> = x =>
                     /\ stats'[<<d, j>>] = stats[<<d, j>>] + v /\ j = k
                     /\ ~Counted(d, j) /\ Counted(d, j)'
               /\ <<d, j>> # x =>
                     /\ stats'[<<d, j>>] = stats[<<d, j>>]
                     /\ Counted(d, j)' <=> Counted(d, j)
    <2>1. <<d, j>> \in Counters
      BY DEF Counters
    <2>2. drain # None /\ drain' # None
      BY <1>1, <1>2, Bounds
    <2>3. <<d, j>> = x <=> d = drain.dir /\ j = k
      OBVIOUS
    <2>4. /\ <<d, j>> = x => stats'[<<d, j>>] = stats[<<d, j>>] + v
          /\ <<d, j>> # x => stats'[<<d, j>>] = stats[<<d, j>>]
      BY <1>1, <1>3, <2>1
    <2> HIDE DEF x, v
    <2> QED BY <1>1, <1>2, <2>2, <2>3, <2>4 DEF Counted
  <1>9. Exact'
    <2> HIDE DEF x
    <2> SUFFICES ASSUME NEW d \in Directions
                 PROVE  /\ stats'[<<d, "reports">>] =
                              OfDirection(drained', d)
                              + (IF Counted(d, "reports")' THEN 1 ELSE 0)
                        /\ stats'[<<d, "bytes">>] =
                              ReportSize * OfDirection(drained', d)
                              + (IF Counted(d, "bytes")' THEN ReportSize ELSE 0)
      BY DEF Exact
    <2>1. /\ stats[<<d, "reports">>] =
                OfDirection(drained, d)
                + (IF Counted(d, "reports") THEN 1 ELSE 0)
          /\ stats[<<d, "bytes">>] =
                ReportSize * OfDirection(drained, d)
                + (IF Counted(d, "bytes") THEN ReportSize ELSE 0)
      BY DEF LogsInv, Exact
    <2> DEFINE m == OfDirection(drained, d)
               p == ReportSize * OfDirection(drained, d)
               f == stats[<<d, "reports">>]
               g == stats[<<d, "bytes">>]
    <2>2. /\ m \in Int /\ p \in Int /\ f \in Int /\ g \in Int
          /\ OfDirection(drained', d) = m
      <3>1. \A s \in Seq(Logged) : OfDirection(s, d) \in Nat
        BY OfDirectionNat
      <3>2. <<d, "reports">> \in Counters /\ <<d, "bytes">> \in Counters
        BY DEF Counters
      <3> QED BY <1>1, <1>3, <3>1, <3>2, Bounds, SMTT(30) DEF LogsInv, LogTypes
    <2>3. stats'[<<d, "reports">>] = m + (IF Counted(d, "reports")' THEN 1 ELSE 0)
      <3>1. CASE <<d, "reports">> = x
        BY <1>8, <2>1, <2>2, <3>1
      <3>2. CASE <<d, "reports">> # x
        BY <1>8, <2>1, <2>2, <3>2
      <3> QED BY <3>1, <3>2
    <2>4. stats'[<<d, "bytes">>] = p + (IF Counted(d, "bytes")' THEN ReportSize ELSE 0)
      <3>1. CASE <<d, "bytes">> = x
        BY <1>8, <2>1, <2>2, <3>1, Bounds
      <3>2. CASE <<d, "bytes">> # x
        BY <1>8, <2>1, <2>2, <3>2
      <3> QED BY <3>1, <3>2
    <2> QED BY <2>2, <2>3, <2>4
  <1> QED BY <1>1, <1>6, <1>7, <1>9 DEF LogsInv, RingsKeepNewest

LEMMA LogStep == ASSUME LogsInv, Log PROVE LogsInv'
  <1> DEFINE e == [n |-> Len(drained) + 1, at |-> now, dir |-> drain.dir]
  <1>1. /\ drain # None /\ drain.todo = {} /\ drain' = None
        /\ drained' = Append(drained, e) /\ bridgeRing' = Pushed(bridgeRing, e)
        /\ UNCHANGED <<now, alive, channel, stats, logVars, askVars>>
    BY DEF Log
  <1>2. /\ drain \in Drain /\ Len(drained) \in Nat /\ Len(channel) \in Nat
        /\ Len(drained) + Len(channel) + 1 <= MaxReports
    BY <1>1, LenProperties DEF LogsInv, LogTypes, Reported
  <1>3. e \in Logged /\ e.dir = drain.dir
    <2>1. Len(drained) + 1 \in 1..MaxReports
      BY <1>2, Bounds
    <2> QED BY <1>2, <2>1 DEF Logged, Drain, LogsInv, LogTypes
  <1> HIDE DEF e
  <1>4. drained' \in Seq(Logged) /\ Len(drained') = Len(drained) + 1
    BY <1>1, <1>3, AppendProperties DEF LogsInv, LogTypes
  <1>5. bridgeRing' = Newest(drained', Cap)
    BY <1>1, <1>3, PushedNewest DEF LogsInv, LogTypes, RingsKeepNewest
  <1>6. Reported' <= MaxReports
    BY <1>1, <1>2, <1>4 DEF Reported
  <1>7. LogTypes'
    BY <1>1, <1>4, <1>6 DEF LogsInv, LogTypes, QueryShape
  <1>8. Exact'
    <2> SUFFICES ASSUME NEW d \in Directions
                 PROVE  /\ stats'[<<d, "reports">>] =
                              OfDirection(drained', d)
                              + (IF Counted(d, "reports")' THEN 1 ELSE 0)
                        /\ stats'[<<d, "bytes">>] =
                              ReportSize * OfDirection(drained', d)
                              + (IF Counted(d, "bytes")' THEN ReportSize ELSE 0)
      BY DEF Exact
    <2> DEFINE m == OfDirection(drained, d)
    <2>1. /\ stats[<<d, "reports">>] =
                m + (IF Counted(d, "reports") THEN 1 ELSE 0)
          /\ stats[<<d, "bytes">>] =
                ReportSize * m + (IF Counted(d, "bytes") THEN ReportSize ELSE 0)
      BY DEF LogsInv, Exact
    <2>2. /\ m \in Nat /\ ReportSize \in Nat
          /\ OfDirection(drained', d) = IF drain.dir = d THEN m + 1 ELSE m
      BY <1>1, <1>3, OfDirectionNat, OfDirectionAppend, Bounds
      DEF LogsInv, LogTypes
    <2>3. /\ Counted(d, "reports") <=> drain.dir = d
          /\ Counted(d, "bytes") <=> drain.dir = d
          /\ ~Counted(d, "reports")' /\ ~Counted(d, "bytes")'
      BY <1>1 DEF Counted
    <2> HIDE DEF m
    <2>4. CASE drain.dir = d
      <3>1. ReportSize * (m + 1) + 0 = ReportSize * m + ReportSize
        BY <2>2
      <3> QED BY <1>1, <2>1, <2>2, <2>3, <2>4, <3>1
    <2>5. CASE drain.dir # d
      BY <1>1, <2>1, <2>2, <2>3, <2>5
    <2> QED BY <2>4, <2>5
  <1> QED BY <1>1, <1>5, <1>7, <1>8 DEF LogsInv, RingsKeepNewest

LEMMA LoadStep ==
    ASSUME LogsInv, NEW c \in Counters, Load(c) PROVE LogsInv'
  <1>1. /\ snap' = [snap EXCEPT ![c] = stats[c]]
        /\ UNCHANGED <<now, alive, logVars, pipeVars>>
        /\ query.pc = "stats"
        /\ query' = Idle \/ query' = [query EXCEPT !.left = query.left \ {c}]
    BY DEF Load
  <1>2. QueryShape'
    <2>1. PICK l : query = [pc |-> "stats", left |-> l]
      BY <1>1 DEF LogsInv, LogTypes, QueryShape, Idle
    <2>2. query' = Idle \/ query' = [pc |-> "stats", left |-> l \ {c}]
      BY <1>1, <2>1
    <2> QED BY <2>2 DEF QueryShape
  <1>3. snap' \in [Counters -> Nat]
    BY <1>1 DEF LogsInv, LogTypes
  <1>4. LogTypes'
    BY <1>1, <1>2, <1>3 DEF LogsInv, LogTypes, Reported
  <1>5. \A d \in Counters : snap'[d] <= stats'[d]
    BY <1>1 DEF LogsInv, LogTypes
  <1>6. Exact'
    BY <1>1 DEF LogsInv, Exact, Counted
  <1> QED BY <1>1, <1>4, <1>5, <1>6 DEF LogsInv, RingsKeepNewest

LEMMA LogsStep == ASSUME LogsInv, [Next]_vars PROVE LogsInv'
  <1>1. CASE UNCHANGED vars
    BY <1>1 DEF vars, LogsInv, LogTypes, RingsKeepNewest, Exact, Counted,
                Reported, QueryShape
  <1>2. CASE Tick
    <2>1. now' \in 0..MaxTime
      BY <1>2, Bounds DEF Tick, LogsInv, LogTypes
    <2>2. QueryShape'
      BY <1>2 DEF Tick, LogsInv, LogTypes, QueryShape
    <2> QED BY <1>2, <2>1, <2>2, QuietStep DEF Tick, LogsInv, LogTypes
  <1>3. CASE PrintLine
    BY <1>3, PrintStep
  <1>4. ASSUME NEW d \in Directions, Intercept(d) PROVE LogsInv'
    BY <1>4, InterceptStep
  <1>5. CASE Receive
    BY <1>5, ReceiveStep
  <1>6. CASE Log
    BY <1>6, LogStep
  <1>7. ASSUME NEW k \in {"reports", "bytes"}, Count(k) PROVE LogsInv'
    BY <1>7, CountStep
  <1>8. CASE StopInstance
    <2>1. QueryShape'
      BY <1>8 DEF StopInstance, LogsInv, LogTypes, QueryShape
    <2> QED BY <1>8, <2>1, QuietStep DEF StopInstance, LogsInv, LogTypes
  <1>9. ASSUME NEW s \in Sources, NEW t \in Tails \cup {None}, AskLogs(s, t)
        PROVE  LogsInv'
    <2>1. QueryShape'
      BY <1>9 DEF AskLogs, Ask, QueryShape
    <2> QED BY <1>9, <2>1, QuietStep DEF AskLogs, LogsInv, LogTypes
  <1>10. CASE ReadEmulator
    <2>1. QueryShape'
      <3> DEFINE o == IF query.source = "bridge" THEN <<>>
                      ELSE [i \in DOMAIN emuRing |->
                               Entry(now, "emulator", emuRing[i])]
      <3>1. /\ query.pc = "emulator"
            /\ query' = [query EXCEPT !.pc = "bridge", !.out = o]
        BY <1>10 DEF ReadEmulator
      <3> HIDE DEF o
      <3>2. PICK p, s, t, q :
                query = [pc |-> p, source |-> s, tail |-> t, out |-> q]
        BY <3>1 DEF LogsInv, LogTypes, QueryShape, Idle
      <3>3. query' = [pc |-> "bridge", source |-> s, tail |-> t, out |-> o]
        BY <3>1, <3>2
      <3> QED BY <3>3 DEF QueryShape
    <2> QED BY <1>10, <2>1, QuietStep DEF ReadEmulator, LogsInv, LogTypes
  <1>11. CASE ReadBridge
    <2>1. query' = Idle
      BY <1>11 DEF ReadBridge
    <2>2. UNCHANGED <<now, alive, logVars, pipeVars, snap, asked>>
      BY <1>11 DEF ReadBridge
    <2> QED BY <2>1, <2>2, QuietStep DEF QueryShape, LogsInv, LogTypes
  <1>12. CASE AskStats
    <2>1. QueryShape'
      BY <1>12 DEF AskStats, Ask, QueryShape
    <2> QED BY <1>12, <2>1, QuietStep DEF AskStats, LogsInv, LogTypes
  <1>13. ASSUME NEW c \in Counters, Load(c) PROVE LogsInv'
    BY <1>13, LoadStep
  <1> QED
    BY <1>1, <1>2, <1>3, <1>4, <1>5, <1>6, <1>7, <1>8, <1>9, <1>10, <1>11,
       <1>12, <1>13
    DEF Next

LEMMA LogsHold == Spec => []LogsInv
  <1>1. LogsInv /\ [Next]_vars => LogsInv'
    BY LogsStep
  <1> QED BY LogsInit, <1>1, PTL DEF Spec

-----------------------------------------------------------------------------
(* Theorems.                                                               *)

\* Every variable keeps its type and each ring its capacity, however much is
\* written.
THEOREM LogsTyped == Spec => []LogsTypeOK
  <1>1. LogsInv => LogsTypeOK
    <2> SUFFICES ASSUME LogsInv PROVE LogsTypeOK
      OBVIOUS
    <2>1. Cap \in Nat /\ MaxReports \in Nat
      BY Bounds
    <2>2. /\ emuRing \in Seq(Line) /\ Len(emuRing) <= Cap
          /\ bridgeRing \in Seq(Logged) /\ Len(bridgeRing) <= Cap
      <3>1. ASSUME NEW S, NEW s \in Seq(S)
            PROVE  Newest(s, Cap) \in Seq(S) /\ Len(Newest(s, Cap)) <= Cap
        <4>1. /\ Newest(s, Cap) \in Seq(S) /\ Len(s) \in Nat
              /\ Len(Newest(s, Cap)) = IF Len(s) > Cap THEN Cap ELSE Len(s)
          BY <2>1, NewestProperties, LenProperties
        <4> QED BY <2>1, <4>1
      <3> QED BY <3>1 DEF LogsInv, LogTypes, RingsKeepNewest
    <2>3. channel \in Seq(Directions) /\ Len(channel) <= MaxReports
      <3>1. Len(drained) \in Nat /\ Len(channel) \in Nat
        BY LenProperties DEF LogsInv, LogTypes
      <3> QED BY <2>1, <3>1 DEF LogsInv, LogTypes, Reported
    <2>4. /\ emuRing \in BoundedSeq(Line, Cap)
          /\ bridgeRing \in BoundedSeq(Logged, Cap)
          /\ channel \in BoundedSeq(Directions, MaxReports)
      BY <2>1, <2>2, <2>3, InBoundedSeq
    <2> QED BY <2>4, QueryPc DEF LogsInv, LogTypes, Drain, LogsTypeOK
  <1> QED BY <1>1, LogsHold, PTL

\* A ring holds the newest of all that was ever written, in its order, whatever
\* its capacity.
THEOREM RingsNewest == Spec => []RingsKeepNewest
  <1>1. LogsInv => RingsKeepNewest
    BY DEF LogsInv
  <1> QED BY <1>1, LogsHold, PTL

\* An entry is in the log only after both its counters have it, for any order in
\* which they become visible.
THEOREM CountersLeadTheLog == Spec => []CountersLead
  <1>1. LogsInv => CountersLead
    <2> SUFFICES ASSUME LogsInv, NEW d \in Directions,
                        NEW ahead, ahead = IF drain # None /\ drain.dir = d
                                           THEN 1 ELSE 0
                 PROVE  /\ stats[<<d, "reports">>] - OfDirection(drained, d)
                              \in 0..ahead
                        /\ stats[<<d, "bytes">>]
                              - ReportSize * OfDirection(drained, d)
                              \in 0..(ahead * ReportSize)
      BY DEF CountersLead
    <2> DEFINE m == OfDirection(drained, d)
    <2>1. /\ stats[<<d, "reports">>] =
                m + (IF Counted(d, "reports") THEN 1 ELSE 0)
          /\ stats[<<d, "bytes">>] =
                ReportSize * m + (IF Counted(d, "bytes") THEN ReportSize ELSE 0)
      BY DEF LogsInv, Exact
    <2>2. m \in Nat /\ ReportSize \in Nat /\ ReportSize * m \in Nat
      BY OfDirectionNat, Bounds DEF LogsInv, LogTypes
    <2>3. /\ Counted(d, "reports") => ahead = 1
          /\ Counted(d, "bytes") => ahead = 1
          /\ ahead \in {0, 1}
      BY DEF Counted
    <2> HIDE DEF m
    <2>4. ahead * ReportSize = IF ahead = 1 THEN ReportSize ELSE 0
      BY <2>2, <2>3
    <2>5. stats[<<d, "reports">>] - m \in 0..ahead
      BY <2>1, <2>2, <2>3
    <2>6. stats[<<d, "bytes">>] - ReportSize * m \in 0..(ahead * ReportSize)
      <3> DEFINE p == ReportSize * m
      <3>1. p \in Nat
        BY <2>2
      <3> HIDE DEF p
      <3>2. stats[<<d, "bytes">>] =
               p + (IF Counted(d, "bytes") THEN ReportSize ELSE 0)
        BY <2>1 DEF p
      <3>3. stats[<<d, "bytes">>] - p \in 0..(ahead * ReportSize)
        BY <2>2, <2>3, <2>4, <3>1, <3>2
      <3> QED BY <3>3 DEF p
    <2> QED BY <2>5, <2>6 DEF m
  <1> QED BY <1>1, LogsHold, PTL

\* No answer to bridge_stats goes back behind an earlier one.
THEOREM SnapshotsGrow == Spec => SnapshotsMonotone
  <1>1. ASSUME LogsInv, [Next]_vars
        PROVE  [\A c \in Counters : snap'[c] >= snap[c]]_vars
    <2>1. ASSUME NEW c \in Counters
          PROVE  snap[c] \in Nat /\ stats[c] \in Nat /\ snap[c] <= stats[c]
      BY <1>1 DEF LogsInv, LogTypes
    <2>2. CASE UNCHANGED snap
      BY <2>1, <2>2
    <2>3. ASSUME NEW b \in Counters, Load(b) PROVE \A c \in Counters : snap'[c] >= snap[c]
      <3>1. snap' = [snap EXCEPT ![b] = stats[b]]
        BY <2>3 DEF Load
      <3> QED BY <1>1, <2>1, <3>1 DEF LogsInv, LogTypes
    <2>4. UNCHANGED snap \/ \E b \in Counters : Load(b)
      BY <1>1 DEF Next, vars, Tick, PrintLine, Intercept, Receive, Log, Count,
                  StopInstance, AskLogs, ReadEmulator, ReadBridge, AskStats
    <2> QED BY <2>2, <2>3, <2>4
  <1>2. LogsInv /\ [Next]_vars => [\A c \in Counters : snap'[c] >= snap[c]]_vars
    BY <1>1
  <1> QED BY <1>2, LogsHold, PTL DEF Spec, SnapshotsMonotone

-----------------------------------------------------------------------------
(* What an answer to logs shows.                                           *)

\* A history is numbered from 1 and never goes back in time.
Chronicle(s) ==
    \A i \in DOMAIN s :
       /\ s[i].n = i /\ s[i].at <= now
       /\ \A j \in DOMAIN s : i <= j => s[i].at <= s[j].at

\* The entries of one source follow each other without a gap, in the order of
\* their writing, and their stamps do not go back.
OneByOne(es) ==
    \A i, j \in DOMAIN es :
       i < j /\ es[i].source = es[j].source =>
          /\ es[i].ts <= es[j].ts /\ es[i].of.at <= es[j].of.at
          /\ es[j].of.n = es[i].of.n + (j - i)

\* An answer may be read while the simulator prints and the drain task logs
\* (instance.rs:114-156), and out of rings that have overflowed: what it has
\* of one source is still a run without holes.
AnswersWhole == OneByOne(reply.all)

Entries(source, E) == [ts : Nat, source : {source}, of : E]

AnswerInv ==
    /\ Chronicle(lines) /\ Chronicle(drained)
    /\ query.pc = "bridge" =>
          query.out \in Seq(Entries("emulator", Line)) /\ OneByOne(query.out)
    /\ AnswersWhole

LEMMA OneByOneEmpty == OneByOne(<<>>)
  BY DEF OneByOne

\* One entry more keeps a history one, and time passing does.
LEMMA ChronicleGrows ==
    ASSUME NEW S, NEW s \in Seq(S), Chronicle(s), now \in Nat,
           \A x \in S : x.at \in Nat,
           NEW e \in S, e.n = Len(s) + 1, e.at = now
    PROVE  Chronicle(Append(s, e))
  <1> DEFINE l == Len(s)
             a == Append(s, e)
  <1>1. /\ l \in Nat /\ DOMAIN s = 1..l /\ DOMAIN a = 1..l + 1
        /\ \A i \in 1..l : a[i] = s[i] /\ s[i] \in S
        /\ a[l + 1] = e
    <2>1. /\ Append(s, e) \in Seq(S) /\ Len(Append(s, e)) = Len(s) + 1
          /\ \A i \in 1..Len(s) : Append(s, e)[i] = s[i]
          /\ Append(s, e)[Len(s) + 1] = e
      BY AppendProperties
    <2> QED BY <2>1, LenProperties, ElementOfSeq
  <1>2. \A i \in 1..l : s[i].n = i /\ s[i].at <= now /\ s[i].at \in Nat
    BY <1>1 DEF Chronicle
  <1>3. \A i, j \in 1..l : i <= j => s[i].at <= s[j].at
    BY <1>1 DEF Chronicle
  <1> HIDE DEF l, a
  <1>4. e.n = l + 1 /\ e.at = now
    BY DEF l
  <1>5. ASSUME NEW i \in 1..l + 1
        PROVE  /\ a[i].n = i /\ a[i].at <= now
               /\ \A j \in 1..l + 1 : i <= j => a[i].at <= a[j].at
    <2>1. CASE i \in 1..l
      BY <1>1, <1>2, <1>3, <1>4, <2>1
    <2>2. CASE i = l + 1
      <3>1. \A j \in 1..l + 1 : i <= j => j = i
        BY <1>1, <2>2
      <3> QED BY <1>1, <1>4, <2>2, <3>1
    <2> QED BY <1>1, <1>5, <2>1, <2>2
  <1> QED BY <1>1, <1>5 DEF Chronicle, a

\* A ring shows a history from some place on.
LEMMA RingOfHistory ==
    ASSUME NEW S, NEW s \in Seq(S), Chronicle(s)
    PROVE  LET r == Newest(s, Cap)
           IN /\ r \in Seq(S) /\ DOMAIN r = 1..Len(r) /\ Len(r) \in Nat
              /\ \A i, j \in DOMAIN r :
                    i < j => r[i].at <= r[j].at /\ r[j].n = r[i].n + (j - i)
  <1> DEFINE r == Newest(s, Cap)
             l == Len(s)
             k == IF l > Cap THEN Cap ELSE l
  <1>1. /\ Cap \in Nat /\ l \in Nat /\ DOMAIN s = 1..l
        /\ r \in Seq(S) /\ Len(r) = k /\ DOMAIN r = 1..Len(r)
        /\ \A i \in 1..k : r[i] = s[l - k + i]
    BY Bounds, NewestProperties, LenProperties
  <1>2. /\ \A i \in 1..l : s[i].n = i
        /\ \A i, j \in 1..l : i <= j => s[i].at <= s[j].at
    BY <1>1 DEF Chronicle
  <1> HIDE DEF r, l
  <1>3. ASSUME NEW i \in 1..k, NEW j \in 1..k, i < j
        PROVE  r[i].at <= r[j].at /\ r[j].n = r[i].n + (j - i)
    <2>1. /\ l - k + i \in 1..l /\ l - k + j \in 1..l
          /\ l - k + i <= l - k + j
          /\ l - k + j = (l - k + i) + (j - i)
      BY <1>1, <1>3
    <2> QED BY <1>1, <1>2, <2>1
  <1> HIDE DEF k
  <1> QED BY <1>1, <1>3 DEF r, l, k

\* The entries made of one ring.
LEMMA EntriesOfRing ==
    ASSUME NEW S, NEW r \in Seq(S), NEW src, NEW stamp,
           \A i \in 1..Len(r) : stamp[i] \in Nat,
           \A i, j \in 1..Len(r) : i < j => stamp[i] <= stamp[j],
           \A i, j \in 1..Len(r) :
              i < j => r[i].at <= r[j].at /\ r[j].n = r[i].n + (j - i)
    PROVE  LET es == [i \in 1..Len(r) |-> Entry(stamp[i], src, r[i])]
           IN es \in Seq(Entries(src, S)) /\ OneByOne(es)
  <1> DEFINE es == [i \in 1..Len(r) |-> Entry(stamp[i], src, r[i])]
  <1>1. Len(r) \in Nat /\ \A i \in 1..Len(r) : r[i] \in S
    BY LenProperties, ElementOfSeq
  <1>2. \A i \in 1..Len(r) : es[i] \in Entries(src, S)
    BY <1>1 DEF Entry, Entries
  <1>3. es \in Seq(Entries(src, S))
    <2>1. es \in [1..Len(r) -> Entries(src, S)]
      BY <1>2
    <2> QED BY <1>1, <2>1, SeqDef
  <1>4. OneByOne(es)
    BY <1>1 DEF OneByOne, Entry
  <1> QED BY <1>3, <1>4

\* Two runs of different sources, one behind the other.
LEMMA OneBehindOther ==
    ASSUME NEW S, NEW T,
           NEW a \in Seq(Entries("emulator", S)), OneByOne(a),
           NEW b \in Seq(Entries("bridge", T)), OneByOne(b)
    PROVE  OneByOne(a \o b)
  <1> DEFINE c == a \o b
             l == Len(a)
             m == Len(b)
             U == Entries("emulator", S) \cup Entries("bridge", T)
  <1>1. a \in Seq(U) /\ b \in Seq(U)
    BY SeqMonotonic
  <1>2. /\ c \in Seq(U) /\ Len(c) = l + m
        /\ \A i \in 1..l + m : c[i] = IF i <= l THEN a[i] ELSE b[i - l]
    BY <1>1, ConcatProperties
  <1>3. /\ l \in Nat /\ m \in Nat /\ DOMAIN a = 1..l /\ DOMAIN b = 1..m
        /\ DOMAIN c = 1..l + m
    BY <1>2, LenProperties
  <1>4. /\ \A i \in 1..l : a[i].source = "emulator"
        /\ \A i \in 1..m : b[i].source = "bridge"
    <2>1. a \in [1..l -> Entries("emulator", S)]
      BY LenProperties
    <2>2. b \in [1..m -> Entries("bridge", T)]
      BY LenProperties
    <2> HIDE DEF l, m
    <2> QED BY <2>1, <2>2 DEF Entries
  <1> HIDE DEF c, l, m
  <1>5. ASSUME NEW i \in 1..l + m, NEW j \in 1..l + m, i < j,
               c[i].source = c[j].source
        PROVE  /\ c[i].ts <= c[j].ts /\ c[i].of.at <= c[j].of.at
               /\ c[j].of.n = c[i].of.n + (j - i)
    <2>1. CASE j <= l
      <3>1. i \in 1..l /\ j \in 1..l /\ c[i] = a[i] /\ c[j] = a[j]
        BY <1>2, <1>3, <1>5, <2>1
      <3> QED BY <1>3, <1>5, <3>1 DEF OneByOne
    <2>2. CASE i <= l /\ l < j
      <3>1. i \in 1..l /\ j - l \in 1..m /\ c[i] = a[i] /\ c[j] = b[j - l]
        BY <1>2, <1>3, <1>5, <2>2
      <3> QED BY <1>4, <1>5, <3>1
    <2>3. CASE l < i
      <3>0. i \in Nat /\ j \in Nat /\ l < j /\ i <= l + m /\ j <= l + m
        BY <1>3, <1>5, <2>3
      <3>1. /\ i - l \in 1..m /\ j - l \in 1..m /\ i - l < j - l
            /\ (j - l) - (i - l) = j - i
            /\ c[i] = b[i - l] /\ c[j] = b[j - l]
        <4>1. /\ i - l \in 1..m /\ j - l \in 1..m /\ i - l < j - l
              /\ (j - l) - (i - l) = j - i
          BY <1>3, <1>5, <2>3, <3>0
        <4>2. c[i] = b[i - l] /\ c[j] = b[j - l]
          BY <1>2, <1>3, <2>3, <3>0
        <4> QED BY <4>1, <4>2
      <3>2. /\ b[i - l].ts <= b[j - l].ts /\ b[i - l].of.at <= b[j - l].of.at
            /\ b[j - l].of.n = b[i - l].of.n + ((j - l) - (i - l))
        BY <1>3, <1>5, <3>1 DEF OneByOne
      <3> QED BY <3>1, <3>2
    <2> QED BY <1>3, <1>5, <2>1, <2>2, <2>3
  <1> QED BY <1>3, <1>5 DEF OneByOne, c

\* A step that writes no entry and answers no question about the logs.
LEMMA UnansweredStep ==
    ASSUME LogsInv, AnswerInv, UNCHANGED <<lines, drained>>,
           now' \in Nat, now <= now',
           UNCHANGED query \/ query'.pc # "bridge",
           UNCHANGED reply \/ reply' = NoReply
    PROVE  AnswerInv'
  <1>1. /\ now \in Nat
        /\ lines \in Seq(Line) /\ drained \in Seq(Logged)
    BY Bounds DEF LogsInv, LogTypes
  <1>2. \A s : Chronicle(s) /\ (\A i \in DOMAIN s : s[i].at \in Nat)
               => \A i \in DOMAIN s : s[i].at <= now'
    BY <1>1 DEF Chronicle
  <1>3. /\ \A i \in DOMAIN lines : lines[i].at \in Nat
        /\ \A i \in DOMAIN drained : drained[i].at \in Nat
    <2>1. /\ \A i \in DOMAIN lines : lines[i] \in Line
          /\ \A i \in DOMAIN drained : drained[i] \in Logged
      BY <1>1, LenProperties, ElementOfSeq
    <2> QED BY <2>1, Bounds DEF Line, Logged
  <1>4. Chronicle(lines)' /\ Chronicle(drained)'
    BY <1>2, <1>3 DEF AnswerInv, Chronicle
  <1>5. AnswersWhole'
    BY OneByOneEmpty DEF AnswerInv, AnswersWhole, OneByOne, NoReply
  <1>6. (query.pc = "bridge" =>
            query.out \in Seq(Entries("emulator", Line)) /\ OneByOne(query.out))'
    BY DEF AnswerInv, OneByOne
  <1> QED BY <1>4, <1>5, <1>6 DEF AnswerInv

\* The whole of a ring, stamped.
LEMMA StampedRing ==
    ASSUME NEW S, NEW s \in Seq(S), Chronicle(s), NEW src, NEW stamp,
           \A i \in DOMAIN Newest(s, Cap) : stamp[i] \in Nat,
           \A i, j \in DOMAIN Newest(s, Cap) : i < j => stamp[i] <= stamp[j]
    PROVE  LET r == Newest(s, Cap)
               es == [i \in DOMAIN r |-> Entry(stamp[i], src, r[i])]
           IN es \in Seq(Entries(src, S)) /\ OneByOne(es)
  <1> DEFINE r == Newest(s, Cap)
  <1>1. /\ r \in Seq(S) /\ DOMAIN r = 1..Len(r)
        /\ \A i, j \in DOMAIN r :
              i < j => r[i].at <= r[j].at /\ r[j].n = r[i].n + (j - i)
    BY RingOfHistory
  <1> HIDE DEF r
  <1>2. /\ \A i \in 1..Len(r) : stamp[i] \in Nat
        /\ \A i, j \in 1..Len(r) : i < j => stamp[i] <= stamp[j]
    BY <1>1 DEF r
  <1> QED BY <1>1, <1>2, EntriesOfRing DEF r

LEMMA ReadEmulatorAnswer ==
    ASSUME LogsInv, AnswerInv, ReadEmulator
    PROVE  AnswerInv'
  <1> DEFINE es == [i \in DOMAIN emuRing |->
                       Entry(now, "emulator", emuRing[i])]
  <1>1. /\ query.pc = "emulator"
        /\ query' = [query EXCEPT !.pc = "bridge",
                        !.out = IF query.source = "bridge" THEN <<>> ELSE es]
        /\ UNCHANGED <<now, lines, drained, reply>>
    BY DEF ReadEmulator
  <1>2. es \in Seq(Entries("emulator", Line)) /\ OneByOne(es)
    <2> DEFINE stamp == [i \in DOMAIN emuRing |-> now]
    <2>1. /\ lines \in Seq(Line) /\ Chronicle(lines)
          /\ emuRing = Newest(lines, Cap) /\ now \in Nat
      BY Bounds DEF LogsInv, LogTypes, RingsKeepNewest, AnswerInv
    <2>2. /\ \A i \in DOMAIN emuRing : stamp[i] \in Nat
          /\ \A i, j \in DOMAIN emuRing : i < j => stamp[i] <= stamp[j]
      BY <2>1
    <2>3. es = [i \in DOMAIN emuRing |->
                   Entry(stamp[i], "emulator", emuRing[i])]
      OBVIOUS
    <2> HIDE DEF stamp, es
    <2> QED BY <2>1, <2>2, <2>3, StampedRing
  <1> HIDE DEF es
  <1>3. <<>> \in Seq(Entries("emulator", Line)) /\ OneByOne(<<>>)
    BY EmptySeq, OneByOneEmpty
  <1>4. query'.out = <<>> \/ query'.out = es
    <2>1. PICK p, s, t, q :
              query = [pc |-> p, source |-> s, tail |-> t, out |-> q]
      BY <1>1 DEF LogsInv, LogTypes, QueryShape, Idle
    <2> QED BY <1>1, <2>1
  <1>5. (query.pc = "bridge" =>
            query.out \in Seq(Entries("emulator", Line)) /\ OneByOne(query.out))'
    BY <1>2, <1>3, <1>4 DEF OneByOne
  <1>6. AnswersWhole' /\ Chronicle(lines)' /\ Chronicle(drained)'
    BY <1>1 DEF AnswerInv, AnswersWhole, OneByOne, Chronicle
  <1> QED BY <1>5, <1>6 DEF AnswerInv

LEMMA ReadBridgeAnswer ==
    ASSUME LogsInv, AnswerInv, ReadBridge
    PROVE  AnswerInv'
  <1> DEFINE es == [i \in DOMAIN bridgeRing |->
                       Entry(bridgeRing[i].at, "bridge", bridgeRing[i])]
             of == IF query.source = "emulator" THEN <<>> ELSE es
  <1>1. /\ query.pc = "bridge" /\ query' = Idle
        /\ reply'.all = query.out \o of
        /\ UNCHANGED <<now, lines, drained>>
    BY DEF ReadBridge
  <1>2. es \in Seq(Entries("bridge", Logged)) /\ OneByOne(es)
    <2> DEFINE stamp == [i \in DOMAIN bridgeRing |-> bridgeRing[i].at]
    <2>1. /\ drained \in Seq(Logged) /\ Chronicle(drained)
          /\ bridgeRing = Newest(drained, Cap)
      BY DEF LogsInv, LogTypes, RingsKeepNewest, AnswerInv
    <2>2. /\ bridgeRing \in Seq(Logged) /\ DOMAIN bridgeRing = 1..Len(bridgeRing)
          /\ \A i, j \in DOMAIN bridgeRing :
                i < j => bridgeRing[i].at <= bridgeRing[j].at
      BY <2>1, RingOfHistory
    <2>3. \A i \in DOMAIN bridgeRing : bridgeRing[i].at \in Nat
      <3>1. \A i \in DOMAIN bridgeRing : bridgeRing[i] \in Logged
        BY <2>2, ElementOfSeq
      <3> QED BY <3>1, Bounds DEF Logged
    <2>4. /\ \A i \in DOMAIN bridgeRing : stamp[i] \in Nat
          /\ \A i, j \in DOMAIN bridgeRing : i < j => stamp[i] <= stamp[j]
      BY <2>2, <2>3
    <2>5. es = [i \in DOMAIN bridgeRing |->
                   Entry(stamp[i], "bridge", bridgeRing[i])]
      OBVIOUS
    <2> HIDE DEF stamp, es
    <2> QED BY <2>1, <2>4, <2>5, StampedRing
  <1> HIDE DEF es
  <1>3. of \in Seq(Entries("bridge", Logged)) /\ OneByOne(of)
    BY <1>2, EmptySeq, OneByOneEmpty
  <1>4. query.out \in Seq(Entries("emulator", Line)) /\ OneByOne(query.out)
    BY <1>1 DEF AnswerInv
  <1> HIDE DEF of
  <1>5. OneByOne(query.out \o of)
    BY <1>3, <1>4, OneBehindOther
  <1>6. AnswersWhole'
    BY <1>1, <1>5 DEF AnswersWhole, OneByOne
  <1>7. Chronicle(lines)' /\ Chronicle(drained)'
    BY <1>1 DEF AnswerInv, Chronicle
  <1> QED BY <1>1, <1>6, <1>7 DEF AnswerInv, Idle

LEMMA PrintAnswer ==
    ASSUME LogsInv, AnswerInv, PrintLine PROVE AnswerInv'
  <1> DEFINE l == [n |-> Len(lines) + 1, at |-> now]
  <1>1. /\ lines' = Append(lines, l) /\ UNCHANGED <<now, drained, query, reply>>
        /\ lines \in Seq(Line) /\ Len(lines) < MaxLines /\ Len(lines) \in Nat
        /\ now \in 0..MaxTime /\ now \in Nat /\ Chronicle(lines)
    BY LenProperties, Bounds DEF PrintLine, LogsInv, LogTypes, AnswerInv
  <1>2. l \in Line /\ l.n = Len(lines) + 1 /\ l.at = now
    BY <1>1, Bounds DEF Line
  <1>3. \A x \in Line : x.at \in Nat
    BY Bounds DEF Line
  <1> HIDE DEF l
  <1>4. Chronicle(Append(lines, l))
    BY <1>1, <1>2, <1>3, ChronicleGrows
  <1>5. Chronicle(lines)' /\ Chronicle(drained)'
    BY <1>1, <1>4 DEF AnswerInv, Chronicle
  <1> QED BY <1>1, <1>5 DEF AnswerInv, AnswersWhole, OneByOne

LEMMA LogAnswer ==
    ASSUME LogsInv, AnswerInv, Log PROVE AnswerInv'
  <1> DEFINE e == [n |-> Len(drained) + 1, at |-> now, dir |-> drain.dir]
  <1>1. /\ drain # None /\ drained' = Append(drained, e)
        /\ UNCHANGED <<now, lines, query, reply>>
        /\ drained \in Seq(Logged) /\ Len(drained) \in Nat
        /\ now \in 0..MaxTime /\ now \in Nat /\ Chronicle(drained)
    BY LenProperties, Bounds DEF Log, LogsInv, LogTypes, AnswerInv
  <1>2. e \in Logged /\ e.n = Len(drained) + 1 /\ e.at = now
    <2>1. /\ drain \in Drain /\ Len(channel) \in Nat
          /\ Len(drained) + Len(channel) + 1 <= MaxReports
      BY <1>1, LenProperties DEF LogsInv, LogTypes, Reported
    <2>2. Len(drained) + 1 \in 1..MaxReports
      BY <1>1, <2>1, Bounds
    <2> QED BY <1>1, <2>1, <2>2 DEF Logged, Drain
  <1>3. \A x \in Logged : x.at \in Nat
    BY Bounds DEF Logged
  <1> HIDE DEF e
  <1>4. Chronicle(Append(drained, e))
    BY <1>1, <1>2, <1>3, ChronicleGrows
  <1>5. Chronicle(lines)' /\ Chronicle(drained)'
    BY <1>1, <1>4 DEF AnswerInv, Chronicle
  <1> QED BY <1>1, <1>5 DEF AnswerInv, AnswersWhole, OneByOne

LEMMA AnswerStep ==
    ASSUME LogsInv, AnswerInv, [Next]_vars PROVE AnswerInv'
  <1>0. now \in Nat
    BY Bounds DEF LogsInv, LogTypes
  <1>1. CASE UNCHANGED vars
    BY <1>0, <1>1, UnansweredStep DEF vars
  <1>2. CASE Tick
    BY <1>0, <1>2, UnansweredStep DEF Tick
  <1>3. CASE \/ Receive \/ StopInstance \/ AskStats
             \/ \E d \in Directions : Intercept(d)
             \/ \E k \in {"reports", "bytes"} : Count(k)
    BY <1>0, <1>3, UnansweredStep
    DEF Receive, StopInstance, AskStats, Ask, Intercept, Count
  <1>4. ASSUME NEW s \in Sources, NEW t \in Tails \cup {None}, AskLogs(s, t)
        PROVE  AnswerInv'
    BY <1>0, <1>4, UnansweredStep DEF AskLogs, Ask
  <1>5. ASSUME NEW c \in Counters, Load(c) PROVE AnswerInv'
    <2>1. query'.pc # "bridge"
      <3>1. PICK l : query = [pc |-> "stats", left |-> l]
        BY <1>5 DEF Load, LogsInv, LogTypes, QueryShape, Idle
      <3> QED BY <1>5, <3>1 DEF Load, Idle
    <2> QED BY <1>0, <1>5, <2>1, UnansweredStep DEF Load
  <1> QED
    BY <1>1, <1>2, <1>3, <1>4, <1>5, PrintAnswer, LogAnswer, ReadEmulatorAnswer,
       ReadBridgeAnswer DEF Next

\* An answer has no hole and nothing out of turn among the entries of one
\* source, whatever is printed and logged while it is collected and however
\* often the rings have overflowed.  What an answer about one source alone
\* keeps under a tail is therefore what that source wrote last; the older
\* entry in place of a newer one that the run on tail shows takes two sources,
\* of which one is stamped when it is read.
THEOREM AnswersAreWhole == Spec => []AnswersWhole
  <1>1. Init => AnswerInv
    <2> SUFFICES ASSUME Init PROVE AnswerInv
      OBVIOUS
    <2>1. lines = <<>> /\ drained = <<>> /\ query.pc = "idle" /\ reply.all = <<>>
      BY DEF Init, Idle, NoReply
    <2>2. Chronicle(<<>>)
      BY DEF Chronicle
    <2> QED
      BY <2>1, <2>2, OneByOneEmpty
      DEF AnswerInv, AnswersWhole, Chronicle, OneByOne
  <1>2. LogsInv /\ AnswerInv /\ [Next]_vars => AnswerInv'
    BY AnswerStep
  <1>3. AnswerInv => AnswersWhole
    BY DEF AnswerInv
  <1> QED BY <1>1, <1>2, <1>3, LogsHold, PTL DEF Spec
=============================================================================

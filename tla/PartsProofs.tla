---------------------------- MODULE PartsProofs ----------------------------
(***************************************************************************)
(* Proofs about the parts that share no state while they work: the network *)
(* history, the containers' histories, the objects the Apple backend owns, *)
(* what the client and the server decide before they run, and the message  *)
(* log.  A section per part: its inductive invariant, one lemma per kind   *)
(* of step, the theorem.                                                   *)
(***************************************************************************)
EXTENDS NetworkHistory, AppleRegistry, ContainerEngine, ServerStartup, Notifier, ProcessActions,
        WellFoundedInduction, TLAPS

-----------------------------------------------------------------------------
(* Sequences of whatever their elements are.                               *)

\* A sequence, of whatever.
IsSeq(s) == s \in Seq({s[i] : i \in DOMAIN s})

\* A sequence over any set is a sequence of its own elements.
LEMMA SeqIsSeq ==
  ASSUME NEW S, NEW s \in Seq(S)
  PROVE  IsSeq(s)
<1> DEFINE T == {s[i] : i \in DOMAIN s}
<1>1. s \in [1..Len(s) -> T] /\ Len(s) \in Nat
  OBVIOUS
<1> HIDE DEF T
<1>2. \A n \in Nat : \A f \in [1..n -> T] : f \in Seq(T)
  OBVIOUS
<1> QED
  BY <1>1, <1>2 DEF T, IsSeq

\* The empty sequence is one.
LEMMA EmptyIsSeq == ASSUME NEW e, e = <<>> PROVE IsSeq(e) /\ Len(e) = 0
<1>1. e \in Seq({}) /\ Len(e) = 0
  OBVIOUS
<1> QED
  BY <1>1, SeqIsSeq

\* Append: one longer, with the new element last.
LEMMA AppendIsSeq ==
  ASSUME NEW s, IsSeq(s), NEW x
  PROVE  /\ IsSeq(Append(s, x))
         /\ Len(s) \in Nat /\ DOMAIN s = 1..Len(s)
         /\ Len(Append(s, x)) = Len(s) + 1
         /\ \A i \in 1..Len(s) : Append(s, x)[i] = s[i]
         /\ Append(s, x)[Len(s) + 1] = x
<1> DEFINE T == {s[i] : i \in DOMAIN s}
           TX == T \cup {x}
<1>1. s \in Seq(T)
  BY DEF IsSeq
<1> HIDE DEF T
<1>2. s \in Seq(TX) /\ x \in TX
  BY <1>1
<1> HIDE DEF TX
<1>3. Append(s, x) \in Seq(TX)
  BY <1>2
<1>4. IsSeq(Append(s, x))
  BY <1>3, SeqIsSeq
<1>5. /\ Len(s) \in Nat /\ DOMAIN s = 1..Len(s)
      /\ Len(Append(s, x)) = Len(s) + 1
      /\ \A i \in 1..Len(s) : Append(s, x)[i] = s[i]
      /\ Append(s, x)[Len(s) + 1] = x
  BY <1>2
<1> QED
  BY <1>4, <1>5

\* Tail: one shorter, without the first element.
LEMMA TailIsSeq ==
  ASSUME NEW s, IsSeq(s), s # <<>>
  PROVE  /\ IsSeq(Tail(s))
         /\ Len(s) \in Nat \ {0}
         /\ Len(Tail(s)) = Len(s) - 1
         /\ \A i \in 1..(Len(s) - 1) : Tail(s)[i] = s[i + 1]
<1> DEFINE T == {s[i] : i \in DOMAIN s}
<1>1. s \in Seq(T)
  BY DEF IsSeq
<1> HIDE DEF T
<1>2. Tail(s) \in Seq(T)
  BY <1>1
<1>3. IsSeq(Tail(s))
  BY <1>2, SeqIsSeq
<1>4. /\ Len(s) \in Nat \ {0}
      /\ Len(Tail(s)) = Len(s) - 1
      /\ \A i \in 1..(Len(s) - 1) : Tail(s)[i] = s[i + 1]
  BY <1>1
<1> QED
  BY <1>3, <1>4

-----------------------------------------------------------------------------
(* Induction.                                                              *)

\* A set that holds 0 and with every number the next holds all of them.
LEMMA SetInduction ==
  ASSUME NEW S, 0 \in S, \A n \in Nat : n \in S => n + 1 \in S
  PROVE  \A n \in Nat : n \in S
<1> DEFINE R == {ss \in Nat \X Nat : ss[1] < ss[2]}
           T == Nat \ S
<1>1. IsWellFoundedOn(R, Nat)
  BY NatLessThanWellFounded DEF OpToRel
<1> SUFFICES ASSUME T # {} PROVE FALSE
  OBVIOUS
<1>2. PICK x \in T : \A y \in T : ~(<<y, x>> \in R)
  <2> HIDE DEF R
  <2>1. T \subseteq Nat
    OBVIOUS
  <2> HIDE DEF T
  <2> QED
    BY <1>1, <2>1, WFMin
<1>3. x # 0 /\ x \in Nat /\ x - 1 \in Nat
  OBVIOUS
<1>4. <<x - 1, x>> \in R
  BY <1>3
<1>5. x - 1 \in S
  BY <1>2, <1>3, <1>4
<1> QED
  BY <1>3, <1>5

\* A set of numbers has a smallest.
LEMMA Smallest ==
  ASSUME NEW T, T \subseteq Nat, T # {}
  PROVE  \E x \in T : \A y \in T : x <= y
<1> DEFINE R == {ss \in Nat \X Nat : ss[1] < ss[2]}
<1>1. IsWellFoundedOn(R, Nat)
  BY NatLessThanWellFounded DEF OpToRel
<1>2. PICK x \in T : \A y \in T : ~(<<y, x>> \in R)
  <2> HIDE DEF R
  <2> QED
    BY <1>1, WFMin
<1>3. ASSUME NEW y \in T PROVE x <= y
  <2>1. x \in Nat /\ y \in Nat /\ ~(<<y, x>> \in R)
    BY <1>2
  <2> QED
    BY <2>1
<1> QED
  BY <1>3

-----------------------------------------------------------------------------
(* NetworkHistory.                                                         *)

BytesOf(s, i) == s.interfaces[i].bytes

Has(s, i) == i \in DOMAIN s.interfaces

\* Two samples in a row, and what moved in between.
Consistent(older, newer, between) ==
  \A i \in Iface :
    Has(older, i) /\ Has(newer, i) => BytesOf(newer, i) - BytesOf(older, i) <= between[i]

WellFormed(s) == \A i \in Iface : Has(s, i) => BytesOf(s, i) \in Nat

\* The ring: as long as the history of what moved, and consistent with it.
RingInv(ring, between) ==
  /\ IsSeq(ring) /\ IsSeq(between)
  /\ Len(ring) = Len(between) /\ Len(ring) <= Capacity
  /\ \A k \in 1..Len(ring) : WellFormed(ring[k]) /\ between[k] \in [Iface -> Nat]
  /\ \A k \in 2..Len(ring) : Consistent(ring[k - 1], ring[k], between[k])

\* What the counters say now follows from the newest sample and what moved since.
CounterInv ==
  /\ Plugged \subseteq Iface
  /\ \A i \in Plugged : counter[i] \in Nat
  /\ moved \in [Iface -> Nat]
  /\ Len(samples) > 0 =>
       \A i \in Plugged :
         Has(samples[Len(samples)], i) => counter[i] - BytesOf(samples[Len(samples)], i) <= moved[i]

NetworkInv == RingInv(samples, truth) /\ CounterInv

LEMMA CapacityFacts == Capacity \in Nat /\ Capacity >= 2
  BY NetworkAssumption DEF Capacity

\* Evicting keeps a suffix of the ring, and the newest sample when there is one.
LEMMA EvictKeepsRing ==
  ASSUME NEW ring, NEW between, RingInv(ring, between)
  PROVE  /\ RingInv(Evict(ring), Evict(between))
         /\ Len(Evict(ring)) < Capacity
         /\ (Len(Evict(ring)) > 0) <=> (Len(ring) > 0)
         /\ Len(ring) > 0 => Evict(ring)[Len(Evict(ring))] = ring[Len(ring)]
<1>1. Len(ring) \in Nat /\ Len(between) = Len(ring)
  BY AppendIsSeq DEF RingInv
<1>2. CASE Len(ring) < Capacity
  <2>1. Evict(ring) = ring /\ Evict(between) = between
    BY <1>1, <1>2, CapacityFacts DEF Evict
  <2> QED
    BY <1>2, <2>1
<1>3. CASE ~(Len(ring) < Capacity)
  <2>1. Evict(ring) = Tail(ring) /\ Evict(between) = Tail(between) /\ Len(ring) = Capacity
    BY <1>1, <1>3, CapacityFacts DEF Evict, RingInv
  <2>2. ring # <<>> /\ between # <<>>
    BY <1>1, <2>1, CapacityFacts
  <2>3. /\ IsSeq(Tail(ring)) /\ IsSeq(Tail(between))
        /\ Len(Tail(ring)) = Capacity - 1 /\ Len(Tail(between)) = Capacity - 1
        /\ \A k \in 1..(Capacity - 1) : Tail(ring)[k] = ring[k + 1] /\ Tail(between)[k] = between[k + 1]
    BY <1>1, <2>1, <2>2, TailIsSeq DEF RingInv
  <2>4. \A k \in 1..(Capacity - 1) : k + 1 \in 1..Len(ring)
    BY <2>1, CapacityFacts
  <2>5. \A k \in 2..(Capacity - 1) : /\ k - 1 \in 1..(Capacity - 1) /\ k \in 1..(Capacity - 1)
                                     /\ k + 1 \in 2..Len(ring) /\ (k + 1) - 1 = k /\ (k - 1) + 1 = k
    BY <2>1, CapacityFacts
  <2>6. \A k \in 2..(Capacity - 1) : Consistent(Tail(ring)[k - 1], Tail(ring)[k], Tail(between)[k])
    <3> TAKE k \in 2..(Capacity - 1)
    <3>1. Consistent(ring[(k + 1) - 1], ring[k + 1], between[k + 1])
      BY <2>5 DEF RingInv
    <3>2. Tail(ring)[k - 1] = ring[k] /\ Tail(ring)[k] = ring[k + 1] /\ Tail(between)[k] = between[k + 1]
      BY <2>3, <2>5
    <3> QED
      BY <2>5, <3>1, <3>2
  <2>7. \A k \in 1..(Capacity - 1) : WellFormed(Tail(ring)[k]) /\ Tail(between)[k] \in [Iface -> Nat]
    BY <2>3, <2>4 DEF RingInv
  <2>8. RingInv(Tail(ring), Tail(between))
    BY <2>3, <2>6, <2>7, CapacityFacts DEF RingInv
  <2>9. Tail(ring)[Capacity - 1] = ring[Capacity]
    BY <2>3, CapacityFacts
  <2> QED
    BY <2>1, <2>3, <2>8, <2>9, CapacityFacts
<1> QED
  BY <1>2, <1>3

LEMMA PushKeepsInv ==
  ASSUME NetworkInv, Push
  PROVE  NetworkInv'
<1> DEFINE ring == Evict(samples)
           between == Evict(truth)
           n == Len(ring)
<1>1. /\ RingInv(ring, between) /\ n < Capacity
      /\ n > 0 <=> Len(samples) > 0
      /\ Len(samples) > 0 => ring[n] = samples[Len(samples)]
  BY EvictKeepsRing DEF NetworkInv
<1>2. /\ samples' = Append(ring, Collect) /\ truth' = Append(between, moved)
      /\ moved' = Nothing /\ counter' = counter
  BY DEF Push
<1> HIDE DEF ring, between
<1>3. /\ DOMAIN Collect.interfaces = Plugged
      /\ \A i \in Plugged : BytesOf(Collect, i) = counter[i]
  BY DEF Collect, BytesOf
<1>4. WellFormed(Collect)
  BY <1>3 DEF WellFormed, Has, NetworkInv, CounterInv
<1>5. /\ n \in Nat /\ Len(between) = n /\ IsSeq(samples') /\ IsSeq(truth')
      /\ Len(samples') = n + 1 /\ Len(truth') = n + 1
      /\ \A k \in 1..n : samples'[k] = ring[k] /\ truth'[k] = between[k]
      /\ samples'[n + 1] = Collect /\ truth'[n + 1] = moved
  BY <1>1, <1>2, AppendIsSeq DEF RingInv
<1>6. n > 0 => Consistent(ring[n], Collect, moved)
  BY <1>1, <1>3 DEF NetworkInv, CounterInv, Consistent, Has
<1>7. RingInv(samples', truth')
  <2>1. \A k \in 1..(n + 1) : k \in 1..n \/ k = n + 1
    BY <1>5
  <2>2. \A k \in 1..(n + 1) : WellFormed(samples'[k]) /\ truth'[k] \in [Iface -> Nat]
    BY <1>1, <1>4, <1>5, <2>1 DEF RingInv, NetworkInv, CounterInv
  <2>3. \A k \in 2..(n + 1) : Consistent(samples'[k - 1], samples'[k], truth'[k])
    <3> TAKE k \in 2..(n + 1)
    <3>1. CASE k = n + 1
      <4>1. n > 0 /\ k - 1 = n /\ n \in 1..n
        BY <1>5, <3>1
      <4> QED
        BY <1>5, <1>6, <3>1, <4>1
    <3>2. CASE k # n + 1
      <4>1. k \in 2..n /\ k \in 1..n /\ k - 1 \in 1..n
        BY <1>5, <3>2
      <4> QED
        BY <1>1, <1>5, <4>1 DEF RingInv
    <3> QED
      BY <3>1, <3>2
  <2> QED
    BY <1>1, <1>5, <2>2, <2>3, CapacityFacts DEF RingInv
<1>8. CounterInv'
  <2>1. moved' \in [Iface -> Nat] /\ \A i \in Iface : moved'[i] = 0
    BY <1>2 DEF Nothing
  <2>2. samples'[Len(samples')] = Collect
    BY <1>5
  <2> QED
    BY <1>2, <1>3, <2>1, <2>2 DEF NetworkInv, CounterInv, Plugged
<1> QED
  BY <1>7, <1>8 DEF NetworkInv

LEMMA NetworkStep == NetworkInv /\ [NetworkNext]_networkVars => NetworkInv'
<1> SUFFICES ASSUME NetworkInv, [NetworkNext]_networkVars PROVE NetworkInv'
  OBVIOUS
<1>1. CASE Push
  BY <1>1, PushKeepsInv
<1>2. CASE UNCHANGED networkVars
  BY <1>2 DEF networkVars, NetworkInv, CounterInv, Plugged
<1>3. ASSUME NEW i \in Iface, Move(i) \/ Bounce(i) \/ Unplug(i) \/ PlugIn(i) PROVE NetworkInv'
  <2>1. samples' = samples /\ truth' = truth
    BY <1>3 DEF Move, Bounce, Unplug, PlugIn
  <2>2. CASE Move(i)
    <3> DEFINE newest == samples[Len(samples)]
    <3>1. /\ Plugged' = Plugged /\ i \in Plugged /\ moved' \in [Iface -> Nat]
          /\ \A j \in Plugged : counter'[j] = IF j = i THEN counter[i] + 1 ELSE counter[j]
          /\ \A j \in Iface : moved'[j] = IF j = i THEN moved[i] + 1 ELSE moved[j]
      BY <2>2 DEF Move, NetworkInv, CounterInv, Plugged
    <3>2. Len(samples) > 0 => \A j \in Plugged : Has(newest, j) => BytesOf(newest, j) \in Nat
      <4>1. Len(samples) \in Nat
        BY AppendIsSeq DEF NetworkInv, RingInv
      <4> QED
        BY <4>1 DEF NetworkInv, RingInv, WellFormed, CounterInv
    <3> HIDE DEF newest
    <3>3. Len(samples) > 0 =>
            \A j \in Plugged : Has(newest, j) => counter'[j] - BytesOf(newest, j) <= moved'[j]
      BY <3>1, <3>2, SMTT(40) DEF NetworkInv, CounterInv, newest
    <3>4. CounterInv'
      BY <2>1, <3>1, <3>3 DEF NetworkInv, CounterInv, newest
    <3> QED
      BY <2>1, <3>4 DEF NetworkInv
  <2>3. CASE Bounce(i)
    BY <2>1, <2>3, SMTT(40) DEF Bounce, NetworkInv, CounterInv, Plugged, WellFormed, RingInv
  <2>4. CASE Unplug(i)
    BY <2>1, <2>4 DEF Unplug, NetworkInv, CounterInv, Plugged, WellFormed, RingInv
  <2>5. CASE PlugIn(i)
    BY <2>1, <2>5 DEF PlugIn, NetworkInv, CounterInv, Plugged, WellFormed, RingInv
  <2> QED
    BY <1>3, <2>2, <2>3, <2>4, <2>5
<1> QED
  BY <1>1, <1>2, <1>3 DEF NetworkNext

LEMMA NetworkInvHonest == NetworkInv => SparklineHonest
<1> SUFFICES ASSUME NetworkInv PROVE SparklineHonest
  OBVIOUS
<1> DEFINE n == Len(samples)
<1>1. /\ n \in Nat /\ n <= Capacity /\ Capacity \in Nat
      /\ \A k \in 1..n : WellFormed(samples[k]) /\ truth[k] \in [Iface -> Nat]
      /\ \A k \in 2..n : Consistent(samples[k - 1], samples[k], truth[k])
  BY AppendIsSeq, CapacityFacts DEF NetworkInv, RingInv
<1>2. ASSUME NEW i \in Iface, NEW k \in 1..n PROVE ValueAt(k, i) \in Nat
  BY <1>1 DEF ValueAt, WellFormed, Has, BytesOf
<1>3. ASSUME NEW i \in Iface, NEW k \in 2..n
      PROVE  /\ Delta(k, i) \in Nat
             /\ Present(k - 1, i) /\ Present(k, i) => Delta(k, i) <= truth[k][i]
  <2>1. k \in 1..n /\ k - 1 \in 1..n
    BY <1>1
  <2>2. ValueAt(k, i) \in Nat /\ ValueAt(k - 1, i) \in Nat /\ truth[k][i] \in Nat
    BY <1>1, <1>2, <2>1
  <2>3. Delta(k, i) \in Nat
    BY <2>2 DEF Delta
  <2>4. ASSUME Present(k - 1, i), Present(k, i) PROVE Delta(k, i) <= truth[k][i]
    <3>1. ValueAt(k, i) - ValueAt(k - 1, i) <= truth[k][i]
      BY <1>1, <2>4 DEF Present, ValueAt, Consistent, Has, BytesOf
    <3> QED
      BY <2>2, <3>1 DEF Delta
  <2> QED
    BY <2>3, <2>4
<1>4. ASSUME NEW iface \in Iface, NEW points \in 0..(Capacity + 1)
      PROVE  LET line  == Sparkline(iface, points)
                 first == Len(samples) - Len(line)
             IN  /\ Len(line) <= points
                 /\ \A j \in DOMAIN line :
                      Present(first + j - 1, iface) /\ Present(first + j, iface)
                        => line[j] <= truth[first + j][iface]
                 /\ line # <<>> => Bandwidth(iface, 1) = line[Len(line)]
  <2> DEFINE line == Sparkline(iface, points)
             m == IF points < n - 1 THEN points ELSE n - 1
  <2>1. CASE n < 2 \/ points = 0
    <3>1. line = <<>>
      BY <2>1 DEF Sparkline
    <3> QED
      BY <1>1, <3>1
  <2>2. CASE ~(n < 2 \/ points = 0)
    <3>1. line = [j \in 1..m |-> Delta(n - m + j, iface)]
      BY <2>2 DEF Sparkline
    <3>2. m \in Nat \ {0} /\ m <= points /\ m <= n - 1
      BY <1>1, <2>2
    <3> HIDE DEF m, line
    <3>3. \A j \in 1..m : n - m + j \in 2..n /\ Delta(n - m + j, iface) \in Nat
      BY <1>1, <1>3, <3>2
    <3>4. line \in [1..m -> Nat]
      BY <3>1, <3>3
    <3>5. Len(line) = m /\ DOMAIN line = 1..m
      BY <3>2, <3>4
    <3>6. \A j \in 1..m : Present(n - m + j - 1, iface) /\ Present(n - m + j, iface)
                            => line[j] <= truth[n - m + j][iface]
      <4> TAKE j \in 1..m
      <4> DEFINE k == n - m + j
      <4>1. k \in 2..n /\ line[j] = Delta(k, iface)
        BY <3>1, <3>3
      <4> HIDE DEF k
      <4>2. Present(k - 1, iface) /\ Present(k, iface) => Delta(k, iface) <= truth[k][iface]
        BY <1>3, <4>1
      <4>3. n - m + j - 1 = k - 1 /\ n - m + j = k
        BY <1>1, <3>2 DEF k
      <4> QED
        BY <4>1, <4>2, <4>3 DEF Present
    <3>7. Bandwidth(iface, 1) = line[m]
      <4>1. line[m] = Delta(n, iface) /\ Delta(n, iface) \in Nat
        <5>1. n - m + m = n /\ m \in 1..m
          BY <1>1, <3>2
        <5> QED
          BY <3>1, <3>3, <5>1
      <4>2. Bandwidth(iface, 1) = Delta(n, iface) \div 1
        BY <2>2 DEF Bandwidth
      <4> QED
        BY <4>1, <4>2
    <3> QED
      BY <3>2, <3>5, <3>6, <3>7 DEF line
  <2> QED
    BY <2>1, <2>2
<1> QED
  BY <1>1, <1>4 DEF SparklineHonest

\* For any interfaces, any capacity and any number of resets, unpluggings and
\* evictions: no value drawn is more than what moved in its interval, and the
\* figure beside the line is its last value (NetworkHistory::sparkline, bandwidth).
THEOREM SparklinesAreHonest == NetworkInit /\ [][NetworkNext]_networkVars => []SparklineHonest
<1>1. NetworkInit => NetworkInv
  <2> SUFFICES ASSUME NetworkInit PROVE NetworkInv
    OBVIOUS
  <2>1. samples = <<>> /\ truth = <<>> /\ counter = Nothing /\ moved = Nothing
    BY DEF NetworkInit
  <2>2. IsSeq(samples) /\ IsSeq(truth) /\ Len(samples) = 0 /\ Len(truth) = 0
    BY <2>1 DEF IsSeq
  <2>3. RingInv(samples, truth)
    BY <2>2, CapacityFacts DEF RingInv
  <2>4. CounterInv
    BY <2>1, <2>2 DEF CounterInv, Plugged, Nothing
  <2> QED
    BY <2>3, <2>4 DEF NetworkInv
<1> QED
  BY <1>1, NetworkStep, NetworkInvHonest, PTL

-----------------------------------------------------------------------------
(* ContainerEngine: what a bar of the network sparkline stands for.        *)

\* Two looks at a container, the first not after the second: what it received in
\* all grows, and what it received before its last restart grows too.
Before(total1, rx1, total2, rx2) == total1 <= total2 /\ total1 - rx1 <= total2 - rx2

DaemonType ==
  /\ daemon \in [Containers -> [there : BOOLEAN, running : BOOLEAN, cpu : Nat, rx : Nat]]
  /\ traffic \in [Containers -> Nat]

RowOk(r) ==
  /\ r.id_full \in Containers /\ r.id = Short[r.id_full]
  /\ r.rx \in Nat /\ r.total \in Nat
  /\ Before(r.total, r.rx, traffic[r.id_full], SumNetworks(r.id_full))

\* The rows of a poll and of the slot: each container once, the poll's not before
\* the slot's.
RowsInv ==
  /\ \A r \in poll.rows \cup slot.rows : RowOk(r)
  /\ \A r, s \in poll.rows : r.id = s.id => r = s
  /\ \A r, s \in slot.rows : r.id = s.id => r = s
  /\ \A c \in poll.todo : c \in Containers /\ \A r \in poll.rows : r.id_full # c
  /\ \A p \in poll.rows, s \in slot.rows : p.id = s.id => Before(s.total, s.rx, p.total, p.rx)
  /\ poll = [stage |-> poll.stage, todo |-> poll.todo, rows |-> poll.rows]

\* The rings of one container.
RingsOk(rx, cpu, from, upto) ==
  /\ IsSeq(rx) /\ IsSeq(cpu) /\ IsSeq(from) /\ IsSeq(upto)
  /\ Len(rx) \in 1..HistoryLen
  /\ Len(cpu) = Len(rx) /\ Len(from) = Len(rx) /\ Len(upto) = Len(rx)
  /\ \A i \in 1..Len(rx) :
       /\ rx[i] \in Nat /\ from[i] \in Nat /\ upto[i] \in Nat
       /\ rx[i] <= upto[i] - from[i]
       /\ i > 1 => from[i] = upto[i - 1]

\* The last bar ends with a look not after any that is still to be shown.
SeenOk(k) ==
  LET total == Last(hist.upto[k])
      rx    == hist.last[k]
  IN  /\ rx \in Nat
      /\ \E c \in Containers : Short[c] = k /\ Before(total, rx, traffic[c], SumNetworks(c))
      /\ \A r \in poll.rows \cup slot.rows : r.id = k => Before(total, rx, r.total, r.rx)

HistInv ==
  /\ DOMAIN hist.cpu = DOMAIN hist.rx /\ DOMAIN hist.last = DOMAIN hist.rx
  /\ DOMAIN hist.from = DOMAIN hist.rx /\ DOMAIN hist.upto = DOMAIN hist.rx
  /\ \A k \in DOMAIN hist.rx :
       RingsOk(hist.rx[k], hist.cpu[k], hist.from[k], hist.upto[k]) /\ SeenOk(k)

ContainersInv == DaemonType /\ RowsInv /\ HistInv

\* A ring takes a bar: the others keep their order, the oldest goes when it is full.
Slide(n) == IF n >= HistoryLen THEN 1 ELSE 0

Pushed(ring, new, x) ==
  LET n == Slide(Len(ring))
      m == Len(ring) + 1 - n
  IN  /\ IsSeq(new) /\ Len(new) = m /\ m \in 1..HistoryLen
      /\ \A i \in 1..(m - 1) : new[i] = ring[i + n]
      /\ new[m] = x

LEMMA PushRingFacts ==
  ASSUME NEW ring, IsSeq(ring), Len(ring) <= HistoryLen, NEW x
  PROVE  Pushed(ring, PushRing(ring, x), x)
<1>1. HistoryLen \in Nat /\ HistoryLen > 0
  BY ContainerAssumption
<1>2. Len(ring) \in Nat
  BY AppendIsSeq
<1>3. CASE Len(ring) >= HistoryLen
  <2>1. ring # <<>>
    BY <1>1, <1>2, <1>3
  <2>2. /\ IsSeq(Tail(ring)) /\ Len(Tail(ring)) = Len(ring) - 1
        /\ \A i \in 1..(Len(ring) - 1) : Tail(ring)[i] = ring[i + 1]
    BY <2>1, TailIsSeq
  <2>3. /\ IsSeq(Append(Tail(ring), x))
        /\ Len(Append(Tail(ring), x)) = Len(Tail(ring)) + 1
        /\ \A i \in 1..Len(Tail(ring)) : Append(Tail(ring), x)[i] = Tail(ring)[i]
        /\ Append(Tail(ring), x)[Len(Tail(ring)) + 1] = x
    BY <2>2, AppendIsSeq
  <2>4. PushRing(ring, x) = Append(Tail(ring), x)
    BY <1>3 DEF PushRing
  <2> QED
    BY <1>1, <1>2, <1>3, <2>2, <2>3, <2>4 DEF Pushed, Slide
<1>4. CASE ~(Len(ring) >= HistoryLen)
  <2>1. PushRing(ring, x) = Append(ring, x)
    BY <1>4 DEF PushRing
  <2> QED
    BY <1>1, <1>2, <1>4, <2>1, AppendIsSeq DEF Pushed, Slide
<1> QED
  BY <1>3, <1>4

\* The next bar of a container that was shown before.
LEMMA NextBar ==
  ASSUME NEW rx, NEW cpu, NEW from, NEW upto, RingsOk(rx, cpu, from, upto),
         NEW pct, NEW total \in Nat, NEW d \in Nat, d <= total - Last(upto)
  PROVE  /\ RingsOk(PushRing(rx, d), PushRing(cpu, pct), PushRing(from, Last(upto)),
                    PushRing(upto, total))
         /\ Last(PushRing(upto, total)) = total
<1> DEFINE n == Slide(Len(rx))
           m == Len(rx) + 1 - n
           rx1 == PushRing(rx, d)
           cpu1 == PushRing(cpu, pct)
           from1 == PushRing(from, Last(upto))
           upto1 == PushRing(upto, total)
<1>1. /\ Len(rx) \in 1..HistoryLen /\ HistoryLen \in Nat
      /\ Len(cpu) = Len(rx) /\ Len(from) = Len(rx) /\ Len(upto) = Len(rx)
  BY ContainerAssumption DEF RingsOk
<1>2. /\ IsSeq(rx1) /\ Len(rx1) = m /\ m \in 1..HistoryLen /\ rx1[m] = d
      /\ \A i \in 1..(m - 1) : rx1[i] = rx[i + n]
  <2>1. IsSeq(rx) /\ Len(rx) <= HistoryLen
    BY <1>1 DEF RingsOk
  <2>2. Pushed(rx, rx1, d)
    BY <2>1, PushRingFacts
  <2> QED
    BY <1>1, <2>2 DEF Pushed
<1>3. IsSeq(cpu1) /\ Len(cpu1) = m
  <2>1. IsSeq(cpu) /\ Len(cpu) <= HistoryLen
    BY <1>1 DEF RingsOk
  <2>2. Pushed(cpu, cpu1, pct)
    BY <2>1, PushRingFacts
  <2> QED
    BY <1>1, <2>2 DEF Pushed
<1>4. /\ IsSeq(from1) /\ Len(from1) = m /\ from1[m] = Last(upto)
      /\ \A i \in 1..(m - 1) : from1[i] = from[i + n]
  <2>1. IsSeq(from) /\ Len(from) <= HistoryLen
    BY <1>1 DEF RingsOk
  <2>2. Pushed(from, from1, Last(upto))
    BY <2>1, PushRingFacts
  <2> QED
    BY <1>1, <2>2 DEF Pushed
<1>5. /\ IsSeq(upto1) /\ Len(upto1) = m /\ upto1[m] = total
      /\ \A i \in 1..(m - 1) : upto1[i] = upto[i + n]
  <2>1. IsSeq(upto) /\ Len(upto) <= HistoryLen
    BY <1>1 DEF RingsOk
  <2>2. Pushed(upto, upto1, total)
    BY <2>1, PushRingFacts
  <2> QED
    BY <1>1, <2>2 DEF Pushed
<1>6. Last(upto) = upto[Len(rx)] /\ Last(upto1) = total
  BY <1>1, <1>5 DEF Last
<1>7. n \in {0, 1} /\ m = Len(rx) + 1 - n /\ (n = 1 => Len(rx) = HistoryLen)
  BY <1>1 DEF Slide
<1> HIDE DEF n, m, rx1, cpu1, from1, upto1
<1>8. \A i \in 1..(m - 1) : i + n \in 1..Len(rx)
  BY <1>1, <1>7
<1>9. ASSUME NEW i \in 1..m
      PROVE  /\ rx1[i] \in Nat /\ from1[i] \in Nat /\ upto1[i] \in Nat
             /\ rx1[i] <= upto1[i] - from1[i]
             /\ i > 1 => from1[i] = upto1[i - 1]
  <2>1. CASE i = m
    <3>1. Last(upto) \in Nat
      BY <1>1, <1>6 DEF RingsOk
    <3>2. m > 1 => upto1[m - 1] = upto[(m - 1) + n] /\ (m - 1) + n = Len(rx)
      BY <1>1, <1>2, <1>5, <1>7
    <3> QED
      BY <1>2, <1>4, <1>5, <1>6, <2>1, <3>1, <3>2
  <2>2. CASE i # m
    <3>1. i \in 1..(m - 1) /\ i + n \in 1..Len(rx)
      BY <1>2, <1>8, <2>2
    <3>2. /\ rx1[i] = rx[i + n] /\ from1[i] = from[i + n] /\ upto1[i] = upto[i + n]
      BY <1>2, <1>4, <1>5, <3>1
    <3>3. /\ rx[i + n] \in Nat /\ from[i + n] \in Nat /\ upto[i + n] \in Nat
          /\ rx[i + n] <= upto[i + n] - from[i + n]
          /\ i + n > 1 => from[i + n] = upto[(i + n) - 1]
      BY <3>1 DEF RingsOk
    <3>4. i > 1 => i - 1 \in 1..(m - 1) /\ (i - 1) + n = (i + n) - 1 /\ i + n > 1
      BY <1>2, <1>7, <3>1
    <3>5. i > 1 => upto1[i - 1] = upto[(i + n) - 1]
      BY <1>5, <3>4
    <3> QED
      BY <3>2, <3>3, <3>4, <3>5
  <2> QED
    BY <2>1, <2>2
<1>10. RingsOk(rx1, cpu1, from1, upto1)
  BY <1>2, <1>3, <1>4, <1>5, <1>9 DEF RingsOk
<1> QED
  BY <1>6, <1>10 DEF rx1, cpu1, from1, upto1

\* The first bar of a container: nothing.
LEMMA FirstBar ==
  ASSUME NEW pct, NEW total \in Nat
  PROVE  /\ RingsOk(PushRing(<<>>, 0), PushRing(<<>>, pct), PushRing(<<>>, total),
                    PushRing(<<>>, total))
         /\ Last(PushRing(<<>>, total)) = total
<1>1. HistoryLen \in Nat /\ HistoryLen > 0
  BY ContainerAssumption
<1>2. ASSUME NEW x
      PROVE  IsSeq(PushRing(<<>>, x)) /\ Len(PushRing(<<>>, x)) = 1 /\ PushRing(<<>>, x)[1] = x
  <2>1. PICK e : e = <<>>
    OBVIOUS
  <2>2. IsSeq(e) /\ Len(e) = 0
    BY <2>1, EmptyIsSeq
  <2>3. Pushed(e, PushRing(e, x), x)
    BY <1>1, <2>2, PushRingFacts
  <2>4. Slide(0) = 0
    BY <1>1 DEF Slide
  <2>5. IsSeq(PushRing(e, x)) /\ Len(PushRing(e, x)) = 1 /\ PushRing(e, x)[1] = x
    BY <2>2, <2>3, <2>4 DEF Pushed
  <2> QED
    BY <2>1, <2>5
<1>3. Last(PushRing(<<>>, total)) = total
  BY <1>2 DEF Last
<1> HIDE DEF PushRing
<1>4. 0 <= total - total /\ 1 \in 1..HistoryLen
  BY <1>1
<1>5. \A i \in 1..1 : i = 1
  OBVIOUS
<1>6. ASSUME NEW rx, NEW cpu, NEW ends, IsSeq(rx), IsSeq(cpu), IsSeq(ends),
             Len(rx) = 1, Len(cpu) = 1, Len(ends) = 1, rx[1] = 0, ends[1] = total
      PROVE  RingsOk(rx, cpu, ends, ends)
  BY <1>4, <1>5, <1>6 DEF RingsOk
<1> QED
  BY <1>2, <1>3, <1>6

-----------------------------------------------------------------------------

\* What a poll reads of a container's interfaces is a number.
LEMMA CountersRead ==
  /\ DaemonType => \A c \in Containers : SumNetworks(c) \in Nat
  /\ DaemonType' => \A c \in Containers : SumNetworks(c)' \in Nat
  BY DEF DaemonType, SumNetworks

\* The daemon goes on: nothing it does makes an earlier look a later one.
LEMMA WorldMoves ==
  ASSUME ContainersInv, DaemonType', UNCHANGED <<poll, slot, hist>>,
         \A c \in Containers : Before(traffic[c], SumNetworks(c), traffic'[c], SumNetworks(c)')
  PROVE  ContainersInv'
<1> USE DEF ContainersInv
<1>1. ASSUME NEW c \in Containers, NEW total \in Nat, NEW rx \in Nat,
             Before(total, rx, traffic[c], SumNetworks(c))
      PROVE  Before(total, rx, traffic'[c], SumNetworks(c)')
  BY <1>1, CountersRead DEF Before, DaemonType
<1>2. RowsInv'
  <2>1. ASSUME NEW r \in poll.rows \cup slot.rows PROVE RowOk(r)'
    <3>1. RowOk(r)
      BY DEF RowsInv
    <3> QED
      BY <1>1, <3>1 DEF RowOk
  <2> QED
    BY <2>1 DEF RowsInv
<1>3. ASSUME NEW k \in DOMAIN hist.rx PROVE SeenOk(k)'
  <2>1. Last(hist.upto[k]) \in Nat
    BY DEF HistInv, RingsOk, Last
  <2> QED
    BY <1>1, <2>1 DEF HistInv, SeenOk
<1>4. HistInv'
  BY <1>3 DEF HistInv
<1> QED
  BY <1>2, <1>4

\* Work, restarts, stops and removals.
LEMMA DaemonSteps ==
  ASSUME ContainersInv,
         Work \/ \E c \in Containers : StopOrKill(c) \/ Restart(c) \/ RemoveContainer(c)
  PROVE  ContainersInv'
<1> USE DEF ContainersInv
<1>0. /\ \A c \in Containers : daemon[c].rx \in Nat /\ traffic[c] \in Nat /\ SumNetworks(c) \in Nat
  BY CountersRead DEF DaemonType
<1>1. CASE Work
  <2>1. PICK c \in Containers :
          /\ daemon[c].running
          /\ daemon' = [daemon EXCEPT ![c].cpu = @ + 1, ![c].rx = @ + 1]
          /\ traffic' = [traffic EXCEPT ![c] = @ + 1]
    BY <1>1 DEF Work
  <2>2. /\ daemon'[c].rx = daemon[c].rx + 1 /\ traffic'[c] = traffic[c] + 1
        /\ daemon'[c].running = daemon[c].running
        /\ \A d \in Containers \ {c} : daemon'[d] = daemon[d] /\ traffic'[d] = traffic[d]
    BY <2>1 DEF DaemonType
  <2>3. DaemonType'
    BY <2>1, <2>2, <1>0 DEF DaemonType
  <2>4. \A d \in Containers : Before(traffic[d], SumNetworks(d), traffic'[d], SumNetworks(d)')
    <3>1. SumNetworks(c)' = SumNetworks(c) + 1
      BY <2>1, <2>2 DEF SumNetworks
    <3>2. \A d \in Containers \ {c} : SumNetworks(d)' = SumNetworks(d)
      BY <2>2 DEF SumNetworks
    <3> QED
      BY <1>0, <2>2, <3>1, <3>2 DEF Before
  <2> QED
    BY <1>1, <2>3, <2>4, WorldMoves DEF Work
<1>2. ASSUME NEW c \in Containers, StopOrKill(c) \/ RemoveContainer(c) PROVE ContainersInv'
  <2>1. /\ \A d \in Containers : /\ daemon'[d].rx = daemon[d].rx /\ traffic'[d] = traffic[d]
                                 /\ daemon'[d].running => daemon[d].running
        /\ DaemonType'
    <3>1. CASE daemon' = [daemon EXCEPT ![c].running = FALSE] /\ traffic' = traffic
      BY <3>1 DEF DaemonType
    <3>2. CASE daemon' = [daemon EXCEPT ![c].there = FALSE] /\ traffic' = traffic
      BY <3>2 DEF DaemonType
    <3> QED
      BY <1>2, <3>1, <3>2 DEF StopOrKill, RemoveContainer
  <2>2. \A d \in Containers : Before(traffic[d], SumNetworks(d), traffic'[d], SumNetworks(d)')
    <3>1. \A d \in Containers : SumNetworks(d)' \in {SumNetworks(d), 0}
      BY <2>1 DEF SumNetworks
    <3> QED
      BY <1>0, <2>1, <3>1 DEF Before
  <2> QED
    BY <1>2, <2>1, <2>2, WorldMoves DEF StopOrKill, RemoveContainer
<1>3. ASSUME NEW c \in Containers, Restart(c) PROVE ContainersInv'
  <2>1. daemon' = [daemon EXCEPT ![c] = [daemon[c] EXCEPT !.running = TRUE, !.cpu = 0, !.rx = 0]]
        /\ traffic' = traffic
    BY <1>3 DEF Restart
  <2>2. /\ daemon'[c].rx = 0 /\ \A d \in Containers \ {c} : daemon'[d] = daemon[d]
    BY <2>1 DEF DaemonType
  <2>3. DaemonType'
    BY <2>1, <2>2 DEF DaemonType
  <2>4. \A d \in Containers : Before(traffic[d], SumNetworks(d), traffic'[d], SumNetworks(d)')
    <3>1. SumNetworks(c)' = 0 /\ \A d \in Containers \ {c} : SumNetworks(d)' = SumNetworks(d)
      BY <2>2 DEF SumNetworks
    <3> QED
      BY <1>0, <2>1, <3>1 DEF Before
  <2> QED
    BY <1>3, <2>3, <2>4, WorldMoves DEF Restart
<1> QED
  BY <1>1, <1>2, <1>3

\* A poll, row by row.
LEMMA PollSteps ==
  ASSUME ContainersInv, Poll
  PROVE  ContainersInv'
<1> USE DEF ContainersInv
<1>0. UNCHANGED <<daemon, traffic, hist>> /\ DaemonType'
  BY DEF Poll, ListContainers, FinishPoll, StatsAnswered, StatsFailed, DaemonType
<1>1. ASSUME RowsInv',
             \A k \in DOMAIN hist.rx : \A r \in (poll.rows \cup slot.rows)' :
               r.id = k => Before(Last(hist.upto[k]), hist.last[k], r.total, r.rx)
      PROVE  ContainersInv'
  <2>1. HistInv'
    BY <1>0, <1>1 DEF HistInv, SeenOk, SumNetworks
  <2> QED
    BY <1>0, <1>1, <2>1
<1>2. ASSUME (poll.rows \cup slot.rows)' \subseteq poll.rows \cup slot.rows, RowsInv' PROVE ContainersInv'
  BY <1>1, <1>2 DEF HistInv, SeenOk
<1>3. CASE ListContainers
  <2>1. CASE /\ poll' = [stage |-> "stats", todo |-> {c \in Containers : daemon[c].there}, rows |-> {}]
             /\ slot' = slot
    <3>1. RowsInv'
      BY <1>0, <2>1 DEF RowsInv, RowOk, SumNetworks
    <3> QED
      BY <1>2, <2>1, <3>1
  <2>2. CASE slot' = [status |-> "unavailable", rows |-> {}] /\ poll' = poll
    <3>1. RowsInv'
      BY <1>0, <2>2 DEF RowsInv, RowOk, SumNetworks
    <3> QED
      BY <1>2, <2>2, <3>1
  <2> QED
    BY <1>3, <2>1, <2>2 DEF ListContainers
<1>4. CASE FinishPoll
  <2>1. slot'.rows = poll.rows /\ poll' = NoPoll
    BY <1>4 DEF FinishPoll
  <2>2. poll'.rows = {} /\ poll'.todo = {} /\ poll' = [stage |-> poll'.stage, todo |-> {}, rows |-> {}]
    BY <2>1 DEF NoPoll
  <2>3. RowsInv'
    BY <1>0, <2>1, <2>2 DEF RowsInv, RowOk, SumNetworks
  <2> QED
    BY <1>2, <2>1, <2>2, <2>3
<1>5. ASSUME NEW c \in Containers, StatsFailed(c) PROVE ContainersInv'
  <2>1. poll'.rows = poll.rows /\ poll'.todo = poll.todo \ {c} /\ slot' = slot
        /\ poll' = [stage |-> poll'.stage, todo |-> poll'.todo, rows |-> poll'.rows]
    BY <1>5 DEF StatsFailed, RowsInv
  <2>2. RowsInv'
    BY <1>0, <2>1 DEF RowsInv, RowOk, SumNetworks
  <2> QED
    BY <1>2, <2>1, <2>2
<1>6. ASSUME NEW c \in Containers, StatsAnswered(c) PROVE ContainersInv'
  <2> DEFINE new == BuildSnapshot(c)
  <2>1. /\ poll'.rows = poll.rows \cup {new} /\ poll'.todo = poll.todo \ {c} /\ slot' = slot
        /\ poll' = [stage |-> poll'.stage, todo |-> poll'.todo, rows |-> poll'.rows]
        /\ c \in poll.todo
    BY <1>6 DEF StatsAnswered, RowsInv
  <2>2. new.id = Short[c] /\ new.id_full = c /\ new.rx = SumNetworks(c) /\ new.total = traffic[c]
    BY DEF BuildSnapshot
  <2> HIDE DEF new
  <2>3. RowOk(new)
    BY <2>2, CountersRead DEF RowOk, Before, DaemonType
  <2>4. \A d \in Containers : Short[d] = Short[c] => d = c
    BY ContainerAssumption DEF IsInjective
  <2>5. \A r \in poll.rows : r.id # new.id
    BY <2>1, <2>2, <2>4 DEF RowsInv, RowOk
  <2>6. \A s \in slot.rows : s.id = new.id => Before(s.total, s.rx, new.total, new.rx)
    BY <2>2, <2>4 DEF RowsInv, RowOk
  <2>7. RowsInv'
    BY <1>0, <2>1, <2>2, <2>3, <2>5, <2>6 DEF RowsInv, RowOk, SumNetworks
  <2>8. ASSUME NEW k \in DOMAIN hist.rx, new.id = k
        PROVE  Before(Last(hist.upto[k]), hist.last[k], new.total, new.rx)
    BY <2>2, <2>4, <2>8 DEF HistInv, SeenOk
  <2>9. \A k \in DOMAIN hist.rx : \A r \in poll.rows \cup slot.rows :
          r.id = k => Before(Last(hist.upto[k]), hist.last[k], r.total, r.rx)
    BY DEF HistInv, SeenOk
  <2> QED
    BY <1>1, <2>1, <2>7, <2>8, <2>9
<1> QED
  BY <1>3, <1>4, <1>5, <1>6 DEF Poll

\* The next bars.
LEMMA SnapshotStep ==
  ASSUME ContainersInv, ApplySnapshot
  PROVE  ContainersInv'
<1> USE DEF ContainersInv
<1> DEFINE rowOf(k) == CHOOSE r \in slot.rows : r.id = k
           ids == {r.id : r \in slot.rows}
           lastTotal(k) == IF k \in DOMAIN hist.upto THEN Last(hist.upto[k]) ELSE rowOf(k).total
<1>1. /\ hist' = PushContainerHistory(slot.rows)
      /\ UNCHANGED <<daemon, poll, slot, traffic>>
  BY DEF ApplySnapshot
<1>2. ASSUME NEW k \in ids
      PROVE  rowOf(k) \in slot.rows /\ rowOf(k).id = k /\ rowOf(k).rx \in Nat /\ rowOf(k).total \in Nat
  <2>1. \E r \in slot.rows : r.id = k
    OBVIOUS
  <2>2. rowOf(k) \in slot.rows /\ rowOf(k).id = k
    BY <2>1
  <2> QED
    BY <2>2 DEF RowsInv, RowOk
<1> HIDE DEF rowOf
<1>3. /\ hist'.cpu = [k \in ids |-> PushRing(At(hist.cpu, k, <<>>), rowOf(k).cpu_pct)]
      /\ hist'.rx = [k \in ids |-> PushRing(At(hist.rx, k, <<>>), RxDelta(rowOf(k)))]
      /\ hist'.last = [k \in ids |-> rowOf(k).rx]
      /\ hist'.from = [k \in ids |-> PushRing(At(hist.from, k, <<>>), lastTotal(k))]
      /\ hist'.upto = [k \in ids |-> PushRing(At(hist.upto, k, <<>>), rowOf(k).total)]
  BY <1>1 DEF PushContainerHistory, rowOf
<1> HIDE DEF ids, lastTotal
<1>4. ASSUME NEW k \in ids
      PROVE  /\ RingsOk(hist'.rx[k], hist'.cpu[k], hist'.from[k], hist'.upto[k])
             /\ Last(hist'.upto[k]) = rowOf(k).total
  <2>0. rowOf(k).id = k /\ rowOf(k).rx \in Nat /\ rowOf(k).total \in Nat /\ rowOf(k) \in slot.rows
    BY <1>2
  <2>1. CASE k \in DOMAIN hist.rx
    <3>1. k \in DOMAIN hist.cpu /\ k \in DOMAIN hist.last /\ k \in DOMAIN hist.from /\ k \in DOMAIN hist.upto
      BY <2>1 DEF HistInv
    <3>2. RingsOk(hist.rx[k], hist.cpu[k], hist.from[k], hist.upto[k])
      BY <2>1 DEF HistInv
    <3>3. /\ hist.last[k] \in Nat
          /\ Before(Last(hist.upto[k]), hist.last[k], rowOf(k).total, rowOf(k).rx)
      BY <2>0, <2>1 DEF HistInv, SeenOk
    <3>4. Last(hist.upto[k]) \in Nat
      BY <3>2 DEF RingsOk, Last
    <3>5. RxDelta(rowOf(k)) = SaturatingSub(rowOf(k).rx, hist.last[k])
      BY <2>0, <3>1 DEF RxDelta
    <3>6. RxDelta(rowOf(k)) \in Nat /\ RxDelta(rowOf(k)) <= rowOf(k).total - Last(hist.upto[k])
      BY <2>0, <3>3, <3>4, <3>5 DEF SaturatingSub, Before
    <3>7. /\ hist'.rx[k] = PushRing(hist.rx[k], RxDelta(rowOf(k)))
          /\ hist'.cpu[k] = PushRing(hist.cpu[k], rowOf(k).cpu_pct)
          /\ hist'.from[k] = PushRing(hist.from[k], Last(hist.upto[k]))
          /\ hist'.upto[k] = PushRing(hist.upto[k], rowOf(k).total)
      BY <1>3, <2>1, <3>1 DEF At, lastTotal
    <3> QED
      BY <2>0, <3>2, <3>6, <3>7, NextBar
  <2>2. CASE k \notin DOMAIN hist.rx
    <3>1. k \notin DOMAIN hist.cpu /\ k \notin DOMAIN hist.last /\ k \notin DOMAIN hist.from
          /\ k \notin DOMAIN hist.upto
      BY <2>2 DEF HistInv
    <3>2. RxDelta(rowOf(k)) = 0
      BY <2>0, <3>1 DEF RxDelta
    <3>3. /\ hist'.rx[k] = PushRing(<<>>, 0)
          /\ hist'.cpu[k] = PushRing(<<>>, rowOf(k).cpu_pct)
          /\ hist'.from[k] = PushRing(<<>>, rowOf(k).total)
          /\ hist'.upto[k] = PushRing(<<>>, rowOf(k).total)
      BY <1>3, <2>2, <3>1, <3>2 DEF At, lastTotal
    <3> QED
      BY <2>0, <3>3, FirstBar
  <2> QED
    BY <2>1, <2>2
<1>5. ASSUME NEW k \in ids PROVE SeenOk(k)'
  <2>1. rowOf(k).id = k /\ rowOf(k) \in slot.rows /\ RowOk(rowOf(k))
    BY <1>2 DEF RowsInv
  <2>2. hist'.last[k] = rowOf(k).rx /\ Last(hist'.upto[k]) = rowOf(k).total
    BY <1>3, <1>4
  <2>3. \E c \in Containers : Short[c] = k /\ Before(rowOf(k).total, rowOf(k).rx, traffic[c], SumNetworks(c))
    BY <2>1 DEF RowOk
  <2>4. \A r \in slot.rows : r.id = k => r = rowOf(k)
    BY <2>1 DEF RowsInv
  <2>5. Before(rowOf(k).total, rowOf(k).rx, rowOf(k).total, rowOf(k).rx)
    BY <2>1 DEF RowOk, Before
  <2>6. \A r \in poll.rows : r.id = k => Before(rowOf(k).total, rowOf(k).rx, r.total, r.rx)
    BY <2>1 DEF RowsInv
  <2> QED
    BY <1>1, <2>1, <2>2, <2>3, <2>4, <2>5, <2>6 DEF SeenOk, RowOk, SumNetworks
<1>6. HistInv'
  BY <1>3, <1>4, <1>5 DEF HistInv
<1>7. RowsInv' /\ DaemonType'
  BY <1>1 DEF RowsInv, RowOk, DaemonType, SumNetworks
<1> QED
  BY <1>6, <1>7

\* For any containers and any length of the rings, with polls, restarts, removals
\* and refused or late stats in any order: no bar of the network sparkline is more
\* than the container received since the bar before, and its three histories come
\* and go together (push_container_history, fed by list_and_stats).
THEOREM BarsAreTraffic == ContainersSpec => []NoPhantomTraffic
<1>1. ContainersInit => ContainersInv
  <2> SUFFICES ASSUME ContainersInit PROVE ContainersInv
    OBVIOUS
  <2>1. DaemonType
    BY DEF ContainersInit, DaemonType
  <2>2. RowsInv
    BY DEF ContainersInit, NoPoll, NoRows, RowsInv
  <2>3. hist.cpu = << >> /\ hist.rx = << >> /\ hist.last = << >> /\ hist.from = << >> /\ hist.upto = << >>
    BY DEF ContainersInit, NoHist
  <2>4. HistInv
    BY <2>3 DEF HistInv
  <2> QED
    BY <2>1, <2>2, <2>4 DEF ContainersInv
<1>2. ContainersInv /\ [ContainersNext]_containerVars => ContainersInv'
  <2> SUFFICES ASSUME ContainersInv, [ContainersNext]_containerVars PROVE ContainersInv'
    OBVIOUS
  <2>1. CASE UNCHANGED containerVars
    BY <2>1 DEF containerVars, ContainersInv, DaemonType, RowsInv, RowOk, HistInv, SeenOk, SumNetworks
  <2> QED
    BY <2>1, PollSteps, SnapshotStep, DaemonSteps DEF ContainersNext
<1>3. ContainersInv => NoPhantomTraffic
  <2> SUFFICES ASSUME ContainersInv PROVE NoPhantomTraffic
    OBVIOUS
  <2>1. ASSUME NEW k \in DOMAIN hist.rx
        PROVE  /\ Len(hist.cpu[k]) = Len(hist.rx[k]) /\ Len(hist.rx[k]) <= HistoryLen
               /\ \A i \in DOMAIN hist.rx[k] :
                    /\ hist.rx[k][i] <= hist.upto[k][i] - hist.from[k][i]
                    /\ i > 1 => hist.from[k][i] = hist.upto[k][i - 1]
    <3>1. RingsOk(hist.rx[k], hist.cpu[k], hist.from[k], hist.upto[k])
      BY DEF ContainersInv, HistInv
    <3>2. DOMAIN hist.rx[k] = 1..Len(hist.rx[k])
      BY <3>1, AppendIsSeq DEF RingsOk
    <3>3. HistoryLen \in Nat
      BY ContainerAssumption
    <3> QED
      BY <3>1, <3>2, <3>3 DEF RingsOk
  <2> QED
    BY <2>1 DEF ContainersInv, HistInv, NoPhantomTraffic, HistoriesAgree
<1> QED
  BY <1>1, <1>2, <1>3, PTL DEF ContainersSpec

-----------------------------------------------------------------------------
(* AppleGpu and AppleRegistry: objects owned by hand.                      *)

\* Only an open sampler has a baseline; the rest is RefsBalanced.
RefInv ==
  /\ refs = [o \in Objects |-> refs[o]]
  /\ \A o \in Objects : refs[o] \in Int
  /\ phase # "open" => previous = <<>>
  /\ RefsBalanced

\* Taking and giving back, object by object.
LEMMA BalanceAt ==
  ASSUME NEW taken, NEW released, NEW o \in Objects, \A p \in Objects : refs[p] \in Int
  PROVE  /\ Balance(taken, released)[o] \in Int
         /\ (o \in taken) /\ (o \notin released) => Balance(taken, released)[o] = refs[o] + 1
         /\ (o \notin taken) /\ (o \in released) => Balance(taken, released)[o] = refs[o] - 1
         /\ (o \in taken <=> o \in released) => Balance(taken, released)[o] = refs[o]
  BY DEF Balance

\* RefsBalanced, object by object.
RefCounts(f, ph, prev) ==
  /\ f["channels"] = IF ph = "open" THEN 1 ELSE 0
  /\ f["subscription"] = IF ph = "open" THEN 1 ELSE 0
  /\ f["sample"] = IF prev # <<>> THEN 1 ELSE 0
  /\ f["perf_channels"] = 0
  /\ f["delta"] = 0
  /\ f["subscribed"] \in IF ph = "new" THEN {0} ELSE {0, 1}

LEMMA RefsAre == RefCounts(refs, phase, previous) <=> RefsBalanced
  BY DEF Objects, RefCounts, RefsBalanced

LEMMA RefsAreNext == RefCounts(refs', phase', previous') <=> RefsBalanced'
  BY DEF Objects, RefCounts, RefsBalanced

\* What Balance returns counts exactly the Objects.
LEMMA BalanceIsFunction ==
  ASSUME NEW taken, NEW released
  PROVE  Balance(taken, released) = [o \in Objects |-> Balance(taken, released)[o]]
  BY DEF Balance

\* Every step of the sampler keeps the books.
LEMMA RefStep == RefInv /\ [AppleNext]_appleVars => RefInv'
<1> SUFFICES ASSUME RefInv, [AppleNext]_appleVars PROVE RefInv'
  OBVIOUS
<1>0. RefCounts(refs, phase, previous) /\ \A o \in Objects : refs[o] \in Int
  BY RefsAre DEF RefInv
<1> DEFINE Owns(f) == f = [o \in Objects |-> f[o]] /\ \A o \in Objects : f[o] \in Int
<1>1. ASSUME Owns(refs'), RefCounts(refs', phase', previous'), phase' # "open" => previous' = <<>> PROVE RefInv'
  BY <1>1, RefsAreNext DEF RefInv
<1>2. \A taken, released : Owns(Balance(taken, released))
  BY <1>0, BalanceAt, BalanceIsFunction
<1>3. /\ "channels" \in Objects /\ "subscription" \in Objects /\ "sample" \in Objects
      /\ "perf_channels" \in Objects /\ "delta" \in Objects /\ "subscribed" \in Objects
  BY DEF Objects
<1>4. Owns(refs)
  BY DEF RefInv
<1> HIDE DEF Owns
<1>5. ASSUME NEW outcome \in {"ok", "no_channels", "refused"}, NEW p \in BOOLEAN,
             NEW handed \in BOOLEAN, OpenSampler(outcome, p, handed)
      PROVE  RefInv'
  <2> DEFINE merged == IF p THEN {"perf_channels"} ELSE {}
             kept   == IF handed THEN {"subscribed"} ELSE {}
  <2>0. /\ "channels" \notin merged /\ "subscription" \notin merged
        /\ "sample" \notin merged /\ "delta" \notin merged /\ "subscribed" \notin merged
        /\ \A o \in kept : o = "subscribed"
    OBVIOUS
  <2>1. phase = "new" /\ previous = <<>> /\ previous' = previous
    BY <1>5 DEF OpenSampler, RefInv
  <2>2. CASE outcome = "no_channels"
    <3>1. refs' = refs /\ phase' = "failed"
      BY <1>5, <2>2 DEF OpenSampler
    <3> QED
      BY <1>0, <1>1, <1>4, <2>1, <3>1 DEF RefCounts
  <2>3. CASE outcome = "refused"
    <3>1. /\ refs' = Balance({"channels"} \cup merged \cup kept, {"channels"} \cup merged)
          /\ phase' = "failed"
      BY <1>5, <2>3 DEF OpenSampler
    <3> HIDE DEF merged, kept
    <3>2. \A o \in Objects \ {"subscribed"} : refs'[o] = refs[o]
      BY <1>0, <2>0, <3>1, BalanceAt
    <3>3. refs'["subscribed"] \in {refs["subscribed"], refs["subscribed"] + 1}
      BY <1>0, <1>3, <2>0, <3>1, BalanceAt
    <3>4. refs'["subscribed"] \in {0, 1}
      BY <1>0, <2>1, <3>3 DEF RefCounts
    <3>5. \A o \in {"channels", "subscription", "sample", "perf_channels", "delta"} : refs'[o] = refs[o]
      BY <1>3, <3>2
    <3>6. RefCounts(refs', "failed", previous')
      BY <1>0, <2>1, <3>4, <3>5 DEF RefCounts
    <3>7. Owns(refs')
      BY <1>2, <3>1
    <3> QED
      BY <1>1, <2>1, <3>1, <3>6, <3>7
  <2>4. CASE outcome = "ok"
    <3>1. /\ refs' = Balance({"channels", "subscription"} \cup merged \cup kept, merged)
          /\ phase' = "open"
      BY <1>5, <2>4 DEF OpenSampler
    <3> HIDE DEF merged, kept
    <3>2. refs'["subscribed"] \in {refs["subscribed"], refs["subscribed"] + 1}
      BY <1>0, <1>3, <2>0, <3>1, BalanceAt
    <3>3. /\ refs'["channels"] = refs["channels"] + 1
          /\ refs'["subscription"] = refs["subscription"] + 1
      BY <1>0, <1>3, <2>0, <3>1, BalanceAt
    <3>4. \A o \in {"sample", "perf_channels", "delta"} : refs'[o] = refs[o]
      BY <1>0, <1>3, <2>0, <3>1, BalanceAt
    <3>5. refs'["subscribed"] \in {0, 1}
      BY <1>0, <2>1, <3>2 DEF RefCounts
    <3>6. RefCounts(refs', "open", previous')
      BY <1>0, <2>1, <3>3, <3>4, <3>5 DEF RefCounts
    <3>7. Owns(refs')
      BY <1>2, <3>1
    <3> QED
      BY <1>1, <3>1, <3>6, <3>7
  <2> QED
    BY <2>2, <2>3, <2>4
<1>6. ASSUME NEW driver, SampleRefused(driver) PROVE RefInv'
  BY <1>0, <1>1, <1>4, <1>6 DEF SampleRefused, RefCounts, RefInv
<1>7. ASSUME NEW driver, SampleFirst(driver) PROVE RefInv'
  <2>1. refs' = Balance({"sample"}, {}) /\ previous' # <<>> /\ previous = <<>>
        /\ phase = "open" /\ phase' = "open"
    BY <1>7 DEF SampleFirst
  <2>2. refs'["sample"] = refs["sample"] + 1
    BY <1>0, <1>3, <2>1, BalanceAt
  <2>3. \A o \in {"channels", "subscription", "subscribed", "perf_channels", "delta"} : refs'[o] = refs[o]
    BY <1>0, <1>3, <2>1, BalanceAt
  <2> QED
    BY <1>0, <1>1, <1>2, <2>1, <2>2, <2>3 DEF RefCounts
<1>8. ASSUME NEW driver, SampleTooSoon(driver) PROVE RefInv'
  <2>1. /\ refs' = Balance({"sample"}, {"sample"}) /\ previous' = previous
        /\ phase = "open" /\ phase' = "open"
    BY <1>8 DEF SampleTooSoon
  <2>2. \A o \in Objects : refs'[o] = refs[o]
    BY <1>0, <2>1, BalanceAt
  <2> QED
    BY <1>0, <1>1, <1>2, <1>3, <2>1, <2>2 DEF RefCounts
<1>9. ASSUME NEW delta \in BOOLEAN, NEW channels, NEW driver, Sample(delta, channels, driver)
      PROVE  RefInv'
  <2>1. PICK made : /\ refs' = Balance({"sample"} \cup made, {"sample"} \cup made)
                    /\ previous' # <<>> /\ previous # <<>>
                    /\ phase = "open" /\ phase' = "open"
    BY <1>9 DEF Sample
  <2>2. \A o \in Objects : refs'[o] = refs[o]
    BY <1>0, <2>1, BalanceAt
  <2> QED
    BY <1>0, <1>1, <1>2, <1>3, <2>1, <2>2 DEF RefCounts
<1>10. CASE DropSampler
  <2>1. CASE previous = <<>>
    <3>1. /\ refs' = Balance({}, {"channels", "subscription"} \cup {}) /\ previous' = <<>>
          /\ phase = "open" /\ phase' = "dropped"
      BY <1>10, <2>1 DEF DropSampler
    <3>2. \A o \in {"channels", "subscription"} : refs'[o] = refs[o] - 1
      BY <1>0, <1>3, <3>1, BalanceAt
    <3>3. \A o \in {"sample", "subscribed", "perf_channels", "delta"} : refs'[o] = refs[o]
      BY <1>0, <1>3, <3>1, BalanceAt
    <3> QED
      BY <1>0, <1>1, <1>2, <2>1, <3>1, <3>2, <3>3 DEF RefCounts
  <2>2. CASE previous # <<>>
    <3>1. /\ refs' = Balance({}, {"channels", "subscription"} \cup {"sample"}) /\ previous' = <<>>
          /\ phase = "open" /\ phase' = "dropped"
      BY <1>10, <2>2 DEF DropSampler
    <3>2. \A o \in {"channels", "subscription", "sample"} : refs'[o] = refs[o] - 1
      BY <1>0, <1>3, <3>1, BalanceAt
    <3>3. \A o \in {"subscribed", "perf_channels", "delta"} : refs'[o] = refs[o]
      BY <1>0, <1>3, <3>1, BalanceAt
    <3> QED
      BY <1>0, <1>1, <1>2, <2>2, <3>1, <3>2, <3>3 DEF RefCounts
  <2> QED
    BY <2>1, <2>2
<1>11. CASE UNCHANGED <<phase, previous, refs>>
  BY <1>0, <1>1, <1>4, <1>11 DEF RefCounts, RefInv
<1> QED
  BY <1>5, <1>6, <1>7, <1>8, <1>9, <1>10, <1>11
     DEF AppleNext, Collects, Spend, ResetCounters, appleVars

\* Whatever the library refuses, and in whatever order the sampler is opened, used
\* and dropped: it owns its channels, its subscription and one baseline while it
\* lives and nothing otherwise, and of those no CoreFoundation object is leaked or
\* released twice; the view of the channels a subscription may hand out is left
\* behind once at most (IoReportSampler::open, sample and drop).
THEOREM SamplerReleasesAll == AppleInit /\ [][AppleNext]_appleVars => []RefsBalanced
<1>1. AppleInit => RefInv
  BY DEF AppleInit, RefInv, RefsBalanced, Objects
<1>2. RefInv => RefsBalanced
  BY DEF RefInv
<1> QED
  BY <1>1, <1>2, RefStep, PTL

-----------------------------------------------------------------------------

\* A walk that has not asked yet has found nothing; the rest is HandlesBalanced.
WalkInv ==
  /\ walk = [for |-> walk.for, stage |-> walk.stage, left |-> walk.left, entry |-> walk.entry,
             out |-> walk.out]
  /\ walk.stage \in {"idle", "matching", "iterating", "entry", "done"}
  /\ IsSeq(walk.out)
  /\ walk.stage \in {"idle", "matching"} => walk.out = <<>>
  /\ HandlesBalanced

HandleCounts(f, stage, n) ==
  /\ f = [h \in Handles |-> f[h]]
  /\ f["matching"] = IF stage = "matching" THEN 1 ELSE 0
  /\ f["iterator"] = IF stage \in {"iterating", "entry"} THEN 1 ELSE 0
  /\ f["entry"] = IF stage = "entry" THEN 1 ELSE 0
  /\ f["properties"] = n

\* HandlesBalanced, handle by handle.
LEMMA HandlesAre ==
  ASSUME NEW f, NEW stage, NEW n
  PROVE  HandleCounts(f, stage, n) <=>
           f = [h \in Handles |->
                  CASE h = "matching" -> IF stage = "matching" THEN 1 ELSE 0
                    [] h = "iterator" -> IF stage \in {"iterating", "entry"} THEN 1 ELSE 0
                    [] h = "entry"    -> IF stage = "entry" THEN 1 ELSE 0
                    [] OTHER          -> n]
  BY DEF Handles, HandleCounts

\* One count changes.
LEMMA OneCount ==
  ASSUME NEW f, f = [h \in Handles |-> f[h]], NEW k \in Handles, NEW n, NEW g,
         g = [f EXCEPT ![k] = n]
  PROVE  g = [h \in Handles |-> g[h]] /\ g[k] = n /\ \A h \in Handles \ {k} : g[h] = f[h]
  OBVIOUS

\* The handles by name.
LEMMA HandleNames ==
  "matching" \in Handles /\ "iterator" \in Handles /\ "entry" \in Handles /\ "properties" \in Handles
  BY DEF Handles

\* A walk that starts or is over has found nothing.
LEMMA NewWalk ==
  /\ NoWalk.out = <<>> /\ NoWalk.stage = "idle"
  /\ NoWalk = [for |-> NoWalk.for, stage |-> NoWalk.stage, left |-> NoWalk.left,
               entry |-> NoWalk.entry, out |-> NoWalk.out]
  BY DEF NoWalk

\* Every call of a walk keeps the books.
LEMMA WalkStep == WalkInv /\ [RegistryNext]_registryVars => WalkInv'
<1> SUFFICES ASSUME WalkInv, [RegistryNext]_registryVars PROVE WalkInv'
  OBVIOUS
<1> DEFINE Shape(w) == w = [for |-> w.for, stage |-> w.stage, left |-> w.left, entry |-> w.entry,
                            out |-> w.out]
<1>0. Shape(walk) /\ HandleCounts(held, walk.stage, Len(walk.out)) /\ Len(walk.out) \in Nat
  BY HandlesAre, AppendIsSeq DEF WalkInv, HandlesBalanced, Shape
<1>1. ASSUME Shape(walk'), walk'.stage \in {"idle", "matching", "iterating", "entry", "done"},
             IsSeq(walk'.out), walk'.stage \in {"idle", "matching"} => walk'.out = <<>>,
             HandleCounts(held', walk'.stage, Len(walk'.out))
      PROVE  WalkInv'
  BY <1>1, HandlesAre DEF WalkInv, HandlesBalanced, Shape
<1> HIDE DEF Shape
<1>2. /\ Shape(NoWalk)
      /\ \A w, s : Shape(w) => Shape([w EXCEPT !.stage = s]) /\ [w EXCEPT !.stage = s].stage = s
                               /\ [w EXCEPT !.stage = s].out = w.out
  BY NewWalk DEF Shape
<1>3. ASSUME NEW who, Match(who) PROVE WalkInv'
  <2>0. /\ walk.stage = "idle" /\ walk.out = <<>>
    BY <1>3 DEF Match, WalkInv
  <2>1. CASE walk' = [NoWalk EXCEPT !.for = who, !.stage = "matching"] /\ Holds("matching", 1)
    <3>1. Shape(walk') /\ walk'.stage = "matching" /\ walk'.out = <<>>
      BY <2>1 DEF Shape, NoWalk
    <3>2. HandleCounts(held', walk'.stage, Len(walk'.out))
      <4>2. held["matching"] = 0 /\ held["iterator"] = 0 /\ held["entry"] = 0
        BY <1>0, <2>0 DEF HandleCounts
      <4>3. /\ held' = [h \in Handles |-> held'[h]]
           /\ held'["matching"] = 1 /\ held'["iterator"] = 0 /\ held'["entry"] = 0
           /\ held'["properties"] = held["properties"]
        BY <1>0, <4>2, <2>1, OneCount, HandleNames DEF HandleCounts, Holds
      <4> QED
        BY <4>3, <1>0, <2>0, <3>1 DEF HandleCounts
    <3> QED
      BY <1>1, <3>1, <3>2, EmptyIsSeq
  <2>2. CASE walk' = [NoWalk EXCEPT !.for = who, !.stage = "done"] /\ held' = held
    <3>1. Shape(walk') /\ walk'.stage = "done" /\ walk'.out = <<>>
      BY <2>2 DEF Shape, NoWalk
    <3>2. HandleCounts(held', walk'.stage, Len(walk'.out))
      BY <1>0, <2>0, <2>2, <3>1 DEF HandleCounts
    <3> QED
      BY <1>1, <3>1, <3>2, EmptyIsSeq
  <2> QED
    BY <1>3, <2>1, <2>2 DEF Match
<1>4. CASE GetMatchingServices
  <2>1. CASE /\ held' = [held EXCEPT !["matching"] = @ - 1, !["iterator"] = @ + 1]
             /\ \E left : walk' = [walk EXCEPT !.stage = "iterating", !.left = left]
    <3>1. Shape(walk') /\ walk'.stage = "iterating" /\ walk'.out = walk.out
      BY <1>0, <2>1 DEF Shape
    <3>2. HandleCounts(held', walk'.stage, Len(walk'.out))
      <4> DEFINE f == [held EXCEPT !["matching"] = held["matching"] - 1]
      <4>1. held' = [f EXCEPT !["iterator"] = f["iterator"] + 1]
        BY <2>1
      <4> HIDE DEF f
      <4>2. "matching" \in Handles /\ "iterator" \in Handles
        BY DEF Handles
      <4>3. /\ f = [h \in Handles |-> f[h]] /\ f["matching"] = held["matching"] - 1
            /\ \A h \in Handles \ {"matching"} : f[h] = held[h]
        BY <1>0, <4>2, OneCount DEF HandleCounts, f
      <4>4. /\ held' = [h \in Handles |-> held'[h]] /\ held'["iterator"] = f["iterator"] + 1
            /\ \A h \in Handles \ {"iterator"} : held'[h] = f[h]
        BY <4>1, <4>2, <4>3, OneCount
      <4>5. walk.stage = "matching"
        BY <1>4 DEF GetMatchingServices
      <4> QED
        BY <1>0, <3>1, <4>3, <4>4, <4>5, HandleNames DEF HandleCounts
    <3> QED
      BY <1>1, <3>1, <3>2 DEF WalkInv
  <2>2. CASE walk' = [walk EXCEPT !.stage = "done"] /\ Holds("matching", -1)
    <3>1. Shape(walk') /\ walk'.stage = "done" /\ walk'.out = walk.out
      BY <1>0, <2>2 DEF Shape
    <3>2. HandleCounts(held', walk'.stage, Len(walk'.out))
      <4>1. held' = [held EXCEPT !["matching"] = held["matching"] + -1] /\ walk.stage = "matching"
        BY <1>4, <2>2 DEF GetMatchingServices, Holds
      <4>2. held["matching"] = 1 /\ held["iterator"] = 0 /\ held["entry"] = 0
        BY <1>0, <4>1 DEF HandleCounts
      <4>3. /\ held' = [h \in Handles |-> held'[h]]
           /\ held'["matching"] = 0 /\ held'["iterator"] = 0 /\ held'["entry"] = 0
           /\ held'["properties"] = held["properties"]
        BY <1>0, <4>2, <4>1, OneCount, HandleNames DEF HandleCounts
      <4> QED
        BY <4>3, <1>0, <3>1 DEF HandleCounts
    <3> QED
      BY <1>1, <3>1, <3>2 DEF WalkInv
  <2> QED
    BY <1>4, <2>1, <2>2 DEF GetMatchingServices
<1>5. CASE IteratorNext
  <2>1. walk.stage = "iterating" /\ held' = [held EXCEPT !["entry"] = @ + 1]
    BY <1>5 DEF IteratorNext, Holds
  <2>2. Shape(walk') /\ walk'.stage = "entry" /\ walk'.out = walk.out
    BY <1>0, <1>5 DEF IteratorNext, Shape
  <2>3. HandleCounts(held', walk'.stage, Len(walk'.out))
    <3>1. held["matching"] = 0 /\ held["iterator"] = 1 /\ held["entry"] = 0
      BY <1>0, <2>1 DEF HandleCounts
    <3>2. /\ held' = [h \in Handles |-> held'[h]]
         /\ held'["matching"] = 0 /\ held'["iterator"] = 1 /\ held'["entry"] = 1
         /\ held'["properties"] = held["properties"]
      BY <1>0, <3>1, <2>1, OneCount, HandleNames DEF HandleCounts
    <3> QED
      BY <3>2, <1>0, <2>2 DEF HandleCounts
  <2> QED
    BY <1>1, <2>2, <2>3 DEF WalkInv
<1>6. CASE CreateProperties
  <2>0. walk.stage = "entry"
    BY <1>6 DEF CreateProperties
  <2>1. CASE /\ held' = [held EXCEPT !["entry"] = @ - 1, !["properties"] = @ + 1]
             /\ walk' = [walk EXCEPT !.stage = "iterating", !.entry = 0, !.out = Append(@, walk.entry)]
    <3>1. Shape(walk') /\ walk'.stage = "iterating" /\ walk'.out = Append(walk.out, walk.entry)
      BY <1>0, <2>1 DEF Shape
    <3>2. IsSeq(walk'.out) /\ Len(walk'.out) = Len(walk.out) + 1
      BY <3>1, AppendIsSeq DEF WalkInv
    <3>3. HandleCounts(held', walk'.stage, Len(walk'.out))
      <4> DEFINE f == [held EXCEPT !["entry"] = held["entry"] - 1]
      <4>1. held' = [f EXCEPT !["properties"] = f["properties"] + 1]
        BY <2>1
      <4> HIDE DEF f
      <4>2. "entry" \in Handles /\ "properties" \in Handles
        BY DEF Handles
      <4>3. /\ f = [h \in Handles |-> f[h]] /\ f["entry"] = held["entry"] - 1
            /\ \A h \in Handles \ {"entry"} : f[h] = held[h]
        BY <1>0, <4>2, OneCount DEF HandleCounts, f
      <4>4. /\ held' = [h \in Handles |-> held'[h]] /\ held'["properties"] = f["properties"] + 1
            /\ \A h \in Handles \ {"properties"} : held'[h] = f[h]
        BY <4>1, <4>2, <4>3, OneCount
      <4>5. held["matching"] = 0 /\ held["iterator"] = 1 /\ held["entry"] = 1
            /\ held["properties"] = Len(walk.out)
        BY <1>0, <2>0 DEF HandleCounts
      <4>6. held'["matching"] = 0 /\ held'["iterator"] = 1 /\ held'["entry"] = 0
        BY <4>3, <4>4, <4>5, HandleNames
      <4>7. held'["properties"] = Len(walk'.out)
        BY <3>2, <4>3, <4>4, <4>5, HandleNames
      <4> QED
        BY <3>1, <4>4, <4>6, <4>7 DEF HandleCounts
    <3> QED
      BY <1>1, <3>1, <3>2, <3>3
  <2>2. CASE /\ Holds("entry", -1)
             /\ walk' = [walk EXCEPT !.stage = "iterating", !.entry = 0]
    <3>1. Shape(walk') /\ walk'.stage = "iterating" /\ walk'.out = walk.out
      BY <1>0, <2>2 DEF Shape
    <3>2. HandleCounts(held', walk'.stage, Len(walk'.out))
      <4>2. held["matching"] = 0 /\ held["iterator"] = 1 /\ held["entry"] = 1
        BY <1>0, <2>0 DEF HandleCounts
      <4>3. /\ held' = [h \in Handles |-> held'[h]]
           /\ held'["matching"] = 0 /\ held'["iterator"] = 1 /\ held'["entry"] = 0
           /\ held'["properties"] = held["properties"]
        BY <1>0, <4>2, <2>2, OneCount, HandleNames DEF HandleCounts, Holds
      <4> QED
        BY <4>3, <1>0, <3>1 DEF HandleCounts
    <3> QED
      BY <1>1, <3>1, <3>2 DEF WalkInv
  <2> QED
    BY <1>6, <2>1, <2>2 DEF CreateProperties
<1>7. CASE IteratorEnds
  <2>1. walk.stage = "iterating" /\ held' = [held EXCEPT !["iterator"] = @ + -1]
    BY <1>7 DEF IteratorEnds, Holds
  <2>2. Shape(walk') /\ walk'.stage = "done" /\ walk'.out = walk.out
    BY <1>0, <1>7 DEF IteratorEnds, Shape
  <2>3. HandleCounts(held', walk'.stage, Len(walk'.out))
    <3>1. held["matching"] = 0 /\ held["iterator"] = 1 /\ held["entry"] = 0
      BY <1>0, <2>1 DEF HandleCounts
    <3>2. /\ held' = [h \in Handles |-> held'[h]]
         /\ held'["matching"] = 0 /\ held'["iterator"] = 0 /\ held'["entry"] = 0
         /\ held'["properties"] = held["properties"]
      BY <1>0, <3>1, <2>1, OneCount, HandleNames DEF HandleCounts
    <3> QED
      BY <3>2, <1>0, <2>2 DEF HandleCounts
  <2> QED
    BY <1>1, <2>2, <2>3 DEF WalkInv
<1>8. CASE ConnectDone \/ DvfsDone \/ CollectDone
  <2>1. walk.stage = "done" /\ walk' = NoWalk /\ held' = [held EXCEPT !["properties"] = 0]
    BY <1>8 DEF ConnectDone, DvfsDone, CollectDone, Dropped
  <2>2. HandleCounts(held', walk'.stage, Len(walk'.out))
    <3>1. held["matching"] = 0 /\ held["iterator"] = 0 /\ held["entry"] = 0
      BY <1>0, <2>1 DEF HandleCounts
    <3>2. /\ held' = [h \in Handles |-> held'[h]]
         /\ held'["matching"] = 0 /\ held'["iterator"] = 0 /\ held'["entry"] = 0
         /\ held'["properties"] = 0
      BY <1>0, <3>1, <2>1, OneCount, HandleNames DEF HandleCounts
    <3> QED
      BY <3>2, <2>1, NewWalk, EmptyIsSeq DEF HandleCounts
  <2> QED
    BY <1>1, <1>2, <2>1, <2>2, NewWalk, EmptyIsSeq
<1>9. CASE UNCHANGED <<walk, held>>
  BY <1>9 DEF WalkInv, HandlesBalanced
<1> QED
  BY <1>3, <1>4, <1>5, <1>6, <1>7, <1>8, <1>9 DEF RegistryNext, ServiceToggles, registryVars

\* Whichever call of a registry walk is refused and whichever driver leaves during
\* it: every io_object_t and every dictionary is given back exactly once
\* (matching_properties and its callers), for any number of services.
THEOREM WalkReleasesAll == RegistryInit /\ [][RegistryNext]_registryVars => []HandlesBalanced
<1>1. RegistryInit => WalkInv
  <2> SUFFICES ASSUME RegistryInit PROVE WalkInv
    OBVIOUS
  <2>1. walk = NoWalk /\ held = [h \in Handles |-> 0]
    BY DEF RegistryInit
  <2>2. HandleCounts(held, walk.stage, Len(walk.out))
    BY <2>1, NewWalk, EmptyIsSeq DEF HandleCounts, Handles
  <2> QED
    BY <2>1, <2>2, NewWalk, EmptyIsSeq, HandlesAre DEF WalkInv, HandlesBalanced
<1>2. WalkInv => HandlesBalanced
  BY DEF WalkInv
<1> QED
  BY <1>1, <1>2, WalkStep, PTL


-----------------------------------------------------------------------------
(* AppleGpu: what the row shows.                                           *)

\* Factors: a larger one makes a larger product.
LEMMA ProductsGrow ==
  ASSUME NEW x \in Nat, NEW y \in Nat, NEW b \in Nat, x <= y
  PROVE  x * b \in Nat /\ y * b \in Nat /\ x * b <= y * b
<1>1. PICK d \in Nat : y = x + d
  <2>1. y - x \in Nat /\ y = x + (y - x)
    OBVIOUS
  <2> QED
    BY <2>1
<1>2. (x + d) * b = x * b + d * b /\ d * b \in Nat /\ x * b \in Nat
  OBVIOUS
<1> QED
  BY <1>1, <1>2

\* A quotient lies where the multiples of the divisor around the number put it.
LEMMA Quotient ==
  ASSUME NEW a \in Nat, NEW b \in Nat, b > 0
  PROVE  /\ a \div b \in Nat /\ (a \div b) * b <= a /\ a < ((a \div b) + 1) * b
         /\ \A n \in Nat : n * b <= a => n <= a \div b
         /\ \A n \in Nat : a <= n * b => a \div b <= n
<1>1. a \div b \in Nat /\ a % b \in Nat /\ a % b < b /\ a = b * (a \div b) + (a % b)
  OBVIOUS
<1>2. PICK q \in Nat : q = a \div b
  BY <1>1
<1>3. q * b <= a /\ a < (q + 1) * b
  <2>1. b * q = q * b /\ (q + 1) * b = q * b + b /\ q * b \in Nat
    OBVIOUS
  <2> QED
    BY <1>1, <1>2, <2>1
<1>4. ASSUME NEW n \in Nat, n * b <= a PROVE n <= q
  <2> SUFFICES ASSUME q + 1 <= n PROVE FALSE
    OBVIOUS
  <2>1. (q + 1) * b <= n * b /\ (q + 1) * b \in Nat /\ n * b \in Nat
    BY ProductsGrow
  <2> QED
    BY <1>3, <1>4, <2>1
<1>5. ASSUME NEW n \in Nat, a <= n * b PROVE q <= n
  <2> SUFFICES ASSUME n + 1 <= q PROVE FALSE
    OBVIOUS
  <2>1. (n + 1) * b <= q * b /\ (n + 1) * b \in Nat /\ q * b \in Nat
    BY ProductsGrow
  <2>2. (n + 1) * b = n * b + b
    OBVIOUS
  <2> QED
    BY <1>3, <1>5, <2>1, <2>2
<1> QED
  BY <1>2, <1>3, <1>4, <1>5

\* A bounded set of numbers has a largest.
LEMMA Largest ==
  ASSUME NEW S \in SUBSET Nat, S # {}, NEW n \in Nat, \A x \in S : x <= n
  PROVE  \E x \in S : \A y \in S : y <= x
<1> DEFINE T == {m \in Nat : \E x \in S : m = n - x}
<1>1. T \in SUBSET Nat /\ T # {}
  <2>1. PICK x \in S : TRUE
    OBVIOUS
  <2>2. n - x \in T
    BY <2>1
  <2> QED
    BY <2>2
<1>2. PICK m \in T : \A k \in T : m <= k
  <2> HIDE DEF T
  <2> QED
    BY <1>1, Smallest
<1>3. PICK x \in S : m = n - x
  OBVIOUS
<1>4. \A y \in S : n - y \in T
  OBVIOUS
<1>5. ASSUME NEW y \in S PROVE y <= x
  <2>1. m <= n - y
    BY <1>2, <1>4
  <2> QED
    BY <1>3, <2>1
<1> QED
  BY <1>5

-----------------------------------------------------------------------------

\* The sum over up to four shares, written out.
Share(g, S, k) == IF k \in S THEN g[k] ELSE 0
Four(g, S) == Share(g, S, 1) + Share(g, S, 2) + Share(g, S, 3) + Share(g, S, 4)

\* How many shares there are.
HowMany(S) == Four([k \in 1..4 |-> 1], S)

\* One share less.
LEMMA FourLess ==
  ASSUME NEW g, NEW S \in SUBSET (1..4), \A k \in S : g[k] \in Nat, NEW x \in S
  PROVE  Four(g, S) = g[x] + Four(g, S \ {x}) /\ Four(g, S \ {x}) \in Nat
<1> DEFINE R == S \ {x}
<1>1. \A k \in 1..4 : Share(g, R, k) = IF k = x THEN 0 ELSE Share(g, S, k)
  BY DEF Share
<1>2. \A k \in 1..4 : Share(g, R, k) \in Nat /\ Share(g, S, k) \in Nat
  BY DEF Share
<1>3. Share(g, S, x) = g[x] /\ g[x] \in Nat
  BY DEF Share
<1>4. x = 1 \/ x = 2 \/ x = 3 \/ x = 4
  OBVIOUS
<1> HIDE DEF R
<1>5. /\ Share(g, R, 1) = IF 1 = x THEN 0 ELSE Share(g, S, 1)
      /\ Share(g, R, 2) = IF 2 = x THEN 0 ELSE Share(g, S, 2)
      /\ Share(g, R, 3) = IF 3 = x THEN 0 ELSE Share(g, S, 3)
      /\ Share(g, R, 4) = IF 4 = x THEN 0 ELSE Share(g, S, 4)
      /\ Share(g, S, 1) \in Nat /\ Share(g, S, 2) \in Nat /\ Share(g, S, 3) \in Nat /\ Share(g, S, 4) \in Nat
  BY <1>1, <1>2
<1>6. Four(g, S) = g[x] + Four(g, R) /\ Four(g, R) \in Nat
  BY <1>3, <1>4, <1>5 DEF Four
<1> QED
  BY <1>6 DEF R

\* it is the recursion of SumFunctionOnSet.
Totals(it, g, S) ==
  it = [s \in SUBSET S |-> IF s = {} THEN 0
                           ELSE LET x == CHOOSE x \in s : TRUE IN g[x] + it[s \ {x}]]

\* The community modules' sum is that sum.
LEMMA SumOfFour ==
  ASSUME NEW g, NEW S \in SUBSET (1..4), \A k \in S : g[k] \in Nat
  PROVE  SumFunctionOnSet(g, S) = Four(g, S) /\ Four(g, S) \in Nat
<1> DEFINE it == CHOOSE f : Totals(f, g, S)
           sol == [s \in SUBSET S |-> Four(g, s)]
           First(s) == CHOOSE x \in s : TRUE
<1>1. \A s \in SUBSET S : s # {} => First(s) \in s
  OBVIOUS
<1>2. ASSUME NEW s \in SUBSET S, s # {}
      PROVE  Four(g, s) = g[First(s)] + Four(g, s \ {First(s)}) /\ Four(g, s \ {First(s)}) \in Nat
  <2>1. PICK x \in s : x = First(s)
    BY <1>1, <1>2
  <2>2. s \in SUBSET (1..4) /\ \A k \in s : g[k] \in Nat
    OBVIOUS
  <2>3. Four(g, s) = g[x] + Four(g, s \ {x}) /\ Four(g, s \ {x}) \in Nat
    BY <2>2, FourLess
  <2> QED
    BY <2>1, <2>3
<1>3. Four(g, {}) = 0
  BY DEF Four, Share
<1>4. Totals(sol, g, S)
  <2>1. \A s \in SUBSET S : sol[s] = IF s = {} THEN 0 ELSE g[First(s)] + sol[s \ {First(s)}]
    <3> TAKE s \in SUBSET S
    <3>1. sol[s] = Four(g, s) /\ sol[s \ {First(s)}] = Four(g, s \ {First(s)})
      OBVIOUS
    <3> HIDE DEF sol, First
    <3> QED
      BY <1>2, <1>3, <3>1
  <2>2. sol = [s \in SUBSET S |-> sol[s]]
    OBVIOUS
  <2> HIDE DEF sol
  <2> QED
    BY <2>1, <2>2 DEF Totals
<1>5. Totals(it, g, S)
  <2> HIDE DEF sol
  <2> QED
    BY <1>4
<1>6. SumFunctionOnSet(g, S) = it[S]
  BY DEF SumFunctionOnSet, FoldFunctionOnSet, MapThenFoldSet, Totals
<1> HIDE DEF it, sol
<1>7. \A s \in SUBSET S : it[s] = IF s = {} THEN 0 ELSE g[First(s)] + it[s \ {First(s)}]
  BY <1>5 DEF Totals
<1> HIDE DEF First
<1> DEFINE Good(n) == \A s \in SUBSET S : HowMany(s) = n => it[s] = Four(g, s)
           Goods == {n \in Nat : Good(n)}
<1>8. ASSUME NEW s \in SUBSET S, s # {} PROVE HowMany(s) = 1 + HowMany(s \ {First(s)}) /\ HowMany(s \ {First(s)}) \in Nat
  <2> DEFINE ones == [k \in 1..4 |-> 1]
  <2>1. \A k \in 1..4 : ones[k] = 1
    OBVIOUS
  <2>2. PICK x \in s : x = First(s)
    BY <1>1, <1>8
  <2>3. s \in SUBSET (1..4) /\ \A k \in s : ones[k] \in Nat
    OBVIOUS
  <2>4. ones[x] = 1
    OBVIOUS
  <2> HIDE DEF ones
  <2>5. Four(ones, s) = ones[x] + Four(ones, s \ {x}) /\ Four(ones, s \ {x}) \in Nat
    BY <2>3, FourLess
  <2> QED
    BY <2>2, <2>4, <2>5 DEF HowMany, ones
<1>9. 0 \in Goods
  <2> SUFFICES ASSUME NEW s \in SUBSET S, HowMany(s) = 0 PROVE it[s] = Four(g, s)
    OBVIOUS
  <2>1. s # {} => HowMany(s) = 1 + HowMany(s \ {First(s)}) /\ HowMany(s \ {First(s)}) \in Nat
    BY <1>8, Zenon
  <2>2. s = {}
    BY <2>1
  <2> QED
    BY <1>3, <1>7, <2>2
<1>10. ASSUME NEW n \in Nat, n \in Goods PROVE n + 1 \in Goods
  <2> SUFFICES ASSUME NEW s \in SUBSET S, HowMany(s) = n + 1 PROVE it[s] = Four(g, s)
    OBVIOUS
  <2>1. HowMany({}) = 0
    BY DEF HowMany, Four, Share
  <2>2. s # {}
    <3> SUFFICES ASSUME s = {} PROVE FALSE
      OBVIOUS
    <3>1. HowMany(s) = 0
      BY <2>1, Zenon
    <3> QED
      BY <3>1
  <2>3. HowMany(s \ {First(s)}) = n /\ s \ {First(s)} \in SUBSET S
    <3>1. HowMany(s) = 1 + HowMany(s \ {First(s)}) /\ HowMany(s \ {First(s)}) \in Nat
      BY <1>8, <2>2, Zenon
    <3>2. PICK m \in Nat : m = HowMany(s \ {First(s)})
      BY <3>1
    <3>3. m = n
      BY <3>1, <3>2
    <3>4. s \ {First(s)} \in SUBSET S
      OBVIOUS
    <3> QED
      BY <3>2, <3>3, <3>4, Zenon
  <2>4. it[s \ {First(s)}] = Four(g, s \ {First(s)})
    BY <1>10, <2>3
  <2> QED
    BY <1>2, <1>7, <2>2, <2>4
<1> HIDE DEF Goods, Good
<1>11. \A n \in Nat : n \in Goods
  BY <1>9, <1>10, SetInduction
<1>12. HowMany(S) \in Nat /\ Four(g, S) \in Nat
  <2>1. \A k \in 1..4 : Share([j \in 1..4 |-> 1], S, k) \in Nat /\ Share(g, S, k) \in Nat
    BY DEF Share
  <2>2. 1 \in 1..4 /\ 2 \in 1..4 /\ 3 \in 1..4 /\ 4 \in 1..4
    OBVIOUS
  <2> QED
    BY <2>1, <2>2 DEF HowMany, Four
<1>13. S \in SUBSET S
  OBVIOUS
<1>14. it[S] = Four(g, S)
  BY <1>11, <1>12, <1>13 DEF Goods, Good
<1> QED
  BY <1>6, <1>12, <1>14

\* A sum is no less than the sum over fewer shares.
LEMMA FourOfFewer ==
  ASSUME NEW g, NEW S \in SUBSET (1..4), \A k \in S : g[k] \in Nat, NEW R \in SUBSET S
  PROVE  Four(g, R) <= Four(g, S) /\ Four(g, R) \in Nat /\ Four(g, S) \in Nat
<1>1. \A k \in 1..4 : Share(g, R, k) \in Nat /\ Share(g, S, k) \in Nat /\ Share(g, R, k) <= Share(g, S, k)
  BY DEF Share
<1>2. /\ Share(g, R, 1) \in Nat /\ Share(g, S, 1) \in Nat /\ Share(g, R, 1) <= Share(g, S, 1)
      /\ Share(g, R, 2) \in Nat /\ Share(g, S, 2) \in Nat /\ Share(g, R, 2) <= Share(g, S, 2)
      /\ Share(g, R, 3) \in Nat /\ Share(g, S, 3) \in Nat /\ Share(g, R, 3) <= Share(g, S, 3)
      /\ Share(g, R, 4) \in Nat /\ Share(g, S, 4) \in Nat /\ Share(g, R, 4) <= Share(g, S, 4)
  BY <1>1
<1> QED
  BY <1>2 DEF Four

\* Weights between two bounds make a weighted sum between the same multiples of the sum.
LEMMA FourWeighted ==
  ASSUME NEW g, NEW w, NEW A \in SUBSET (1..4), NEW D \in SUBSET (1..4), NEW lo \in Nat, NEW hi \in Nat,
         \A k \in A : g[k] \in Nat,
         \A k \in 1..4 : /\ Share(w, D, k) \in Nat
                        /\ Share(g, A, k) * lo <= Share(w, D, k) /\ Share(w, D, k) <= Share(g, A, k) * hi
  PROVE  Four(g, A) * lo <= Four(w, D) /\ Four(w, D) <= Four(g, A) * hi /\ Four(w, D) \in Nat
<1> DEFINE G(k) == Share(g, A, k)
           W(k) == Share(w, D, k)
<1>1. \A k \in 1..4 : G(k) \in Nat
  BY DEF Share
<1>2. PICK g1 \in Nat, g2 \in Nat, g3 \in Nat, g4 \in Nat : g1 = G(1) /\ g2 = G(2) /\ g3 = G(3) /\ g4 = G(4)
  <2>1. G(1) \in Nat /\ G(2) \in Nat /\ G(3) \in Nat /\ G(4) \in Nat
    BY <1>1
  <2> QED
    BY <2>1
<1>3. PICK w1 \in Nat, w2 \in Nat, w3 \in Nat, w4 \in Nat : w1 = W(1) /\ w2 = W(2) /\ w3 = W(3) /\ w4 = W(4)
  <2>1. W(1) \in Nat /\ W(2) \in Nat /\ W(3) \in Nat /\ W(4) \in Nat
    OBVIOUS
  <2> QED
    BY <2>1
<1>4. /\ g1 * lo <= w1 /\ w1 <= g1 * hi /\ g2 * lo <= w2 /\ w2 <= g2 * hi
      /\ g3 * lo <= w3 /\ w3 <= g3 * hi /\ g4 * lo <= w4 /\ w4 <= g4 * hi
  <2>1. 1 \in 1..4 /\ 2 \in 1..4 /\ 3 \in 1..4 /\ 4 \in 1..4
    OBVIOUS
  <2> QED
    BY <1>2, <1>3, <2>1
<1>5. \A x \in Nat : (g1 + g2 + g3 + g4) * x = g1 * x + g2 * x + g3 * x + g4 * x
  OBVIOUS
<1>6. \A a, x \in Nat : a * x \in Nat
  OBVIOUS
<1>7. /\ (g1 + g2 + g3 + g4) * lo <= w1 + w2 + w3 + w4
      /\ w1 + w2 + w3 + w4 <= (g1 + g2 + g3 + g4) * hi
  BY <1>4, <1>5, <1>6
<1>8. Four(g, A) = g1 + g2 + g3 + g4 /\ Four(w, D) = w1 + w2 + w3 + w4
  BY <1>2, <1>3 DEF Four
<1> QED
  BY <1>7, <1>8

\* parse_dvfs_table: clocks, none above what is plausible.
LEMMA TableFacts ==
  ASSUME NEW b \in Blobs
  PROVE  /\ ParseDvfsTable(b) \in Seq(Nat)
         /\ \A k \in DOMAIN ParseDvfsTable(b) : ParseDvfsTable(b)[k] <= MaxClock
<1> DEFINE t == [k \in DOMAIN b.hz |-> (b.hz[k] + Mhz \div 2) \div Mhz]
<1>1. b.hz \in Seq(Nat) /\ Mhz \in Nat /\ Mhz > 0
  BY AppleAssumption
<1>2. ASSUME NEW k \in DOMAIN b.hz PROVE (b.hz[k] + Mhz \div 2) \div Mhz \in Nat
  <2>1. b.hz[k] \in Nat /\ Mhz \div 2 \in Nat
    BY <1>1, Quotient
  <2>2. PICK a \in Nat : a = b.hz[k] + Mhz \div 2
    BY <2>1
  <2>3. a \div Mhz \in Nat
    BY <1>1, Quotient
  <2> QED
    BY <2>2, <2>3
<1>3. t \in [1..Len(b.hz) -> Nat] /\ Len(b.hz) \in Nat
  BY <1>1, <1>2
<1>4. t \in Seq(Nat)
  <2> HIDE DEF t
  <2>1. \A n \in Nat : \A f \in [1..n -> Nat] : f \in Seq(Nat)
    OBVIOUS
  <2> QED
    BY <1>3, <2>1
<1>5. <<>> \in Seq(Nat) /\ DOMAIN <<>> = {}
  OBVIOUS
<1>6. ParseDvfsTable(b) = IF b.ragged \/ \E k \in DOMAIN t : t[k] > MaxClock THEN <<>> ELSE t
  BY DEF ParseDvfsTable
<1>7. \A k \in DOMAIN t : t[k] \in Nat
  BY <1>3
<1> HIDE DEF t
<1>8. CASE ParseDvfsTable(b) = <<>>
  BY <1>5, <1>8
<1>9. CASE ParseDvfsTable(b) = t /\ ~ \E k \in DOMAIN t : t[k] > MaxClock
  BY <1>4, <1>7, <1>9, AppleAssumption
<1> QED
  BY <1>6, <1>8, <1>9

\* A state's clock is an entry of the table, or None.
LEMMA ClockFacts ==
  ASSUME NEW table \in Seq(Nat), NEW st
  PROVE  \/ ClockOf(st, table) = None
         \/ ClockOf(st, table) \in Nat /\ \E k \in DOMAIN table : table[k] = ClockOf(st, table)
<1>1. CASE st \in 0..(Len(table) - 1)
  <2>1. st + 1 \in 1..Len(table) /\ 1..Len(table) = DOMAIN table
    BY <1>1
  <2>2. ClockOf(st, table) = table[st + 1] /\ table[st + 1] \in Nat
    BY <1>1, <2>1 DEF ClockOf
  <2> QED
    BY <2>1, <2>2
<1> QED
  BY <1>1 DEF ClockOf

\* What decode makes of a channel: up to four states and their ticks.
Decoded(res) == DOMAIN res \in SUBSET (1..4) /\ \A k \in DOMAIN res : res[k].ticks \in Nat

\* The active clocks of a table.
Clocks(table) == {table[k] : k \in DOMAIN table} \ {0}

\* The sums are sums, and the active share is part of the known one.
LEMMA SharesRan ==
  ASSUME NEW res, Decoded(res), NEW table \in Seq(Nat)
  PROVE  /\ Active(res, table) \in Nat /\ Known(res, table) \in Nat
         /\ Active(res, table) <= Known(res, table)
         /\ Active(res, table) = Four([k \in DOMAIN res |-> res[k].ticks],
                                      {k \in DOMAIN res : ClockOf(res[k].state, table) > 0})
<1> DEFINE D == DOMAIN res
           g == [k \in D |-> res[k].ticks]
           K == {k \in D : ClockOf(res[k].state, table) # None}
           A == {k \in D : ClockOf(res[k].state, table) > 0}
<1>1. D \in SUBSET (1..4) /\ \A k \in D : g[k] \in Nat
  BY DEF Decoded
<1>2. K \in SUBSET (1..4) /\ A \in SUBSET (1..4) /\ (\A k \in K : g[k] \in Nat) /\ (\A k \in A : g[k] \in Nat)
  BY <1>1
<1>3. A \in SUBSET K
  BY DEF None
<1>4. Active(res, table) = SumFunctionOnSet(g, A) /\ Known(res, table) = SumFunctionOnSet(g, K)
  BY DEF Active, Known, Ran
<1> HIDE DEF g, A, K, D
<1>5. SumFunctionOnSet(g, A) = Four(g, A) /\ SumFunctionOnSet(g, K) = Four(g, K)
  BY <1>2, SumOfFour
<1>6. Four(g, A) <= Four(g, K) /\ Four(g, A) \in Nat /\ Four(g, K) \in Nat
  BY <1>2, <1>3, FourOfFewer
<1> QED
  BY <1>4, <1>5, <1>6 DEF g, A, D

\* active_residency_pct: a percentage, when there is one.
LEMMA BusyIsPercent ==
  ASSUME NEW res, Decoded(res), NEW table \in Seq(Nat)
  PROVE  /\ BusyPct(res, table) = None \/ BusyPct(res, table) \in 0..100
         /\ (BusyPct(res, table) = None) <=> (Unnamed(res, table) \/ Known(res, table) = 0)
<1>1. PICK a \in Nat : a = Active(res, table)
  BY SharesRan
<1>2. PICK b \in Nat : b = Known(res, table)
  BY SharesRan
<1>3. a <= b
  BY <1>1, <1>2, SharesRan
<1>4. CASE Unnamed(res, table) \/ b = 0
  BY <1>2, <1>4 DEF BusyPct
<1>5. CASE ~(Unnamed(res, table) \/ b = 0)
  <2>1. BusyPct(res, table) = (a * 100) \div b
    BY <1>1, <1>2, <1>5 DEF BusyPct
  <2>2. b > 0 /\ a * 100 \in Nat /\ a * 100 <= 100 * b
    BY <1>3, <1>5
  <2>3. (a * 100) \div b \in Nat /\ (a * 100) \div b <= 100
    BY <2>2, Quotient
  <2>4. PICK q \in Nat : q = (a * 100) \div b /\ q <= 100
    BY <2>3
  <2>5. BusyPct(res, table) = q
    BY <2>1, <2>4
  <2>6. q \in 0..100 /\ q # None
    <3>1. \A n \in Nat : n <= 100 => n \in 0..100 /\ n # None
      BY DEF None
    <3> QED
      BY <2>4, <3>1, Zenon
  <2> QED
    BY <1>2, <1>5, <2>5, <2>6
<1> QED
  BY <1>4, <1>5

\* residency_weighted_clock_mhz: known with the busy share, zero with it, and between
\* the slowest and the fastest active clock.
LEMMA ClockIsBetween ==
  ASSUME NEW res, Decoded(res), NEW table \in Seq(Nat), \A k \in DOMAIN table : table[k] <= MaxClock
  PROVE  LET c == WeightedClock(res, table)
         IN  /\ c = None \/ c \in Nat
             /\ (c = None) <=> (Unnamed(res, table) \/ Known(res, table) = 0)
             /\ c > 0 => c \in Min(Clocks(table))..Max(Clocks(table))
             /\ c # None => (c = 0 <=> Active(res, table) = 0)
<1> DEFINE c == WeightedClock(res, table)
           D == DOMAIN res
           Of(k) == ClockOf(res[k].state, table)
           g == [k \in D |-> res[k].ticks]
           A == {k \in D : Of(k) > 0}
           w == [k \in D |-> IF Of(k) > 0 THEN res[k].ticks * Of(k) ELSE 0]
<1>1. PICK a \in Nat : a = Active(res, table)
  BY SharesRan
<1>2. CASE Unnamed(res, table) \/ Known(res, table) = 0
  <2>1. c = None /\ ~(c > 0)
    BY <1>2 DEF WeightedClock, None
  <2> QED
    BY <1>2, <2>1
<1>3. CASE ~(Unnamed(res, table) \/ Known(res, table) = 0) /\ a = 0
  <2>1. c = 0 /\ c # None
    BY <1>1, <1>3 DEF WeightedClock, None
  <2> QED
    BY <1>1, <1>3, <2>1
<1>4. CASE ~(Unnamed(res, table) \/ Known(res, table) = 0) /\ a # 0
  <2>1. D \in SUBSET (1..4) /\ A \in SUBSET D /\ A \in SUBSET (1..4)
    BY DEF Decoded
  <2>2. \A k \in D : res[k].ticks \in Nat /\ g[k] = res[k].ticks /\ w[k] = IF Of(k) > 0 THEN res[k].ticks * Of(k) ELSE 0
    BY DEF Decoded
  <2>3. \A k \in D : Of(k) \in Int /\ (Of(k) > 0 => Of(k) \in Nat /\ Of(k) \in Clocks(table))
    <3> TAKE k \in D
    <3>1. \/ Of(k) = None
          \/ Of(k) \in Nat /\ \E j \in DOMAIN table : table[j] = Of(k)
      BY ClockFacts
    <3> HIDE DEF Of
    <3> QED
      BY <3>1 DEF None, Clocks
  <2>4. a = Four(g, A)
    BY <1>1, SharesRan
  <2>5. c = SumFunctionOnSet(w, DOMAIN w) \div a
    BY <1>1, <1>4 DEF WeightedClock, SumFunction
  <2>6. DOMAIN w = D /\ \A k \in A : k \in D /\ Of(k) > 0
    OBVIOUS
  <2>7. \A k \in D : (k \in A) <=> (Of(k) > 0)
    OBVIOUS
  <2> HIDE DEF g, w, A, D, Of
  <2>8. A # {}
    <3> SUFFICES ASSUME A = {} PROVE FALSE
      OBVIOUS
    <3>1. Four(g, A) = 0
      BY DEF Four, Share
    <3> QED
      BY <1>4, <2>4, <3>1
  <2>9. PICK k0 \in A : k0 \in D /\ Of(k0) > 0 /\ Of(k0) \in Clocks(table)
    BY <2>3, <2>6, <2>8
  <2>10. Clocks(table) \in SUBSET Nat /\ Clocks(table) # {} /\ (\A x \in Clocks(table) : x <= MaxClock /\ x > 0)
    <3>1. \A x \in Clocks(table) : x \in Nat /\ x # 0 /\ x <= MaxClock
      BY DEF Clocks
    <3> QED
      BY <2>9, <3>1
  <2>11. PICK lo \in Nat : lo = Min(Clocks(table)) /\ lo > 0 /\ \A x \in Clocks(table) : lo <= x
    <3>1. \E x \in Clocks(table) : \A y \in Clocks(table) : x <= y
      BY <2>10, Smallest
    <3>2. Min(Clocks(table)) \in Clocks(table) /\ \A y \in Clocks(table) : Min(Clocks(table)) <= y
      BY <3>1 DEF Min
    <3> QED
      BY <2>10, <3>2
  <2>12. PICK hi \in Nat : hi = Max(Clocks(table)) /\ \A x \in Clocks(table) : x <= hi
    <3>1. MaxClock \in Nat
      BY AppleAssumption
    <3>2. \E x \in Clocks(table) : \A y \in Clocks(table) : y <= x
      BY <2>10, <3>1, Largest
    <3>3. \E x \in Clocks(table) : \A y \in Clocks(table) : x >= y
      BY <2>10, <3>2
    <3>4. Max(Clocks(table)) \in Clocks(table) /\ \A y \in Clocks(table) : Max(Clocks(table)) >= y
      BY <3>3 DEF Max
    <3> QED
      BY <2>10, <3>4
  <2>13. ASSUME NEW k \in 1..4
         PROVE  /\ Share(w, D, k) \in Nat
                /\ Share(g, A, k) * lo <= Share(w, D, k) /\ Share(w, D, k) <= Share(g, A, k) * hi
    <3>1. CASE k \in A
      <4>1. k \in D /\ Of(k) > 0
        BY <2>6, <3>1
      <4>2. PICK t \in Nat : t = res[k].ticks
        BY <2>2, <4>1
      <4>3. PICK x \in Nat : x = Of(k) /\ lo <= x /\ x <= hi
        BY <2>3, <2>11, <2>12, <4>1
      <4>4. Share(g, A, k) = t /\ Share(w, D, k) = t * x
        BY <2>2, <3>1, <4>1, <4>2, <4>3 DEF Share
      <4>5. lo * t <= x * t /\ x * t <= hi * t
        BY <4>3, ProductsGrow
      <4>6. lo * t = t * lo /\ x * t = t * x /\ hi * t = t * hi /\ t * x \in Nat
        OBVIOUS
      <4> QED
        BY <4>4, <4>5, <4>6
    <3>2. CASE k \notin A
      <4>1. Share(g, A, k) = 0 /\ Share(w, D, k) = 0
        BY <2>2, <2>7, <3>2 DEF Share
      <4>2. 0 * lo = 0 /\ 0 * hi = 0
        OBVIOUS
      <4> QED
        BY <4>1, <4>2
    <3> QED
      BY <3>1, <3>2
  <2>14. \A k \in A : g[k] \in Nat
    BY <2>2, <2>6
  <2>15. a * lo <= Four(w, D) /\ Four(w, D) <= a * hi /\ Four(w, D) \in Nat
    BY <2>1, <2>4, <2>13, <2>14, FourWeighted
  <2>16. SumFunctionOnSet(w, D) = Four(w, D)
    <3>1. \A k \in D : w[k] \in Nat
      <4> TAKE k \in D
      <4>1. k \in 1..4
        BY <2>1
      <4>2. Share(w, D, k) = w[k]
        BY DEF Share
      <4> QED
        BY <2>13, <4>1, <4>2
    <3> QED
      BY <2>1, <3>1, SumOfFour
  <2>17. PICK W \in Nat : W = Four(w, D) /\ lo * a <= W /\ W <= hi * a
    <3>1. a * lo = lo * a /\ a * hi = hi * a
      OBVIOUS
    <3> QED
      BY <2>15, <3>1
  <2>18. c = W \div a /\ a > 0
    BY <1>4, <2>5, <2>6, <2>16, <2>17
  <2>19. W \div a \in Nat /\ lo <= W \div a /\ W \div a <= hi
    BY <2>17, <2>18, Quotient
  <2>20. PICK q \in Nat : q = c /\ lo <= q /\ q <= hi
    BY <2>18, <2>19
  <2>21. q > 0 /\ q # None /\ q # 0 /\ q \in lo..hi
    BY <2>11, <2>20 DEF None
  <2> QED
    BY <1>1, <1>4, <2>11, <2>12, <2>20, <2>21
<1> QED
  BY <1>2, <1>3, <1>4

-----------------------------------------------------------------------------

\* RowSupported, of a row and a table.
Supported(r, table) ==
  /\ r.power # None \/ r.clock # None => r.window >= MinInterval
  /\ r.util # None => r.util \in 0..100
  /\ r.power # None /\ r.whole =>
       /\ r.power * r.window <= r.moved + Coarse - 1
       /\ (r.power + 1) * r.window > r.moved - Coarse
  /\ (r.clock = None) <=> (r.busy = None)
  /\ r.clock > 0 => r.clock \in Min(Clocks(table))..Max(Clocks(table))
  /\ r.clock # None => (r.clock = 0 <=> Active(r.residencies, table) = 0)

\* What the counters and the baseline are, which every reading is computed from.
Counters ==
  /\ now \in Nat /\ energy \in Nat /\ ticks \in [States -> Nat] /\ blob \in Blobs
  /\ previous # <<>> =>
       previous[1].at \in Nat /\ previous[1].energy \in Nat /\ previous[1].ticks \in [States -> Nat]

RowInv == Counters /\ RowSupported

\* That is what RowSupported says of the row.
LEMMA RowSupportedIs == RowSupported <=> Supported(row, ParseDvfsTable(blob))
  BY DEF RowSupported, Supported, Clocks

\* A row without an interval has nothing to support.
LEMMA EmptyRow ==
  ASSUME NEW driver \in {None, 101}, NEW table
  PROVE  Supported(BuildDevice(NoRow, driver), table)
<1> DEFINE r == BuildDevice(NoRow, driver)
<1>1. /\ r.power = None /\ r.clock = None /\ r.busy = None
      /\ r.util = IF driver # None THEN ClampPct(driver) ELSE None
  BY DEF BuildDevice, NoRow
<1>2. r.util = None \/ r.util = 100
  BY <1>1 DEF ClampPct, None
<1>3. ~(None > 0) /\ 100 \in 0..100
  BY DEF None
<1> HIDE DEF r
<1>4. Supported(r, table)
  BY <1>1, <1>2, <1>3 DEF Supported
<1> QED
  BY <1>4 DEF r

\* decode: the fine channel is exact; the coarse one is off by less than one of its units.
LEMMA EnergyMoved ==
  ASSUME NEW old, NEW new, old.energy \in Nat, new.energy \in Nat, NEW channels, NEW elapsed \in Nat, elapsed > 0
  PROVE  LET e == DecodeEnergy(channels, old, new)
             p == Watts(e.delta, e.unit, elapsed)
             used == new.energy - old.energy
         IN  p # None => /\ p \in Nat
                         /\ p * elapsed <= used + Coarse - 1
                         /\ (p + 1) * elapsed > used - Coarse
<1> DEFINE e == DecodeEnergy(channels, old, new)
           p == Watts(e.delta, e.unit, elapsed)
<1>1. PICK x \in Nat, y \in Nat, c \in Nat : x = old.energy /\ y = new.energy /\ c = Coarse /\ c > 0
  BY AppleAssumption
<1>2. \A u \in Nat : /\ u \div c \in Nat /\ (u \div c) * c <= u /\ u < (u \div c) * c + c
  <2> TAKE u \in Nat
  <2>1. u \div c \in Nat /\ (u \div c) * c <= u /\ u < ((u \div c) + 1) * c
    BY <1>1, Quotient
  <2>2. PICK q \in Nat : q = u \div c
    BY <2>1
  <2>3. (q + 1) * c = q * c + c
    OBVIOUS
  <2> QED
    BY <2>1, <2>2, <2>3
<1>3. ASSUME NEW d \in Nat, p = d \div elapsed, d <= (y - x) + c - 1, d > (y - x) - c
      PROVE  p \in Nat /\ p * elapsed <= (y - x) + c - 1 /\ (p + 1) * elapsed > (y - x) - c
  <2>1. d \div elapsed \in Nat /\ (d \div elapsed) * elapsed <= d /\ d < ((d \div elapsed) + 1) * elapsed
    BY Quotient
  <2>2. PICK q \in Nat : q = d \div elapsed /\ q * elapsed <= d /\ d < (q + 1) * elapsed
    BY <2>1
  <2>3. PICK m1 \in Nat, m2 \in Nat : m1 = q * elapsed /\ m2 = (q + 1) * elapsed
    OBVIOUS
  <2>4. m1 <= (y - x) + c - 1 /\ m2 > (y - x) - c
    BY <1>3, <2>2, <2>3
  <2> QED
    BY <1>3, <2>2, <2>3, <2>4
<1>4. ASSUME p # None PROVE p \in Nat /\ p * elapsed <= (y - x) + c - 1 /\ (p + 1) * elapsed > (y - x) - c
  <2>1. ~(e.delta < 0) /\ e.unit # None /\ p = (e.delta * e.unit) \div elapsed
    BY <1>4 DEF Watts
  <2>2. CASE "GPU Energy" \in channels
    <3>1. e.delta = y - x /\ e.unit = 1
      BY <1>1, <2>2 DEF DecodeEnergy
    <3>2. PICK d \in Nat : d = y - x
      BY <2>1, <3>1
    <3>3. e.delta * e.unit = d
      BY <3>1, <3>2
    <3>4. p = d \div elapsed
      BY <2>1, <3>3
    <3>5. d <= (y - x) + c - 1 /\ d > (y - x) - c
      BY <1>1, <3>2
    <3> HIDE DEF p, e
    <3> QED
      BY <1>3, <3>4, <3>5
  <2>3. CASE "GPU Energy" \notin channels /\ "GPU" \in channels
    <3>1. e.delta = (y \div c) - (x \div c) /\ e.unit = c
      BY <1>1, <2>3 DEF DecodeEnergy
    <3>2. PICK v \in Nat : v = y \div c /\ v * c <= y /\ y < v * c + c
      BY <1>2
    <3>3. PICK u \in Nat : u = x \div c /\ u * c <= x /\ x < u * c + c
      BY <1>2
    <3>4. PICK n \in Nat : n = v - u
      BY <2>1, <3>1, <3>2, <3>3
    <3>5. v = n + u
      BY <3>4
    <3>6. (n + u) * c = n * c + u * c /\ n * c \in Nat /\ u * c \in Nat
      OBVIOUS
    <3>7. PICK d \in Nat : d = n * c
      BY <3>6
    <3>8. d <= (y - x) + c - 1 /\ d > (y - x) - c
      <4>1. PICK z \in Nat : z = u * c
        BY <3>6
      <4>2. v * c = d + z
        BY <3>5, <3>6, <3>7, <4>1
      <4> QED
        BY <1>1, <3>2, <3>3, <4>1, <4>2
    <3>9. p = d \div elapsed
      <4>1. e.delta * e.unit = d
        BY <3>1, <3>2, <3>3, <3>4, <3>7
      <4> QED
        BY <2>1, <4>1
    <3> HIDE DEF p, e
    <3> QED
      BY <1>3, <3>8, <3>9
  <2>4. CASE "GPU Energy" \notin channels /\ "GPU" \notin channels
    BY <2>1, <2>4 DEF DecodeEnergy
  <2> QED
    BY <2>2, <2>3, <2>4
<1> QED
  BY <1>1, <1>4

\* decode, of two samples of the counters.
LEMMA ResidenciesDecoded ==
  ASSUME NEW old, old.ticks \in [States -> Nat], Counters
  PROVE  Decoded(DecodeResidencies(old, Current))
<1> DEFINE res == DecodeResidencies(old, Current)
           order == <<0, 1, 2, None>>
           D(k) == ticks[order[k]] - old.ticks[order[k]]
<1>1. CASE ~perf
  <2>1. res = <<>> /\ DOMAIN res = {}
    BY <1>1 DEF DecodeResidencies
  <2> QED
    BY <2>1 DEF Decoded
<1>2. CASE perf
  <2>1. res = [k \in 1..4 |-> [state |-> order[k], ticks |-> IF D(k) < 0 THEN 0 ELSE D(k)]]
    BY <1>2 DEF DecodeResidencies, Current
  <2>2. \A k \in 1..4 : order[k] \in States
    BY DEF States
  <2>3. \A k \in 1..4 : D(k) \in Int
    <3> TAKE k \in 1..4
    <3>1. order[k] \in States
      BY <2>2
    <3> HIDE DEF order
    <3>2. ticks[order[k]] \in Nat /\ old.ticks[order[k]] \in Nat
      BY <3>1 DEF Counters
    <3> QED
      BY <3>2
  <2> HIDE DEF D, order
  <2>4. DOMAIN res = 1..4 /\ \A k \in 1..4 : res[k].ticks = IF D(k) < 0 THEN 0 ELSE D(k)
    BY <2>1
  <2>5. \A k \in 1..4 : res[k].ticks \in Nat
    BY <2>3, <2>4
  <2> HIDE DEF res
  <2>6. Decoded(res)
    BY <2>4, <2>5 DEF Decoded
  <2> QED
    BY <2>6 DEF res
<1> QED
  BY <1>1, <1>2

\* An interval long enough supports every figure of its row.
LEMMA IntervalRow ==
  ASSUME Counters, NEW old, old.at \in Nat, old.energy \in Nat, old.ticks \in [States -> Nat],
         now - old.at >= MinInterval, NEW channels, NEW driver \in {None, 101}
  PROVE  Supported(BuildDevice(ReadInterval(old, channels), driver), ParseDvfsTable(blob))
<1> DEFINE table == ParseDvfsTable(blob)
           i == ReadInterval(old, channels)
           r == BuildDevice(i, driver)
           res == DecodeResidencies(old, Current)
           e == DecodeEnergy(channels, old, Current)
           wc == WeightedClock(res, table)
           bp == BusyPct(res, table)
<1>1. table \in Seq(Nat) /\ \A k \in DOMAIN table : table[k] <= MaxClock
  BY TableFacts DEF Counters
<1>2. Decoded(res)
  BY ResidenciesDecoded
<1>3. PICK elapsed \in Nat : elapsed = now - old.at /\ elapsed >= MinInterval /\ elapsed > 0
  BY AppleAssumption DEF Counters
<1>4. Current.energy = energy /\ Current.energy \in Nat
  BY DEF Current, Counters
<1>5. /\ i.window = elapsed /\ i.power = Watts(e.delta, e.unit, elapsed)
      /\ i.clock = (IF table = <<>> THEN None ELSE wc)
      /\ i.busy = (IF table = <<>> THEN None ELSE bp)
      /\ i.residencies = res /\ i.moved = energy - old.energy
  BY <1>3 DEF ReadInterval
<1>6. /\ r.window = i.window /\ r.power = i.power /\ r.clock = i.clock /\ r.busy = i.busy
      /\ r.residencies = i.residencies /\ r.moved = i.moved
      /\ r.util = (IF driver # None THEN ClampPct(driver) ELSE i.busy)
  BY DEF BuildDevice, ReadInterval
<1>7. LET p == Watts(e.delta, e.unit, elapsed)
          used == Current.energy - old.energy
      IN  p # None => /\ p \in Nat
                      /\ p * elapsed <= used + Coarse - 1
                      /\ (p + 1) * elapsed > used - Coarse
  <2> HIDE DEF e
  <2> QED
    BY <1>3, <1>4, EnergyMoved DEF e
<1>8. /\ wc = None \/ wc \in Nat
      /\ (wc = None) <=> (Unnamed(res, table) \/ Known(res, table) = 0)
      /\ wc > 0 => wc \in Min(Clocks(table))..Max(Clocks(table))
      /\ wc # None => (wc = 0 <=> Active(res, table) = 0)
  <2> HIDE DEF table, res
  <2> QED
    BY <1>1, <1>2, ClockIsBetween
<1>9. /\ bp = None \/ bp \in 0..100
      /\ (bp = None) <=> (Unnamed(res, table) \/ Known(res, table) = 0)
  <2> HIDE DEF table, res
  <2> QED
    BY <1>1, <1>2, BusyIsPercent
<1> HIDE DEF table, i, r, res, e, wc, bp
<1>10. r.util # None => r.util \in 0..100
  <2>1. CASE driver = 101
    BY <1>6, <2>1 DEF ClampPct, None
  <2>2. CASE driver = None
    BY <1>5, <1>6, <1>9, <2>2
  <2> QED
    BY <2>1, <2>2
<1>11. r.window >= MinInterval
  BY <1>3, <1>5, <1>6
<1>12. r.power # None /\ r.whole => /\ r.power * r.window <= r.moved + Coarse - 1
                                   /\ (r.power + 1) * r.window > r.moved - Coarse
  BY <1>4, <1>5, <1>6, <1>7
<1>13. /\ (r.clock = None) <=> (r.busy = None)
       /\ r.clock > 0 => r.clock \in Min(Clocks(table))..Max(Clocks(table))
       /\ r.clock # None => (r.clock = 0 <=> Active(r.residencies, table) = 0)
  <2>1. CASE table = <<>>
    <3>1. r.clock = None /\ r.busy = None /\ ~(None > 0)
      BY <1>5, <1>6, <2>1 DEF None
    <3> QED
      BY <3>1
  <2>2. CASE table # <<>>
    <3>1. r.clock = wc /\ r.busy = bp /\ r.residencies = res
      BY <1>5, <1>6, <2>2
    <3> QED
      BY <1>8, <1>9, <3>1
  <2> QED
    BY <2>1, <2>2
<1>14. Supported(r, table)
  BY <1>10, <1>11, <1>12, <1>13 DEF Supported
<1> QED
  BY <1>14 DEF r, table, i

\* Every step keeps the counters numbers and the row supported.
LEMMA RowStep == RowInv /\ [AppleNext]_appleVars => RowInv'
<1> SUFFICES ASSUME RowInv, [AppleNext]_appleVars PROVE RowInv'
  OBVIOUS
<1>0. Counters /\ RowSupported /\ Supported(row, ParseDvfsTable(blob))
  BY RowSupportedIs DEF RowInv
<1>1. ASSUME UNCHANGED <<row, blob>> PROVE RowSupported'
  BY <1>0, <1>1 DEF RowSupported
<1>2. ASSUME UNCHANGED blob, Supported(row', ParseDvfsTable(blob)) PROVE RowSupported'
  BY <1>2 DEF RowSupported, Supported, Clocks
<1>3. ASSUME UNCHANGED <<now, ticks, energy, blob, previous>> PROVE Counters'
  BY <1>0, <1>3 DEF Counters
<1>4. ASSUME UNCHANGED <<now, ticks, energy, blob>>, previous' = <<Current>> PROVE Counters'
  <2>1. previous'[1].at = now /\ previous'[1].energy = energy /\ previous'[1].ticks = ticks
    BY <1>4 DEF Current
  <2> QED
    BY <1>0, <1>4, <2>1 DEF Counters
<1>5. ASSUME NEW outcome, NEW p, NEW handed, OpenSampler(outcome, p, handed) PROVE RowInv'
  BY <1>1, <1>3, <1>5 DEF OpenSampler, RowInv
<1>6. ASSUME NEW driver \in {None, 101}, SampleRefused(driver) PROVE RowInv'
  BY <1>2, <1>3, <1>6, EmptyRow DEF SampleRefused, RowInv
<1>7. ASSUME NEW driver \in {None, 101}, SampleFirst(driver) PROVE RowInv'
  BY <1>2, <1>4, <1>7, EmptyRow DEF SampleFirst, RowInv
<1>8. ASSUME NEW driver \in {None, 101}, SampleTooSoon(driver) PROVE RowInv'
  BY <1>2, <1>3, <1>8, EmptyRow DEF SampleTooSoon, RowInv
<1>9. ASSUME NEW driver \in {None, 101}, NEW delta, NEW channels, Sample(delta, channels, driver) PROVE RowInv'
  <2>1. /\ UNCHANGED <<now, ticks, energy, blob>> /\ previous' = <<Current>>
        /\ previous # <<>> /\ now - previous[1].at >= MinInterval
        /\ row' = BuildDevice(IF delta THEN ReadInterval(previous[1], channels) ELSE NoRow, driver)
    BY <1>9 DEF Sample
  <2>2. previous[1].at \in Nat /\ previous[1].energy \in Nat /\ previous[1].ticks \in [States -> Nat]
    BY <1>0, <2>1 DEF Counters
  <2>3. CASE delta
    <3>1. row' = BuildDevice(ReadInterval(previous[1], channels), driver)
      BY <2>1, <2>3
    <3>2. Supported(row', ParseDvfsTable(blob))
      BY <1>0, <2>1, <2>2, <3>1, IntervalRow
    <3> QED
      BY <1>2, <1>4, <2>1, <3>2 DEF RowInv
  <2>4. CASE ~delta
    <3>1. row' = BuildDevice(NoRow, driver)
      BY <2>1, <2>4
    <3>2. Supported(row', ParseDvfsTable(blob))
      BY <3>1, EmptyRow
    <3> QED
      BY <1>2, <1>4, <2>1, <3>2 DEF RowInv
  <2> QED
    BY <2>3, <2>4
<1>10. CASE DropSampler
  BY <1>0, <1>1, <1>10 DEF DropSampler, RowInv, Counters
<1>11. ASSUME NEW s \in States, Spend(s) PROVE RowInv'
  <2>1. UNCHANGED <<row, blob, previous>> /\ now' = now + 1 /\ ticks' = [ticks EXCEPT ![s] = @ + 1]
        /\ energy' = energy + (IF s = 0 THEN 0 ELSE 1)
    BY <1>11 DEF Spend
  <2>2. ticks' \in [States -> Nat] /\ now' \in Nat /\ energy' \in Nat
    BY <1>0, <2>1 DEF Counters
  <2> QED
    BY <1>0, <1>1, <2>1, <2>2 DEF RowInv, Counters
<1>12. CASE ResetCounters
  <2>1. UNCHANGED <<row, blob, previous, now>> /\ ticks' \in [States -> Nat] /\ energy' \in Nat
    BY <1>12 DEF ResetCounters
  <2> QED
    BY <1>0, <1>1, <2>1 DEF RowInv, Counters
<1>13. CASE UNCHANGED appleVars
  BY <1>1, <1>3, <1>13 DEF appleVars, RowInv
<1> QED
  BY <1>5, <1>6, <1>7, <1>8, <1>9, <1>10, <1>11, <1>12, <1>13 DEF AppleNext, Collects

\* The row shows no figure its interval does not support, for every firmware table, every
\* channel and every reset of the driver's counters (residency_weighted_clock_mhz,
\* active_residency_pct, energy_delta_to_watts, build_device).
THEOREM FiguresSupported == AppleInit /\ [][AppleNext]_appleVars => []RowSupported
<1>1. AppleInit => RowInv
  <2> SUFFICES ASSUME AppleInit PROVE RowInv
    OBVIOUS
  <2>1. Counters /\ row = NoRow
    BY DEF AppleInit, Counters, States
  <2>2. row.power = None /\ row.clock = None /\ row.busy = None /\ row.util = None /\ ~(None > 0)
    BY <2>1 DEF NoRow, None
  <2>3. RowSupported
    BY <2>2 DEF RowSupported
  <2> QED
    BY <2>1, <2>3 DEF RowInv
<1>2. RowInv => RowSupported
  BY DEF RowInv
<1> QED
  BY <1>1, <1>2, RowStep, PTL


-----------------------------------------------------------------------------
(* AppleRegistry: the rows.                                                *)

Positions == DOMAIN Services

Increasing(s) == \A i, j \in 1..Len(s) : i < j => s[i] < s[j]

\* Nodes of the kind that is looked for.
Fitting(who) == {k \in Positions : Services[k].node = Sought(who)}

\* What a walk has found is in the registry's order, what it is at comes after that,
\* and what is left after both.
WalkOrder ==
  /\ registered \subseteq Positions
  /\ walk = [for |-> walk.for, stage |-> walk.stage, left |-> walk.left, entry |-> walk.entry,
             out |-> walk.out]
  /\ walk.left \subseteq Fitting(walk.for)
  /\ walk.out \in Seq(Fitting(walk.for)) /\ Increasing(walk.out)
  /\ walk.stage = "matching" => walk.out = <<>>
  /\ \A i \in 1..Len(walk.out), k \in walk.left : walk.out[i] < k
  /\ walk.stage = "entry" =>
       /\ walk.entry \in Fitting(walk.for)
       /\ \A i \in 1..Len(walk.out) : walk.out[i] < walk.entry
       /\ \A k \in walk.left : walk.entry < k

DevicesInv == WalkOrder /\ DevicesTrue

\* Positions are numbers.
LEMMA PositionFacts == Positions \subseteq Nat
  BY RegistryAssumption DEF Positions

\* All of a list come before k, and q is the list with k after it.
AllBelow(s, k) == \A i \in 1..Len(s) : s[i] < k
Longer(q, s, k) ==
  /\ Len(q) = Len(s) + 1
  /\ \A i \in 1..Len(q) : (i \in 1..Len(s) /\ q[i] = s[i]) \/ (i = Len(s) + 1 /\ q[i] = k)

\* One service more.
LEMMA AppendIncreases ==
  ASSUME NEW S, NEW s, NEW k, s \in Seq(S), Increasing(s), k \in S, AllBelow(s, k)
  PROVE  Append(s, k) \in Seq(S) /\ Increasing(Append(s, k)) /\ Longer(Append(s, k), s, k)
<1> DEFINE q == Append(s, k)
<1>1. /\ Len(s) \in Nat /\ q \in Seq(S) /\ Len(q) = Len(s) + 1 /\ q[Len(s) + 1] = k
      /\ \A i \in 1..Len(s) : q[i] = s[i]
  OBVIOUS
<1> HIDE DEF q
<1>2. \A i \in 1..Len(q) : (i \in 1..Len(s) /\ q[i] = s[i]) \/ (i = Len(s) + 1 /\ q[i] = k)
  BY <1>1
<1>3. Increasing(q)
  <2> SUFFICES ASSUME NEW i \in 1..Len(q), NEW j \in 1..Len(q), i < j PROVE q[i] < q[j]
    BY DEF Increasing
  <2>1. i \in 1..Len(s)
    BY <1>1
  <2>2. CASE j \in 1..Len(s)
    BY <1>1, <2>1, <2>2 DEF Increasing
  <2>3. CASE j = Len(s) + 1
    BY <1>1, <2>1, <2>3 DEF AllBelow
  <2> QED
    BY <1>2, <2>2, <2>3
<1>4. Longer(q, s, k)
  BY <1>1, <1>2 DEF Longer
<1> QED
  BY <1>1, <1>3, <1>4 DEF q

\* f is the recursion of AppleGpus over the first n of a list.
Picks(f, s, n) ==
  f = [i \in 0..n |-> IF i = 0 THEN <<>>
                      ELSE IF IsAppleGpu(s[i]) THEN Append(f[i - 1], s[i]) ELSE f[i - 1]]

\* The recursion has a solution.
LEMMA PicksExists ==
  ASSUME NEW s, NEW n \in Nat
  PROVE  \E f : Picks(f, s, n)
<1> DEFINE S == {m \in Nat : \E f : Picks(f, s, m)}
<1>1. 0 \in S
  <2>1. Picks([i \in 0..0 |-> <<>>], s, 0)
    BY DEF Picks
  <2> QED
    BY <2>1
<1>2. ASSUME NEW m \in Nat, m \in S PROVE m + 1 \in S
  <2>1. PICK f : Picks(f, s, m)
    BY <1>2
  <2> DEFINE Next(h, i) == IF IsAppleGpu(s[i]) THEN Append(h[i - 1], s[i]) ELSE h[i - 1]
             g == [i \in 0..(m + 1) |-> IF i <= m THEN f[i] ELSE Next(f, i)]
  <2>2. \A i \in 0..m : f[i] = IF i = 0 THEN <<>> ELSE Next(f, i)
    BY <2>1 DEF Picks
  <2>3. \A i \in 0..(m + 1) : g[i] = IF i = 0 THEN <<>> ELSE Next(g, i)
    <3> TAKE i \in 0..(m + 1)
    <3>1. CASE i = 0
      BY <2>2, <3>1
    <3>2. CASE i \in 1..m
      <4>1. g[i] = f[i] /\ g[i - 1] = f[i - 1] /\ i \in 0..m /\ i # 0
        BY <3>2
      <4> QED
        BY <2>2, <4>1
    <3>3. CASE i = m + 1
      <4>1. g[i - 1] = f[i - 1] /\ i # 0
        BY <3>3
      <4>2. g[i] = Next(f, i)
        BY <3>3
      <4> QED
        BY <4>1, <4>2
    <3> QED
      BY <3>1, <3>2, <3>3
  <2>4. Picks(g, s, m + 1)
    <3>1. g = [i \in 0..(m + 1) |-> g[i]]
      OBVIOUS
    <3> HIDE DEF g
    <3> QED
      BY <2>3, <3>1 DEF Picks
  <2> QED
    BY <2>4
<1> HIDE DEF S
<1>3. \A m \in Nat : m \in S
  BY <1>1, <1>2, SetInduction
<1> QED
  BY <1>3 DEF S

\* The Apple ones of a list in order are in order, and of that list.
LEMMA AppleGpusFacts ==
  ASSUME NEW S \in SUBSET Nat, NEW s \in Seq(S), Increasing(s)
  PROVE  /\ AppleGpus(s) \in Seq({k \in S : IsAppleGpu(k)}) /\ Increasing(AppleGpus(s))
<1> DEFINE L == Len(s)
           A == {k \in S : IsAppleGpu(k)}
           f == CHOOSE f : Picks(f, s, L)
<1>1. L \in Nat /\ A \in SUBSET Nat /\ \A i \in 1..L : s[i] \in S /\ s[i] \in Nat
  <2>1. L \in Nat /\ \A i \in 1..L : s[i] \in S
    OBVIOUS
  <2> QED
    BY <2>1
<1>2. Picks(f, s, L)
  BY <1>1, PicksExists
<1>3. AppleGpus(s) = f[L]
  BY DEF AppleGpus, Picks
<1> HIDE DEF f
<1>4. \A i \in 0..L : f[i] = IF i = 0 THEN <<>>
                             ELSE IF IsAppleGpu(s[i]) THEN Append(f[i - 1], s[i]) ELSE f[i - 1]
  BY <1>1, <1>2 DEF Picks
<1> DEFINE Ok(n) == /\ f[n] \in Seq(A) /\ Increasing(f[n])
                    /\ \A i \in 1..Len(f[n]), j \in (n + 1)..L : f[n][i] < s[j]
           T == {n \in Nat : n <= L => Ok(n)}
<1>5. 0 \in T
  <2>1. f[0] = <<>>
    BY <1>1, <1>4
  <2>2. f[0] \in Seq(A) /\ Len(f[0]) = 0
    BY <2>1
  <2> QED
    BY <2>2 DEF Increasing
<1>6. ASSUME NEW n \in Nat, n \in T PROVE n + 1 \in T
  <2> SUFFICES ASSUME n + 1 <= L PROVE Ok(n + 1)
    OBVIOUS
  <2>1. Ok(n)
    BY <1>1, <1>6
  <2>2. n + 1 \in 0..L /\ n + 1 # 0 /\ (n + 1) - 1 = n /\ n + 1 \in (n + 1)..L /\ n + 1 \in 1..L
    BY <1>1
  <2>3. f[n + 1] = IF IsAppleGpu(s[n + 1]) THEN Append(f[n], s[n + 1]) ELSE f[n]
    BY <1>4, <2>2
  <2>4. \A j \in ((n + 1) + 1)..L : j \in (n + 1)..L /\ j \in 1..L /\ n + 1 < j
    BY <1>1
  <2>5. CASE IsAppleGpu(s[n + 1])
    <3> DEFINE q == f[n + 1]
    <3>1. s[n + 1] \in A
      BY <1>1, <2>2, <2>5
    <3>2. \A i \in 1..Len(f[n]) : f[n][i] < s[n + 1]
      BY <2>1, <2>2
    <3>3. /\ q \in Seq(A) /\ Increasing(q) /\ Len(q) = Len(f[n]) + 1
          /\ \A i \in 1..Len(q) : (i \in 1..Len(f[n]) /\ q[i] = f[n][i]) \/ (i = Len(f[n]) + 1 /\ q[i] = s[n + 1])
      <4>1. q = Append(f[n], s[n + 1])
        BY <2>3, <2>5
      <4>2. f[n] \in Seq(A) /\ Increasing(f[n]) /\ A \in SUBSET Nat
        BY <1>1, <2>1
      <4>3. AllBelow(f[n], s[n + 1])
        BY <3>2 DEF AllBelow
      <4> HIDE DEF q, A, Ok
      <4>4. q \in Seq(A) /\ Increasing(q) /\ Longer(q, f[n], s[n + 1])
        BY <3>1, <4>1, <4>2, <4>3, AppendIncreases
      <4> QED
        BY <4>4 DEF Longer
    <3>4. ASSUME NEW i \in 1..Len(q), NEW j \in ((n + 1) + 1)..L PROVE q[i] < s[j]
      <4>1. CASE i \in 1..Len(f[n]) /\ q[i] = f[n][i]
        BY <2>1, <2>4, <4>1
      <4>2. CASE q[i] = s[n + 1]
        BY <2>2, <2>4, <4>2 DEF Increasing
      <4> QED
        BY <3>3, <4>1, <4>2
    <3> QED
      BY <3>3, <3>4
  <2>6. CASE ~IsAppleGpu(s[n + 1])
    <3>1. f[n + 1] = f[n]
      BY <2>3, <2>6
    <3> QED
      BY <2>1, <2>4, <3>1
  <2> QED
    BY <2>5, <2>6
<1> HIDE DEF T, Ok
<1>7. \A n \in Nat : n \in T
  BY <1>5, <1>6, SetInduction
<1>8. L <= L
  BY <1>1
<1>9. Ok(L)
  BY <1>1, <1>7, <1>8 DEF T
<1> QED
  BY <1>3, <1>9 DEF Ok

\* Every step of a walk keeps its order, and a finished one makes true rows.
LEMMA DevicesStep == DevicesInv /\ [RegistryNext]_registryVars => DevicesInv'
<1> SUFFICES ASSUME DevicesInv, [RegistryNext]_registryVars PROVE DevicesInv'
  OBVIOUS
<1> DEFINE Shape(w) == w = [for |-> w.for, stage |-> w.stage, left |-> w.left, entry |-> w.entry,
                            out |-> w.out]
           F == Fitting(walk.for)
<1>0. /\ WalkOrder /\ DevicesTrue /\ Shape(walk) /\ walk.left \subseteq F /\ F \in SUBSET Nat
      /\ walk.out \in Seq(F) /\ Increasing(walk.out) /\ Len(walk.out) \in Nat
  BY PositionFacts DEF DevicesInv, WalkOrder, Fitting
<1>1. ASSUME registered' \subseteq Positions, Shape(walk'), walk'.for = walk.for,
             walk'.left \subseteq F, walk'.out \in Seq(F), Increasing(walk'.out), walk'.stage # "matching",
             \A i \in 1..Len(walk'.out), k \in walk'.left : walk'.out[i] < k,
             walk'.stage = "entry" =>
               /\ walk'.entry \in F
               /\ \A i \in 1..Len(walk'.out) : walk'.out[i] < walk'.entry
               /\ \A k \in walk'.left : walk'.entry < k
      PROVE  WalkOrder'
  BY <1>1 DEF WalkOrder, Fitting, Positions, Sought
<1>2. ASSUME walk'.out = <<>>, walk'.left = {}, walk'.stage # "entry", Shape(walk'), UNCHANGED registered
      PROVE  WalkOrder'
  <2>1. walk'.out \in Seq(Fitting(walk'.for)) /\ Len(walk'.out) = 0
    BY <1>2
  <2> QED
    BY <1>0, <1>2, <2>1 DEF WalkOrder, Increasing, Fitting, Positions, Sought
<1>3. UNCHANGED devices => DevicesTrue'
  BY <1>0 DEF DevicesTrue
<1>4. ASSUME NEW who, Match(who) PROVE DevicesInv'
  <2>1. UNCHANGED <<registered, devices>> /\ Shape(walk') /\ walk'.out = <<>> /\ walk'.left = {}
        /\ walk'.stage # "entry"
    BY <1>4 DEF Match, NoWalk
  <2> QED
    BY <1>2, <1>3, <2>1 DEF DevicesInv
<1>5. CASE GetMatchingServices
  <2>1. UNCHANGED <<registered, devices>> /\ walk.out = <<>> /\ Len(walk.out) = 0
    BY <1>0, <1>5 DEF GetMatchingServices, WalkOrder
  <2>2. /\ Shape(walk') /\ walk'.stage \in {"iterating", "done"} /\ walk'.for = walk.for /\ walk'.out = walk.out
        /\ walk'.left = walk.left \/ walk'.left = {k \in registered : Services[k].node = Sought(walk.for)}
    BY <1>0, <1>5 DEF GetMatchingServices
  <2>3. walk'.left \subseteq F
    BY <1>0, <2>2 DEF Fitting, WalkOrder
  <2>4. WalkOrder'
    <3> HIDE DEF Shape, F
    <3>1. registered' \subseteq Positions
      BY <1>0, <2>1 DEF WalkOrder
    <3> QED
      BY <1>0, <1>1, <2>1, <2>2, <2>3, <3>1
  <2> QED
    BY <1>3, <2>1, <2>4 DEF DevicesInv
<1>6. CASE IteratorNext
  <2>1. UNCHANGED <<registered, devices>> /\ walk.left # {}
    BY <1>6 DEF IteratorNext
  <2>2. PICK k \in walk.left : k = Min(walk.left) /\ \A x \in walk.left : k <= x
    <3>1. walk.left \subseteq Nat
      BY <1>0
    <3> QED
      BY <2>1, <3>1, Smallest DEF Min
  <2>3. /\ Shape(walk') /\ walk'.stage = "entry" /\ walk'.for = walk.for /\ walk'.out = walk.out
        /\ walk'.entry = k /\ walk'.left = walk.left \ {k}
    BY <1>0, <1>6, <2>2 DEF IteratorNext
  <2>4. \A x \in walk'.left : k < x
    BY <1>0, <2>2, <2>3
  <2>5. WalkOrder'
    <3>1. registered' \subseteq Positions
      BY <1>0, <2>1 DEF WalkOrder
    <3>2. \A i \in 1..Len(walk.out), x \in walk.left : walk.out[i] < x
      BY <1>0 DEF WalkOrder
    <3> HIDE DEF Shape, F
    <3> QED
      BY <1>0, <1>1, <2>2, <2>3, <2>4, <3>1, <3>2
  <2> QED
    BY <1>3, <2>1, <2>5 DEF DevicesInv
<1>7. CASE CreateProperties
  <2>1. /\ UNCHANGED <<registered, devices>> /\ walk.stage = "entry" /\ registered' \subseteq Positions
    BY <1>0, <1>7 DEF CreateProperties, WalkOrder
  <2>2. /\ walk.entry \in F
        /\ \A i \in 1..Len(walk.out) : walk.out[i] < walk.entry
        /\ \A k \in walk.left : walk.entry < k
        /\ \A i \in 1..Len(walk.out), k \in walk.left : walk.out[i] < k
    BY <1>0, <2>1 DEF WalkOrder
  <2>3. /\ Shape(walk') /\ walk'.stage = "iterating" /\ walk'.for = walk.for /\ walk'.left = walk.left
        /\ walk'.out = walk.out \/ walk'.out = Append(walk.out, walk.entry)
    BY <1>0, <1>7 DEF CreateProperties
  <2> HIDE DEF Shape, F
  <2>4. CASE walk'.out = walk.out
    <3>1. WalkOrder'
      BY <1>0, <1>1, <2>1, <2>2, <2>3, <2>4
    <3> QED
      BY <1>3, <2>1, <3>1 DEF DevicesInv
  <2>5. CASE walk'.out = Append(walk.out, walk.entry)
    <3> DEFINE q == walk'.out
    <3>0. q = Append(walk.out, walk.entry)
      BY <2>5
    <3> HIDE DEF q
    <3>1. /\ q \in Seq(F) /\ Increasing(q) /\ Len(q) = Len(walk.out) + 1
          /\ \A i \in 1..Len(q) : (i \in 1..Len(walk.out) /\ q[i] = walk.out[i])
                                  \/ (i = Len(walk.out) + 1 /\ q[i] = walk.entry)
      <4>1. AllBelow(walk.out, walk.entry)
        BY <2>2 DEF AllBelow
      <4>2. q \in Seq(F) /\ Increasing(q) /\ Longer(q, walk.out, walk.entry)
        BY <1>0, <2>2, <3>0, <4>1, AppendIncreases
      <4> QED
        BY <4>2 DEF Longer
    <3>2. \A i \in 1..Len(q), k \in walk'.left : q[i] < k
      BY <2>2, <2>3, <3>1
    <3>3. WalkOrder'
      BY <1>0, <1>1, <2>1, <2>3, <3>1, <3>2 DEF q
    <3> QED
      BY <1>3, <2>1, <3>3 DEF DevicesInv
  <2> QED
    BY <2>3, <2>4, <2>5
<1>8. CASE IteratorEnds
  <2>1. UNCHANGED <<registered, devices>> /\ registered' \subseteq Positions
    BY <1>0, <1>8 DEF IteratorEnds, WalkOrder
  <2>2. /\ Shape(walk') /\ walk'.stage = "done" /\ walk'.for = walk.for /\ walk'.out = walk.out
        /\ walk'.left = walk.left
    BY <1>0, <1>8 DEF IteratorEnds
  <2>3. \A i \in 1..Len(walk.out), k \in walk.left : walk.out[i] < k
    BY <1>0 DEF WalkOrder
  <2> HIDE DEF Shape, F
  <2>4. WalkOrder'
    BY <1>0, <1>1, <2>1, <2>2, <2>3
  <2> QED
    BY <1>3, <2>1, <2>4 DEF DevicesInv
<1>9. CASE ConnectDone \/ DvfsDone
  <2>1. UNCHANGED <<registered, devices>> /\ walk' = NoWalk
    BY <1>9 DEF ConnectDone, DvfsDone
  <2>2. Shape(walk') /\ walk'.out = <<>> /\ walk'.left = {} /\ walk'.stage # "entry"
    BY <2>1 DEF NoWalk
  <2> QED
    BY <1>2, <1>3, <2>1, <2>2 DEF DevicesInv
<1>10. CASE CollectDone
  <2> DEFINE agx == AppleGpus(walk.out)
             A == {k \in F : IsAppleGpu(k)}
  <2>1. UNCHANGED registered /\ walk' = NoWalk /\ walk.for = "collect"
        /\ devices' = [available |-> agx # <<>>, rows |-> [i \in DOMAIN agx |-> DeviceOf(agx[i])]]
    BY <1>10 DEF CollectDone
  <2>2. Shape(walk') /\ walk'.out = <<>> /\ walk'.left = {} /\ walk'.stage # "entry"
    BY <2>1 DEF NoWalk
  <2>3. agx \in Seq(A) /\ Increasing(agx)
    BY <1>0, AppleGpusFacts
  <2>4. \A k \in A : /\ k \in Positions /\ k \in Nat /\ Services[k].node = "IOAccelerator" /\ Services[k].class = "AGX"
    BY <1>0, <2>1 DEF Fitting, IsAppleGpu, Sought
  <2> HIDE DEF A, agx
  <2>5. /\ Len(agx) \in Nat /\ DOMAIN agx = 1..Len(agx) /\ \A i \in 1..Len(agx) : agx[i] \in A
    BY <2>3
  <2>6. DOMAIN devices'.rows = 1..Len(agx) /\ \A i \in 1..Len(agx) : devices'.rows[i] = DeviceOf(agx[i])
    BY <2>1, <2>5
  <2>7. devices'.available <=> devices'.rows # <<>>
    <3>1. devices'.available <=> agx # <<>>
      BY <2>1
    <3>2. agx = <<>> => devices'.rows = <<>>
      BY <2>1
    <3>3. agx # <<>> => 1 \in DOMAIN devices'.rows
      BY <2>3, <2>5, <2>6
    <3> QED
      BY <3>1, <3>2, <3>3
  <2>8. ASSUME NEW i \in DOMAIN devices'.rows
        PROVE  LET d == devices'.rows[i]
                   s == Services[d.service]
               IN  /\ s.node = "IOAccelerator" /\ s.class = "AGX"
                   /\ i > 1 => d.service > devices'.rows[i - 1].service
                   /\ d.util # None => d.util \in 0..100 /\ s.stats /\ s.util # None
                   /\ d.mem # None => d.mem = s.mem /\ s.stats
    <3> DEFINE d == devices'.rows[i]
    <3>1. i \in 1..Len(agx) /\ d = DeviceOf(agx[i]) /\ agx[i] \in A
      BY <2>5, <2>6
    <3>2. d.service = agx[i]
      BY <3>1 DEF DeviceOf
    <3>3. i > 1 => d.service > devices'.rows[i - 1].service
      <4> SUFFICES ASSUME i > 1 PROVE d.service > devices'.rows[i - 1].service
        OBVIOUS
      <4>1. i - 1 \in 1..Len(agx) /\ i - 1 < i
        BY <2>5, <3>1
      <4>2. devices'.rows[i - 1].service = agx[i - 1]
        <5>1. devices'.rows[i - 1] = DeviceOf(agx[i - 1])
          BY <2>6, <4>1
        <5>2. \A k : DeviceOf(k).service = k
          BY DEF DeviceOf
        <5> QED
          BY <5>1, <5>2
      <4>3. agx[i - 1] < agx[i] /\ agx[i] \in Nat /\ agx[i - 1] \in Nat
        BY <2>3, <2>4, <2>5, <3>1, <4>1 DEF Increasing
      <4> QED
        BY <3>2, <4>2, <4>3
    <3>4. d.util # None => d.util \in 0..100 /\ Services[agx[i]].stats /\ Services[agx[i]].util # None
      <4> DEFINE s == Services[agx[i]]
                 info == DecodeAccelerator(agx[i])
      <4>1. d.util = IF info.util # None THEN ClampPct(info.util) ELSE None
        BY <3>1 DEF DeviceOf
      <4>2. info.util = IF s.stats THEN s.util ELSE None
        BY DEF DecodeAccelerator
      <4>3. s.util \in Int
        BY <2>4, <3>1, RegistryAssumption DEF Positions
      <4>4. ClampPct(s.util) \in 0..100
        BY <4>3 DEF ClampPct
      <4> HIDE DEF s, info, d
      <4> QED
        BY <4>1, <4>2, <4>3, <4>4 DEF None, s
    <3>5. d.mem # None => d.mem = Services[agx[i]].mem /\ Services[agx[i]].stats
      BY <3>1 DEF DeviceOf, DecodeAccelerator
    <3> QED
      BY <2>4, <3>1, <3>2, <3>3, <3>4, <3>5
  <2>9. DevicesTrue'
    BY <2>7, <2>8 DEF DevicesTrue
  <2> QED
    BY <1>2, <2>1, <2>2, <2>9 DEF DevicesInv
<1>11. ASSUME NEW k \in DOMAIN Services, ServiceToggles(k) PROVE DevicesInv'
  <2>1. UNCHANGED <<walk, devices>> /\ registered' \subseteq Positions
    BY <1>0, <1>11 DEF ServiceToggles, WalkOrder, Positions
  <2>2. WalkOrder'
    BY <1>0, <2>1 DEF WalkOrder, Fitting, Positions, Sought, Increasing
  <2> QED
    BY <1>3, <2>1, <2>2 DEF DevicesInv
<1>12. CASE UNCHANGED registryVars
  <2>1. UNCHANGED <<walk, devices, registered>>
    BY <1>12 DEF registryVars
  <2>2. WalkOrder'
    BY <1>0, <2>1 DEF WalkOrder, Fitting, Positions, Sought, Increasing
  <2> QED
    BY <1>3, <2>1, <2>2 DEF DevicesInv
<1> QED
  BY <1>4, <1>5, <1>6, <1>7, <1>8, <1>9, <1>10, <1>11, <1>12 DEF RegistryNext

\* Whatever drivers come and go during a walk: the rows are Apple GPUs, each once and in
\* the registry's order, with no figure the driver did not give (collect, build_device).
THEOREM RowsAreDevices == RegistryInit /\ [][RegistryNext]_registryVars => []DevicesTrue
<1>1. RegistryInit => DevicesInv
  <2> SUFFICES ASSUME RegistryInit PROVE DevicesInv
    OBVIOUS
  <2>1. /\ registered \subseteq Positions /\ walk = NoWalk
        /\ devices = [available |-> FALSE, rows |-> <<>>]
    BY DEF RegistryInit, Positions
  <2>2. /\ walk.out = <<>> /\ walk.left = {} /\ walk.stage = "idle"
        /\ walk = [for |-> walk.for, stage |-> walk.stage, left |-> walk.left, entry |-> walk.entry,
                   out |-> walk.out]
    BY <2>1 DEF NoWalk
  <2>3. walk.out \in Seq(Fitting(walk.for)) /\ Len(walk.out) = 0
    BY <2>2
  <2>4. WalkOrder
    BY <2>1, <2>2, <2>3 DEF WalkOrder, Increasing
  <2>5. DevicesTrue
    BY <2>1 DEF DevicesTrue
  <2> QED
    BY <2>4, <2>5 DEF DevicesInv
<1>2. DevicesInv => DevicesTrue
  BY DEF DevicesInv
<1> QED
  BY <1>1, <1>2, DevicesStep, PTL

\* The Apple backend as a whole: every object is given back exactly once, but for the one
\* view of the channels that open may leave behind, and nothing is shown that was not
\* measured, for every blob, registry and interleaving of the two.
THEOREM AppleSoundForAll ==
  AppleInit /\ [][AppleNext]_appleVars /\ RegistryInit /\ [][RegistryNext]_registryVars => []AppleSound
<1>1. RefsBalanced /\ RowSupported /\ HandlesBalanced /\ DevicesTrue => AppleSound
  BY DEF AppleSound, SamplerSound
<1> QED
  BY <1>1, SamplerReleasesAll, FiguresSupported, WalkReleasesAll, RowsAreDevices, PTL

-----------------------------------------------------------------------------
(* Startup: the client.                                                    *)

\* A token that passes is long enough, whether it came from a file or a flag.
LEMMA TokenOk ==
  ASSUME NEW cli, cli.token \in Int, cli.token_file \in TokenFiles, Token(cli) = "ok"
  PROVE  TokenLength(cli) >= MinToken
<1>1. cli.token_file.trimmed \in Int
  <2>1. CASE cli.token_file = [given |-> FALSE, readable |-> FALSE, trimmed |-> 0]
    BY <2>1
  <2>2. CASE cli.token_file \in [given : {TRUE}, readable : BOOLEAN,
                                 trimmed : {0, MinToken - 1, MinToken}]
    <3>1. cli.token_file.trimmed \in {0, MinToken - 1, MinToken}
      BY <2>2, Zenon
    <3> QED
      BY <3>1 DEF MinToken
  <2> QED
    BY <2>1, <2>2, Zenon DEF TokenFiles
<1>2. CASE cli.token_file.given
  <2>1. ReadTokenFile(cli.token_file) = "ok"
    BY <1>2 DEF Token
  <2>2. ~(cli.token_file.trimmed < MinToken)
    BY <2>1 DEF ReadTokenFile
  <2> QED
    BY <1>1, <1>2, <2>2 DEF TokenLength, MinToken
<1>3. CASE ~cli.token_file.given
  <2>1. cli.token >= MinToken
    BY <1>3 DEF Token
  <2> QED
    BY <1>3, <2>1 DEF TokenLength
<1> QED
  BY <1>2, <1>3

\* A connector that verifies was given certificates it can use, and nothing else.
LEMMA ConnectorVerifies ==
  ASSUME NEW cli, cli.tls_ca \in CaFiles, TlsConnector(cli) \in {"ok", "insecure"}
  PROVE  cli.tls_skip_verify \/ (cli.tls_ca.given /\ cli.tls_ca.items = {"cert"})
<1>1. CASE cli.tls_ca.given /\ ~cli.tls_skip_verify
  <2>1. ConnectorFromCa(cli.tls_ca) \in {"ok", "insecure"}
    BY <1>1 DEF TlsConnector
  <2>2. /\ "garbage" \notin cli.tls_ca.items /\ cli.tls_ca.items # {}
        /\ "unusable" \notin cli.tls_ca.items
    BY <2>1 DEF ConnectorFromCa
  <2>3. cli.tls_ca.items \in {{}, {"cert"}, {"cert", "garbage"}, {"cert", "unusable"}}
    <3>1. cli.tls_ca # [given |-> FALSE, readable |-> FALSE, items |-> {}]
      BY <1>1
    <3>2. cli.tls_ca \in [given : {TRUE}, readable : BOOLEAN,
                          items : {{}, {"cert"}, {"cert", "garbage"}, {"cert", "unusable"}}]
      BY <3>1, Zenon DEF CaFiles
    <3> QED
      BY <3>2, Zenon
  <2> QED
    BY <1>1, <2>2, <2>3
<1>2. CASE ~cli.tls_ca.given
  BY <1>2 DEF TlsConnector
<1> QED
  BY <1>1, <1>2

\* What main lets through to the network.
LEMMA RemoteRuns ==
  ASSUME NEW cli, NEW dns, RunApp(cli, dns) = "remote"
  PROVE  /\ cli.remote.given /\ ParseRemoteTarget(cli.remote, dns).result = "ok"
         /\ Token(cli) = "ok" /\ TlsConnector(cli) \in {"ok", "insecure"}
  BY DEF RunApp

\* A target that parses has a name to check the certificate against.
LEMMA NamedTarget ==
  ASSUME NEW t, NEW dns, ParseRemoteTarget(t, dns).result = "ok"
  PROVE  ParseRemoteTarget(t, dns).sni # "none"
<1>1. CASE SplitHostPort(t) \notin {"ok", "cut"}
  BY <1>1 DEF ParseRemoteTarget
<1>2. CASE SplitHostPort(t) \in {"ok", "cut"} /\ HostText(t) \in {"v4", "v6"}
  BY <1>2 DEF ParseRemoteTarget
<1>3. CASE SplitHostPort(t) \in {"ok", "cut"} /\ HostText(t) \notin {"v4", "v6"}
  BY <1>3 DEF ParseRemoteTarget
<1> QED
  BY <1>1, <1>2, <1>3

\* One start of the client, whatever the environment says.
LEMMA RunClientSafe ==
  ASSUME NEW cli, NEW dns, NEW docker, NEW env, NEW overrides,
         cli.token \in Int, cli.token_file \in TokenFiles, cli.tls_ca \in CaFiles,
         RunClient(cli, dns, docker, env, overrides)
  PROVE  ClientSafe'
<1> DEFINE engines == IF RunApp(cli, dns) \in {"usage", "about"} THEN {}
                      ELSE LocalEngines(cli, docker, env)
<1>1. /\ client'.result = RunApp(cli, dns) /\ client'.cli = cli
      /\ client'.overrides = overrides /\ client'.engines = engines
      /\ client'.sni = ParseRemoteTarget(cli.remote, dns).sni
      /\ client'.caps = DetectCaps(env, overrides)
  BY DEF RunClient
<1>2. ASSUME RunApp(cli, dns) = "remote"
      PROVE  /\ TokenLength(cli) >= MinToken
             /\ cli.tls_skip_verify \/ (cli.tls_ca.given /\ cli.tls_ca.items = {"cert"})
             /\ engines = {} /\ ParseRemoteTarget(cli.remote, dns).sni # "none"
  <2>1. engines = {}
    BY <1>2, RemoteRuns DEF LocalEngines
  <2> QED
    BY <1>2, <2>1, RemoteRuns, TokenOk, ConnectorVerifies, NamedTarget
<1>3. ASSUME "kube" \in engines, cli.kube_namespace.given
      PROVE  /\ cli.kube_namespace.length \in 1..63
             /\ cli.kube_namespace.ends /\ cli.kube_namespace.inner
  <2>1. ~ParseRefuses(cli)
    BY <1>3 DEF RunApp
  <2> QED
    BY <1>3, <2>1 DEF ParseRefuses, IsValidNamespace
<1>4. /\ overrides.no_color => DetectCaps(env, overrides).color = "NoColor"
      /\ overrides.ascii => ~DetectCaps(env, overrides).unicode
      /\ overrides.no_mouse => ~DetectCaps(env, overrides).mouse
  BY DEF DetectCaps
<1> HIDE DEF engines
<1> QED
  BY <1>1, <1>2, <1>3, <1>4 DEF ClientSafe

\* The arguments nobody gave.
LEMMA QuietArguments ==
  /\ Quiet.token \in Int /\ Quiet.token_file \in TokenFiles /\ Quiet.tls_ca \in CaFiles
<1>1. \E f \in TokenFiles : ~f.given
  <2>1. [given |-> FALSE, readable |-> FALSE, trimmed |-> 0] \in TokenFiles
    BY Zenon DEF TokenFiles
  <2> QED
    BY <2>1
<1>2. \E f \in CaFiles : ~f.given
  <2>1. [given |-> FALSE, readable |-> FALSE, items |-> {}] \in CaFiles
    BY Zenon DEF CaFiles
  <2> QED
    BY <2>1
<1>3. (CHOOSE f \in TokenFiles : ~f.given) \in TokenFiles
  BY <1>1
<1>4. (CHOOSE f \in CaFiles : ~f.given) \in CaFiles
  BY <1>2
<1>5. Absent \in Int
  BY DEF Absent
<1> QED
  BY <1>3, <1>4, <1>5 DEF Quiet

\* For any set of --remote arguments, and whatever the files, the name service and
\* the terminal are: a client connects only with a token of full length and to a
\* server it can verify or was told not to, a remote client has no local engine, an
\* engine gets no namespace from the command line that is not a DNS-1123 label, and
\* what the user switched off is off (main and run_app of muxtop).
THEOREM ClientStartsSafe ==
  StartupInit /\ [][StartupNext]_client => []ClientSafe
<1>1. StartupInit => ClientSafe
  BY DEF StartupInit, ClientSafe
<1>2. ASSUME ClientSafe, [StartupNext]_client PROVE ClientSafe'
  <2>1. CASE RunsRemote
    <3>1. PICK target \in Targets, token \in Tokens, file \in TokenFiles, ca \in CaFiles,
               skip \in BOOLEAN, dns \in {"ok", "empty", "fails"} :
            RunClient([Quiet EXCEPT !.remote = target, !.token = token, !.token_file = file,
                                    !.tls_ca = ca, !.tls_skip_verify = skip],
                      dns, FALSE, PlainEnv, NoOverride)
      BY <2>1 DEF RunsRemote
    <3> DEFINE cli == [Quiet EXCEPT !.remote = target, !.token = token, !.token_file = file,
                                    !.tls_ca = ca, !.tls_skip_verify = skip]
    <3>2. cli.token = token /\ cli.token_file = file /\ cli.tls_ca = ca
      BY DEF Quiet
    <3>3. token \in Int
      BY DEF Tokens, Absent, MinToken
    <3> HIDE DEF cli
    <3>4. RunClient(cli, dns, FALSE, PlainEnv, NoOverride)
      BY <3>1 DEF cli
    <3> QED
      BY <3>2, <3>3, <3>4, RunClientSafe
  <2>2. CASE RunsLocal
    <3>1. PICK off \in SUBSET {"containers", "kube", "gpu"}, context \in BOOLEAN,
               ns \in Namespaces, refresh \in {0, 3600, 3601}, docker \in BOOLEAN,
               present \in SUBSET {"env", "home", "token"}, readable \in BOOLEAN,
               git \in {{}, {"k3s", "k3d"}}, probe \in BOOLEAN :
            RunClient([Quiet EXCEPT !.no_containers = "containers" \in off,
                                    !.no_kube = "kube" \in off, !.no_gpu = "gpu" \in off,
                                    !.kube_context = context, !.kube_namespace = ns,
                                    !.refresh = refresh],
                      "ok", docker,
                      [PlainEnv EXCEPT !.kubeconfig = "env" \in present,
                                       !.home = "home" \in present,
                                       !.in_cluster = "token" \in present,
                                       !.readable = readable, !.git = git, !.probe = probe],
                      NoOverride)
      BY <2>2, ZenonT(60) DEF RunsLocal
    <3> DEFINE cli == [Quiet EXCEPT !.no_containers = "containers" \in off,
                                    !.no_kube = "kube" \in off, !.no_gpu = "gpu" \in off,
                                    !.kube_context = context, !.kube_namespace = ns,
                                    !.refresh = refresh]
    <3>2. /\ cli.token = Quiet.token /\ cli.token_file = Quiet.token_file
          /\ cli.tls_ca = Quiet.tls_ca
      BY DEF Quiet
    <3> HIDE DEF cli
    <3>3. \E env : RunClient(cli, "ok", docker, env, NoOverride)
      BY <3>1 DEF cli
    <3> QED
      BY <3>2, <3>3, QuietArguments, RunClientSafe
  <2>3. CASE RunsIn
    <3>1. PICK about \in BOOLEAN, overrides \in Overrides :
            \E env : RunClient([Quiet EXCEPT !.about = about], "ok", FALSE, env, overrides)
      BY <2>3 DEF RunsIn
    <3> DEFINE cli == [Quiet EXCEPT !.about = about]
    <3>2. /\ cli.token = Quiet.token /\ cli.token_file = Quiet.token_file
          /\ cli.tls_ca = Quiet.tls_ca
      BY DEF Quiet
    <3> HIDE DEF cli
    <3>3. \E env : RunClient(cli, "ok", FALSE, env, overrides)
      BY <3>1 DEF cli
    <3> QED
      BY <3>2, <3>3, QuietArguments, RunClientSafe
  <2>4. CASE UNCHANGED client
    BY <1>2, <2>4 DEF ClientSafe
  <2> QED
    BY <1>2, <2>1, <2>2, <2>3, <2>4 DEF StartupNext
<1> QED
  BY <1>1, <1>2, PTL

-----------------------------------------------------------------------------
(* ServerStartup.                                                          *)

Places == {"off", "refused", "open crt", "write crt", "open key", "write key",
           "open fingerprint", "write fingerprint", "load crt", "load key", "serving"}

Generations == Nat \cup {Absent}

ServerRecord == [at : Places, cli : ServerClis \cup {<<>>}, own : Nat,
                 crt : Generations, key : Generations, alone : BOOLEAN]

ServerType ==
  /\ server \in [Instance -> ServerRecord]
  /\ disk \in [{"crt", "key", "fingerprint"} -> Generations]
  /\ generation \in Nat

\* An instance that had the directory to itself since it started to write: what it
\* has written so far is what it finds there.
Written(s) ==
  LET at == server[s].at
      me == server[s].own
  IN  /\ at \in {"open key", "write key"} => disk.crt = me
      /\ at \in {"open fingerprint", "write fingerprint"} => disk.crt = me /\ disk.key = me
      /\ at = "load crt" => disk.crt = me /\ disk.key = me /\ disk.fingerprint = me
      /\ at \in {"load key", "serving"} => server[s].crt = me /\ disk.fingerprint = me

\* A token that passes is a token of full length.
LEMMA TokenPasses ==
  ASSUME NEW cli \in ServerClis, Token(cli) = "ok"
  PROVE  TokenLength(cli) >= MinToken
<1>1. PICK t \in {Absent, MinToken - 1, MinToken}, f \in {x \in TokenFiles : ~x.given},
           g \in BOOLEAN, p \in BOOLEAN, r \in {-1, 0} :
        cli = [token |-> t, token_file |-> f, tls_generate |-> g, tls_pair |-> p,
               rate_limit_per_ip |-> r]
  BY DEF ServerClis
<1>2. cli.token = t /\ cli.token_file = f /\ ~f.given
  BY <1>1
<1>3. t \in Int
  BY DEF Absent, MinToken
<1>4. t >= MinToken
  BY <1>2, <1>3 DEF Token, MinToken
<1> QED
  BY <1>2, <1>4 DEF TokenLength

\* The steps by number.
LEMMA StepNames ==
  /\ Steps[1] = "open crt" /\ Steps[2] = "write crt" /\ Steps[3] = "open key"
  /\ Steps[4] = "write key" /\ Steps[5] = "open fingerprint" /\ Steps[6] = "write fingerprint"
  /\ Steps[7] = "load crt"
  BY DEF Steps

\* The files by step.
LEMMA FileNames ==
  /\ FileOf(1) = "crt" /\ FileOf(2) = "crt" /\ FileOf(3) = "key" /\ FileOf(4) = "key"
  /\ FileOf(5) = "fingerprint" /\ FileOf(6) = "fingerprint"
<1>1. /\ (1 + 1) \div 2 = 1 /\ (2 + 1) \div 2 = 1 /\ (3 + 1) \div 2 = 2 /\ (4 + 1) \div 2 = 2
      /\ (5 + 1) \div 2 = 3 /\ (6 + 1) \div 2 = 3
  OBVIOUS
<1> QED
  BY <1>1 DEF FileOf

\* The steps of writing, each with its file and whether it fills it.
WriteSteps ==
  {[from |-> "open crt",          to |-> "write crt",         file |-> "crt",         full |-> FALSE],
   [from |-> "write crt",         to |-> "open key",          file |-> "crt",         full |-> TRUE],
   [from |-> "open key",          to |-> "write key",         file |-> "key",         full |-> FALSE],
   [from |-> "write key",         to |-> "open fingerprint",  file |-> "key",         full |-> TRUE],
   [from |-> "open fingerprint",  to |-> "write fingerprint", file |-> "fingerprint", full |-> FALSE],
   [from |-> "write fingerprint", to |-> "load crt",          file |-> "fingerprint", full |-> TRUE]}

Writes(s, step) ==
  /\ server[s].at = step.from
  /\ disk' = [disk EXCEPT ![step.file] = IF step.full THEN server[s].own ELSE Absent]
  /\ server' = [i \in Instance |-> IF i = s THEN [server[i] EXCEPT !.at = step.to]
                                   ELSE [server[i] EXCEPT !.alone = FALSE]]
  /\ generation' = generation

\* Persist is one of the six.
LEMMA PersistSteps ==
  ASSUME NEW s \in Instance, Persist(s)
  PROVE  \E step \in WriteSteps : Writes(s, step)
<1>1. PICK k \in 1..6 :
        /\ server[s].at = Steps[k]
        /\ disk' = [disk EXCEPT ![FileOf(k)] = IF k % 2 = 1 THEN Absent ELSE server[s].own]
        /\ server' = [i \in Instance |->
                        IF i = s THEN [server[i] EXCEPT !.at = Steps[k + 1]]
                        ELSE [server[i] EXCEPT !.alone = FALSE]]
        /\ generation' = generation
  BY DEF Persist
<1>2. /\ 1 % 2 = 1 /\ 2 % 2 = 0 /\ 3 % 2 = 1 /\ 4 % 2 = 0 /\ 5 % 2 = 1 /\ 6 % 2 = 0
      /\ 1 + 1 = 2 /\ 2 + 1 = 3 /\ 3 + 1 = 4 /\ 4 + 1 = 5 /\ 5 + 1 = 6 /\ 6 + 1 = 7
  OBVIOUS
<1>3. k \in {1, 2, 3, 4, 5, 6}
  OBVIOUS
<1>4. CASE k = 1
  <2>1. PICK step \in WriteSteps :
          /\ step.from = Steps[1] /\ step.to = Steps[2] /\ step.file = FileOf(1)
          /\ step.full <=> 1 % 2 # 1
    BY <1>2, StepNames, FileNames DEF WriteSteps
  <2> QED
    BY <1>1, <1>2, <1>4, <2>1 DEF Writes
<1>5. CASE k = 2
  <2>1. PICK step \in WriteSteps :
          /\ step.from = Steps[2] /\ step.to = Steps[3] /\ step.file = FileOf(2)
          /\ step.full <=> 2 % 2 # 1
    BY <1>2, StepNames, FileNames DEF WriteSteps
  <2> QED
    BY <1>1, <1>2, <1>5, <2>1 DEF Writes
<1>6. CASE k = 3
  <2>1. PICK step \in WriteSteps :
          /\ step.from = Steps[3] /\ step.to = Steps[4] /\ step.file = FileOf(3)
          /\ step.full <=> 3 % 2 # 1
    BY <1>2, StepNames, FileNames DEF WriteSteps
  <2> QED
    BY <1>1, <1>2, <1>6, <2>1 DEF Writes
<1>7. CASE k = 4
  <2>1. PICK step \in WriteSteps :
          /\ step.from = Steps[4] /\ step.to = Steps[5] /\ step.file = FileOf(4)
          /\ step.full <=> 4 % 2 # 1
    BY <1>2, StepNames, FileNames DEF WriteSteps
  <2> QED
    BY <1>1, <1>2, <1>7, <2>1 DEF Writes
<1>8. CASE k = 5
  <2>1. PICK step \in WriteSteps :
          /\ step.from = Steps[5] /\ step.to = Steps[6] /\ step.file = FileOf(5)
          /\ step.full <=> 5 % 2 # 1
    BY <1>2, StepNames, FileNames DEF WriteSteps
  <2> QED
    BY <1>1, <1>2, <1>8, <2>1 DEF Writes
<1>9. CASE k = 6
  <2>1. PICK step \in WriteSteps :
          /\ step.from = Steps[6] /\ step.to = Steps[7] /\ step.file = FileOf(6)
          /\ step.full <=> 6 % 2 # 1
    BY <1>2, StepNames, FileNames DEF WriteSteps
  <2> QED
    BY <1>1, <1>2, <1>9, <2>1 DEF Writes
<1> QED
  BY <1>3, <1>4, <1>5, <1>6, <1>7, <1>8, <1>9

\* What an instance relies on at each place of its start.
Fine(s) ==
  /\ server[s].at \notin {"off", "refused"} =>
       server[s].cli \in ServerClis /\ Token(server[s].cli) = "ok"
  /\ server[s].at \in {"load key", "serving"} => server[s].crt # Absent
  /\ server[s].at = "serving" => server[s].key = server[s].crt
  /\ server[s].at \notin {"off", "refused"} /\ server[s].cli.tls_generate /\ server[s].alone
       => Written(s)

\* What a process may become: the records of ServerType.
LEMMA Records ==
  /\ NotRunning \in ServerRecord
  /\ \A p \in Places : [NotRunning EXCEPT !.at = p] \in ServerRecord
  /\ \A p \in Places, cli \in ServerClis :
       [NotRunning EXCEPT !.at = p, !.cli = cli] \in ServerRecord
  /\ \A p \in Places, cli \in ServerClis, n \in Nat :
       [NotRunning EXCEPT !.at = p, !.cli = cli, !.own = n] \in ServerRecord
  /\ \A r \in ServerRecord, p \in Places : [r EXCEPT !.at = p] \in ServerRecord
  /\ \A r \in ServerRecord : [r EXCEPT !.alone = FALSE] \in ServerRecord
  /\ \A r \in ServerRecord, p \in Places, g \in Generations :
       /\ [r EXCEPT !.at = p, !.crt = g] \in ServerRecord
       /\ [r EXCEPT !.at = p, !.key = g] \in ServerRecord
<1>1. "off" \in Places /\ Absent \in Generations /\ 0 \in Nat /\ <<>> \in ServerClis \cup {<<>>}
  BY DEF Places, Generations
<1>2. \A cli \in ServerClis : cli \in ServerClis \cup {<<>>}
  OBVIOUS
<1>3. NotRunning \in ServerRecord
  BY <1>1 DEF NotRunning, ServerRecord
<1> QED
  BY <1>2, <1>3 DEF ServerRecord

\* Where a step leads and what it writes.
LEMMA StepFacts ==
  ASSUME NEW step \in WriteSteps
  PROVE  /\ step.to \in Places
         /\ step.file \in {"crt", "key", "fingerprint"}
         /\ \/ step.from = "open crt" /\ step.to = "write crt"
            \/ step.from = "write crt" /\ step.to = "open key" /\ step.file = "crt" /\ step.full
            \/ step.from = "open key" /\ step.to = "write key" /\ step.file = "key"
            \/ step.from = "write key" /\ step.to = "open fingerprint" /\ step.file = "key" /\ step.full
            \/ step.from = "open fingerprint" /\ step.to = "write fingerprint" /\ step.file = "fingerprint"
            \/ step.from = "write fingerprint" /\ step.to = "load crt" /\ step.file = "fingerprint" /\ step.full
<1>1. CASE step = [from |-> "open crt", to |-> "write crt", file |-> "crt", full |-> FALSE]
  BY <1>1 DEF Places
<1>2. CASE step = [from |-> "write crt", to |-> "open key", file |-> "crt", full |-> TRUE]
  BY <1>2 DEF Places
<1>3. CASE step = [from |-> "open key", to |-> "write key", file |-> "key", full |-> FALSE]
  BY <1>3 DEF Places
<1>4. CASE step = [from |-> "write key", to |-> "open fingerprint", file |-> "key", full |-> TRUE]
  BY <1>4 DEF Places
<1>5. CASE step = [from |-> "open fingerprint", to |-> "write fingerprint",
                   file |-> "fingerprint", full |-> FALSE]
  BY <1>5 DEF Places
<1>6. CASE step = [from |-> "write fingerprint", to |-> "load crt",
                   file |-> "fingerprint", full |-> TRUE]
  BY <1>6 DEF Places
<1> QED
  BY <1>1, <1>2, <1>3, <1>4, <1>5, <1>6, Zenon DEF WriteSteps

\* A server that does not run.
LEMMA NoServer == NotRunning.at = "off" /\ [NotRunning EXCEPT !.at = "refused"].at = "refused"
  BY DEF NotRunning

\* Every step keeps the types.
LEMMA TypeStep == ServerType /\ [ServerStartupNext]_serverStartupVars => ServerType'
<1> SUFFICES ASSUME ServerType, [ServerStartupNext]_serverStartupVars PROVE ServerType'
  OBVIOUS
<1> USE DEF ServerType
<1>0. /\ {"off", "refused", "load crt", "open crt", "load key", "serving"} \subseteq Places
      /\ \A f \in {"crt", "key", "fingerprint"} : disk[f] \in Generations
      /\ \A i \in Instance : server[i] \in ServerRecord
  BY DEF Places
<1>1. ASSUME NEW s \in Instance, NEW cli \in ServerClis, ServerMain(s, cli) PROVE ServerType'
  <2>1. PICK r \in ServerRecord : server' = [server EXCEPT ![s] = r]
    <3>1. CASE Refuses(s)
      BY <1>0, <3>1, Records DEF Refuses
    <3>2. CASE server' = [server EXCEPT ![s] = [NotRunning EXCEPT !.at = "load crt", !.cli = cli]]
      BY <1>0, <3>2, Records
    <3>3. CASE server' = [server EXCEPT ![s] = [NotRunning EXCEPT !.at = "open crt", !.cli = cli,
                                                         !.own = generation']]
               /\ generation' = generation + 1
      <4>1. generation' \in Nat
        BY <3>3
      <4>2. [NotRunning EXCEPT !.at = "open crt", !.cli = cli, !.own = generation'] \in ServerRecord
        BY <1>0, <4>1, Records
      <4> QED
        BY <3>3, <4>2
    <3> QED
      BY <1>1, <3>1, <3>2, <3>3 DEF ServerMain
  <2>2. server' \in [Instance -> ServerRecord]
    BY <1>0, <2>1
  <2> QED
    BY <1>1, <2>2 DEF ServerMain
<1>2. ASSUME NEW s \in Instance, Persist(s) PROVE ServerType'
  <2>1. PICK step \in WriteSteps : Writes(s, step)
    BY <1>2, PersistSteps
  <2>2. server[s].own \in Generations /\ Absent \in Generations
    BY DEF ServerRecord, Generations
  <2>3. disk' \in [{"crt", "key", "fingerprint"} -> Generations]
    BY <2>1, <2>2 DEF Writes
  <2>4. step.to \in Places
    BY StepFacts
  <2>5. server' \in [Instance -> ServerRecord]
    BY <1>0, <2>1, <2>4, Records DEF Writes
  <2> QED
    BY <2>1, <2>3, <2>5 DEF Writes
<1>3. ASSUME NEW s \in Instance, LoadCert(s) PROVE ServerType'
  <2>1. PICK r \in ServerRecord : server' = [server EXCEPT ![s] = r]
    <3>1. CASE Refuses(s)
      BY <1>0, <3>1, Records DEF Refuses
    <3>2. CASE server' = [server EXCEPT ![s] = [server[s] EXCEPT !.at = "load key", !.crt = disk.crt]]
      BY <1>0, <3>2, Records
    <3> QED
      BY <1>3, <3>1, <3>2 DEF LoadCert
  <2>2. server' \in [Instance -> ServerRecord]
    BY <1>0, <2>1
  <2> QED
    BY <1>3, <2>2 DEF LoadCert
<1>4. ASSUME NEW s \in Instance, LoadKey(s) PROVE ServerType'
  <2>1. PICK r \in ServerRecord : server' = [server EXCEPT ![s] = r]
    <3>1. CASE Refuses(s)
      BY <1>0, <3>1, Records DEF Refuses
    <3>2. CASE server' = [server EXCEPT ![s] = [server[s] EXCEPT !.at = "serving", !.key = disk.key]]
      BY <1>0, <3>2, Records
    <3> QED
      BY <1>4, <3>1, <3>2 DEF LoadKey
  <2>2. server' \in [Instance -> ServerRecord]
    BY <1>0, <2>1
  <2> QED
    BY <1>4, <2>2 DEF LoadKey
<1>5. ASSUME NEW s \in Instance, Dies(s) PROVE ServerType'
  BY <1>0, <1>5, Records DEF Dies
<1>6. CASE UNCHANGED serverStartupVars
  BY <1>6 DEF serverStartupVars
<1> QED
  BY <1>1, <1>2, <1>3, <1>4, <1>5, <1>6 DEF ServerStartupNext

\* The step of one instance leaves what the others are told alone: it takes their
\* solitude from them when it writes.
LEMMA OthersKept ==
  ASSUME ServerType, NEW s \in Instance, NEW i \in Instance \ {s}, Fine(i),
         \/ server'[i] = server[i] /\ disk' = disk
         \/ server'[i] = [server[i] EXCEPT !.alone = FALSE]
  PROVE  Fine(i)'
<1>1. CASE server'[i] = server[i] /\ disk' = disk
  BY <1>1 DEF Fine, Written
<1>2. CASE server'[i] = [server[i] EXCEPT !.alone = FALSE]
  <2>1. /\ server'[i].at = server[i].at /\ server'[i].cli = server[i].cli
        /\ server'[i].crt = server[i].crt /\ server'[i].key = server[i].key
        /\ server'[i].alone = FALSE
    BY <1>2 DEF ServerType, ServerRecord
  <2> QED
    BY <2>1 DEF Fine
<1> QED
  BY <1>1, <1>2

\* Every step keeps what the instances rely on.
LEMMA FineStep ==
  ServerType /\ (\A i \in Instance : Fine(i)) /\ [ServerStartupNext]_serverStartupVars
    => (\A i \in Instance : Fine(i))'
<1> SUFFICES ASSUME ServerType, \A i \in Instance : Fine(i),
                    [ServerStartupNext]_serverStartupVars,
                    NEW i \in Instance
             PROVE  Fine(i)'
  OBVIOUS
<1>1. ASSUME NEW s \in Instance, NEW cli \in ServerClis, ServerMain(s, cli) PROVE Fine(i)'
  <2>1. CASE i # s
    <3>1. server'[i] = server[i] /\ disk' = disk
      BY <1>1, <2>1 DEF ServerMain, Refuses, ServerType
    <3> QED
      BY <2>1, <3>1, OthersKept
  <2>2. CASE i = s
    <3>1. CASE server'[s] = [NotRunning EXCEPT !.at = "refused"]
      BY <2>2, <3>1, NoServer DEF Fine
    <3>2. CASE /\ Token(cli) = "ok" /\ ~cli.tls_generate
               /\ server'[s] = [NotRunning EXCEPT !.at = "load crt", !.cli = cli]
      BY <2>2, <3>2 DEF NotRunning, Fine, Written
    <3>3. CASE /\ Token(cli) = "ok"
               /\ server'[s] = [NotRunning EXCEPT !.at = "open crt", !.cli = cli, !.own = generation']
      BY <2>2, <3>3 DEF NotRunning, Fine, Written
    <3> QED
      BY <1>1, <3>1, <3>2, <3>3 DEF ServerMain, Refuses, ServerType
  <2> QED
    BY <2>1, <2>2
<1>2. ASSUME NEW s \in Instance, Persist(s) PROVE Fine(i)'
  <2>1. PICK step \in WriteSteps : Writes(s, step)
    BY <1>2, PersistSteps
  <2>2. CASE i # s
    <3>1. server'[i] = [server[i] EXCEPT !.alone = FALSE]
      BY <2>1, <2>2 DEF Writes
    <3> QED
      BY <2>2, <3>1, OthersKept
  <2>3. CASE i = s
    <3>1. /\ server'[s].at = step.to /\ server'[s].cli = server[s].cli
          /\ server'[s].own = server[s].own /\ server'[s].alone = server[s].alone
          /\ server[s].at = step.from
      BY <2>1 DEF Writes, ServerType, ServerRecord
    <3>2. step.file \in {"crt", "key", "fingerprint"}
      BY StepFacts
    <3>3. /\ \A g \in {"crt", "key", "fingerprint"} \ {step.file} : disk'[g] = disk[g]
          /\ disk'[step.file] = IF step.full THEN server[s].own ELSE Absent
      BY <2>1, <3>2 DEF Writes, ServerType
    <3> QED
      BY <2>1, <2>3, <3>1, <3>3, StepFacts, ZenonT(60) DEF Fine, Written
  <2> QED
    BY <2>2, <2>3
<1>3. ASSUME NEW s \in Instance, LoadCert(s) PROVE Fine(i)'
  <2>1. CASE i # s
    <3>1. server'[i] = server[i] /\ disk' = disk
      BY <1>3, <2>1 DEF LoadCert, Refuses, ServerType
    <3> QED
      BY <2>1, <3>1, OthersKept
  <2>2. CASE i = s
    <3>1. CASE server'[s] = [NotRunning EXCEPT !.at = "refused"]
      BY <2>2, <3>1, NoServer DEF Fine
    <3>2. CASE disk.crt # Absent /\ server'[s] = [server[s] EXCEPT !.at = "load key", !.crt = disk.crt]
      <4>1. /\ server'[s].at = "load key" /\ server'[s].cli = server[s].cli
            /\ server'[s].own = server[s].own /\ server'[s].crt = disk.crt
            /\ server'[s].alone = server[s].alone
        BY <3>2 DEF ServerType, ServerRecord
      <4> QED
        BY <1>3, <2>2, <3>2, <4>1, ZenonT(60) DEF LoadCert, Fine, Written
    <3> QED
      BY <1>3, <3>1, <3>2 DEF LoadCert, Refuses, ServerType
  <2> QED
    BY <2>1, <2>2
<1>4. ASSUME NEW s \in Instance, LoadKey(s) PROVE Fine(i)'
  <2>1. CASE i # s
    <3>1. server'[i] = server[i] /\ disk' = disk
      BY <1>4, <2>1 DEF LoadKey, Refuses, ServerType
    <3> QED
      BY <2>1, <3>1, OthersKept
  <2>2. CASE i = s
    <3>1. CASE server'[s] = [NotRunning EXCEPT !.at = "refused"]
      BY <2>2, <3>1, NoServer DEF Fine
    <3>2. CASE /\ Matches(server[s].crt, disk.key)
               /\ server'[s] = [server[s] EXCEPT !.at = "serving", !.key = disk.key]
      <4>1. /\ server'[s].at = "serving" /\ server'[s].cli = server[s].cli
            /\ server'[s].own = server[s].own /\ server'[s].crt = server[s].crt
            /\ server'[s].key = disk.key /\ server'[s].alone = server[s].alone
        BY <3>2 DEF ServerType, ServerRecord
      <4> QED
        BY <1>4, <2>2, <3>2, <4>1, ZenonT(60) DEF LoadKey, Matches, Fine, Written
    <3> QED
      BY <1>4, <3>1, <3>2 DEF LoadKey, Refuses, ServerType
  <2> QED
    BY <2>1, <2>2
<1>5. ASSUME NEW s \in Instance, Dies(s) PROVE Fine(i)'
  <2>1. CASE i # s
    <3>1. server'[i] = server[i] /\ disk' = disk
      BY <1>5, <2>1 DEF Dies, ServerType
    <3> QED
      BY <2>1, <3>1, OthersKept
  <2>2. CASE i = s
    <3>1. server'[s] = NotRunning
      BY <1>5 DEF Dies, ServerType
    <3> QED
      BY <2>2, <3>1, NoServer DEF Fine
  <2> QED
    BY <2>1, <2>2
<1>6. CASE UNCHANGED serverStartupVars
  BY <1>6 DEF serverStartupVars, Fine, Written
<1> QED
  BY <1>1, <1>2, <1>3, <1>4, <1>5, <1>6 DEF ServerStartupNext

ServInv == ServerType /\ \A i \in Instance : Fine(i)

\* Whoever is killed between two writes and however many servers share the files:
\* what is served is a certificate with its own key, behind a token of full
\* length, and the fingerprint told is the one on disk unless another wrote too
\* (generate_self_signed, acceptor_from_pem, main of the server).
THEOREM ServersServeOwnPair ==
  ServerStartupInit /\ [][ServerStartupNext]_serverStartupVars => []ServesOwnPair
<1>1. ServerStartupInit => ServInv
  <2> SUFFICES ASSUME ServerStartupInit PROVE ServInv
    OBVIOUS
  <2>1. ServerType
    BY Records DEF ServerStartupInit, ServerType, Generations
  <2>2. ASSUME NEW i \in Instance PROVE Fine(i)
    BY DEF ServerStartupInit, NotRunning, Fine
  <2> QED
    BY <2>1, <2>2 DEF ServInv
<1>2. ServInv /\ [ServerStartupNext]_serverStartupVars => ServInv'
  BY TypeStep, FineStep DEF ServInv
<1>3. ServInv => ServesOwnPair
  BY TokenPasses DEF ServInv, Fine, Written, ServesOwnPair
<1> QED
  BY <1>1, <1>2, <1>3, PTL

-----------------------------------------------------------------------------
(* Notifier: the log.                                                      *)

\* The log with its shape.
LogInv == IsSeq(log) /\ posts \in Nat /\ LogLatest

\* The last n elements keep their order.
LEMMA LastOfFacts ==
  ASSUME NEW s, IsSeq(s), NEW n \in Nat
  PROVE  LET m == IF Len(s) > n THEN n ELSE Len(s)
         IN  /\ IsSeq(LastOf(s, n)) /\ Len(s) \in Nat
             /\ Len(LastOf(s, n)) = m
             /\ \A k \in 1..m : LastOf(s, n)[k] = s[(Len(s) - m) + k]
<1> DEFINE T == {s[i] : i \in DOMAIN s}
<1>1. s \in Seq(T)
  BY DEF IsSeq
<1> HIDE DEF T
<1>2. Len(s) \in Nat
  BY <1>1
<1>3. CASE Len(s) > n
  <2> DEFINE from == Len(s) - n + 1
  <2>1. LastOf(s, n) = SubSeq(s, from, Len(s))
    BY <1>3 DEF LastOf
  <2>2. /\ SubSeq(s, from, Len(s)) \in Seq(T)
        /\ Len(SubSeq(s, from, Len(s))) = n
        /\ \A k \in 1..n : SubSeq(s, from, Len(s))[k] = s[(Len(s) - n) + k]
    BY <1>1, <1>2, <1>3
  <2> QED
    BY <1>2, <1>3, <2>1, <2>2, SeqIsSeq
<1>4. CASE ~(Len(s) > n)
  BY <1>1, <1>2, <1>4 DEF LastOf
<1> QED
  BY <1>3, <1>4

LEMMA LogStep == LogInv /\ [NotifierNext]_notifierVars => LogInv'
<1> SUFFICES ASSUME LogInv, [NotifierNext]_notifierVars PROVE LogInv'
  OBVIOUS
<1>1. ASSUME NEW level, Post(level) PROVE LogInv'
  <2>1. PICK toast : toast.id = posts + 1 /\ log' = LastOf(Append(log, toast), LogCapacity)
    BY <1>1 DEF Post
  <2>2. posts' = posts + 1 /\ posts \in Nat /\ LogCapacity \in Nat
    BY <1>1, NotifierAssumption DEF Post, LogInv
  <2> DEFINE s == Append(log, toast)
  <2>3. /\ IsSeq(s) /\ Len(log) \in Nat /\ DOMAIN log = 1..Len(log) /\ Len(s) = Len(log) + 1
        /\ \A i \in 1..Len(log) : s[i] = log[i]
        /\ s[Len(log) + 1] = toast
    BY AppendIsSeq DEF LogInv
  <2>4. \A i \in 1..Len(s) : s[i].id = posts' - Len(s) + i
    <3>1. ASSUME NEW i \in 1..Len(log) PROVE s[i].id = posts' - Len(s) + i
      <4>1. log[i].id = posts - Len(log) + i
        BY <2>3 DEF LogInv, LogLatest
      <4> QED
        BY <2>2, <2>3, <4>1
    <3>2. s[Len(log) + 1].id = posts' - Len(s) + (Len(log) + 1)
      BY <2>1, <2>2, <2>3
    <3>3. \A i \in 1..Len(s) : i \in 1..Len(log) \/ i = Len(log) + 1
      BY <2>3
    <3> QED
      BY <3>1, <3>2, <3>3
  <2> HIDE DEF s
  <2> DEFINE m == IF Len(s) > LogCapacity THEN LogCapacity ELSE Len(s)
  <2>5. /\ IsSeq(log') /\ Len(s) \in Nat /\ Len(log') = m
        /\ \A k \in 1..m : log'[k] = s[(Len(s) - m) + k]
    BY <2>1, <2>2, <2>3, LastOfFacts DEF s
  <2>6. m \in Nat /\ m <= LogCapacity /\ m <= Len(s)
    BY <2>2, <2>5
  <2>7. m = LogCapacity \/ m = posts'
    <3>1. Len(log) = LogCapacity \/ Len(log) = posts
      BY DEF LogInv, LogLatest
    <3>2. Len(s) = Len(log) + 1 /\ Len(log) \in Nat
      BY <2>3
    <3>3. Len(s) > LogCapacity \/ Len(s) = posts'
      <4>1. CASE Len(log) = LogCapacity
        BY <2>2, <3>2, <4>1
      <4>2. CASE Len(log) = posts
        BY <2>2, <3>2, <4>2
      <4> QED
        BY <3>1, <4>1, <4>2
    <3> QED
      BY <3>3
  <2> HIDE DEF m
  <2>8. \A k \in 1..m : (Len(s) - m) + k \in 1..Len(s)
    BY <2>5, <2>6
  <2>9. \A k \in 1..m : log'[k].id = posts' - m + k
    <3> TAKE k \in 1..m
    <3>1. s[(Len(s) - m) + k].id = posts' - Len(s) + ((Len(s) - m) + k)
      BY <2>4, <2>8
    <3>2. posts' - Len(s) + ((Len(s) - m) + k) = posts' - m + k
      <4>1. \A a, b, c, d \in Int : a - b + ((b - c) + d) = a - c + d
        OBVIOUS
      <4>2. posts' \in Int /\ Len(s) \in Int /\ m \in Int /\ k \in Int
        BY <2>2, <2>5, <2>6
      <4> QED
        BY <4>1, <4>2
    <3> QED
      BY <2>5, <3>1, <3>2
  <2>10. DOMAIN log' = 1..m
    BY <2>5, AppendIsSeq
  <2> QED
    BY <2>2, <2>5, <2>6, <2>7, <2>9, <2>10 DEF LogInv, LogLatest
<1>2. CASE UNCHANGED <<log, posts>>
  BY <1>2 DEF LogInv, LogLatest
<1> QED
  BY <1>1, <1>2 DEF NotifierNext, Expire, DismissAll, Later, notifierVars

\* However many messages are posted and whatever expires or is dismissed: the log
\* holds the latest ones without a gap, as many as have room (Notifier::push).
THEOREM LogKeepsLatest == NotifierInit /\ [][NotifierNext]_notifierVars => []LogLatest
<1>1. NotifierInit => LogInv
  <2> SUFFICES ASSUME NotifierInit PROVE LogInv
    OBVIOUS
  <2>1. log \in Seq({}) /\ Len(log) = 0 /\ posts = 0
    BY DEF NotifierInit
  <2>2. LogCapacity \in Nat
    BY NotifierAssumption
  <2>3. IsSeq(log)
    BY <2>1, SeqIsSeq
  <2>4. LogLatest
    BY <2>1, <2>2 DEF LogLatest
  <2> QED
    BY <2>1, <2>3, <2>4 DEF LogInv
<1>2. LogInv => LogLatest
  BY DEF LogInv
<1> QED
  BY <1>1, <1>2, LogStep, PTL

-----------------------------------------------------------------------------
(* Notifier: the screen and the log.                                       *)

Levels == {"Info", "Warning", "Error"}

Toasts == [level : Levels, at : Nat, id : Nat]

NotifierType ==
  /\ instant \in Nat /\ posts \in Nat
  /\ active \in Seq(Toasts) /\ log \in Seq(Toasts)

\* The messages the log holds, by their numbers.
Forgotten == posts - Len(log)
InLog(n) == n \in (Forgotten + 1)..posts
Message(n) == log[n - Forgotten]

OnScreen == {active[k] : k \in 1..Len(active)}

\* The log is in the order of its times.
LogTimes ==
  \A n, m \in Int : InLog(n) /\ InLog(m) =>
    Message(n).at <= instant /\ (n <= m => Message(n).at <= Message(m).at)

Sorted(s) == \A j, k \in 1..Len(s) : j < k => s[j].id < s[k].id

\* The stack is in order, and its toasts are in the log unless they were the last
\* to be forgotten.
Stack ==
  /\ Len(active) <= MaxActive /\ Sorted(active)
  /\ \A e \in OnScreen :
       /\ e.id >= 1 /\ Forgotten <= e.id /\ e.id <= posts
       /\ InLog(e.id) => Message(e.id) = e

\* Whatever was posted after a toast on screen is on screen too, or has expired.
Gone ==
  \A e \in OnScreen : \A n \in (e.id + 1)..posts :
    Message(n) \in OnScreen \/ IsExpired(Message(n))

\* What outlasts the toast is there as long as the toast is.
Stays ==
  \A e \in OnScreen : \A n \in (e.id + 1)..posts :
    Message(n).at + TtlInfo >= e.at + Ttl(e.level) => Message(n) \in OnScreen

\* A product.  Kept as it is, the arithmetic around it is linear.
Times(m, x) == m * x

\* Zero times, and once more.
LEMMA TimesFacts ==
  \A m, x \in Nat : Times(m, x) \in Nat /\ Times(0, x) = 0 /\ Times(m + 1, x) = Times(m, x) + x
<1>1. \A m, x \in Nat : m * x \in Nat /\ 0 * x = 0 /\ (m + 1) * x = m * x + x
  OBVIOUS
<1> QED
  BY <1>1 DEF Times

\* To get past a toast on screen a message has to wait for room: the stack minus
\* one in every TtlInfo.
Pace ==
  \A e \in OnScreen : \A n \in (e.id + 1)..posts : \A m \in Nat :
    n > e.id + Times(m, MaxActive - 1) => Message(n).at >= e.at + Times(m, TtlInfo)

NotifierInv == NotifierType /\ LogLatest /\ LogTimes /\ Stack /\ Gone /\ Stays /\ Pace

\* A time to live is between the shortest and the longest.
LEMMA TtlFacts ==
  ASSUME NEW l \in Levels
  PROVE  Ttl(l) \in Nat /\ TtlInfo <= Ttl(l) /\ Ttl(l) <= TtlError
<1>1. CASE l = "Error"
  BY <1>1, NotifierAssumption DEF Ttl
<1>2. CASE l = "Warning"
  BY <1>2, NotifierAssumption DEF Ttl
<1>3. CASE l = "Info"
  BY <1>3, NotifierAssumption DEF Ttl
<1> QED
  BY <1>1, <1>2, <1>3 DEF Levels

\* The fields of a toast.
LEMMA ToastFacts ==
  ASSUME NEW t \in Toasts
  PROVE  /\ t.at \in Nat /\ t.id \in Nat /\ t.level \in Levels
         /\ Ttl(t.level) \in Nat /\ TtlInfo <= Ttl(t.level) /\ Ttl(t.level) <= TtlError
<1>1. t.at \in Nat /\ t.id \in Nat /\ t.level \in Levels
  BY DEF Toasts
<1> QED
  BY <1>1, TtlFacts

\* A message the log holds.
LEMMA MessageFacts ==
  ASSUME NotifierType, LogLatest, NEW n \in Int, InLog(n)
  PROVE  /\ Message(n) \in Toasts /\ Message(n).id = n
         /\ n - Forgotten \in 1..Len(log) /\ Forgotten \in Int
<1>1. posts \in Nat /\ Len(log) \in Nat /\ DOMAIN log = 1..Len(log)
  BY DEF NotifierType
<1>2. n - Forgotten \in 1..Len(log) /\ Forgotten \in Int
  BY <1>1 DEF InLog, Forgotten
<1>3. log[n - Forgotten] \in Toasts
  BY <1>2 DEF NotifierType
<1>4. log[n - Forgotten].id = posts - Len(log) + (n - Forgotten)
  BY <1>1, <1>2 DEF LogLatest
<1>5. posts - Len(log) + (n - Forgotten) = n
  BY <1>1 DEF Forgotten
<1> QED
  BY <1>2, <1>3, <1>4, <1>5 DEF Message

\* A toast on screen and where it is.
LEMMA ScreenFacts ==
  ASSUME NotifierType
  PROVE  /\ Len(active) \in Nat /\ \A k \in 1..Len(active) : active[k] \in Toasts /\ active[k] \in OnScreen
         /\ \A e \in OnScreen : e \in Toasts /\ \E k \in 1..Len(active) : e = active[k]
<1>1. Len(active) \in Nat /\ \A k \in 1..Len(active) : active[k] \in Toasts
  BY DEF NotifierType
<1> QED
  BY <1>1 DEF OnScreen

\* When the last t + 1 numbers are all on the screen, they are its end.
LEMMA Crowded ==
  ASSUME NEW s \in Seq(Toasts), Sorted(s), NEW top \in Nat,
         \A k \in 1..Len(s) : s[k].id <= top,
         NEW t \in Nat, \A i \in (top - t)..top : \E k \in 1..Len(s) : s[k].id = i
  PROVE  Len(s) > t /\ s[Len(s) - t].id = top - t
<1> DEFINE L == Len(s)
           S == {n \in Nat : n <= t => L > n /\ s[L - n].id = top - n}
<1>1. L \in Nat /\ \A k \in 1..L : s[k].id \in Nat
  <2>1. L \in Nat /\ \A k \in 1..L : s[k] \in Toasts
    OBVIOUS
  <2> QED
    BY <2>1, ToastFacts
<1>2. 0 \in S
  <2>1. PICK k \in 1..L : s[k].id = top
    <3>1. top \in (top - t)..top
      OBVIOUS
    <3> QED
      BY <3>1
  <2>2. k = L
    <3>1. ASSUME k < L PROVE FALSE
      <4>1. s[k].id < s[L].id /\ s[L].id <= top /\ s[L].id \in Nat
        BY <1>1, <2>1, <3>1 DEF Sorted
      <4> QED
        BY <2>1, <4>1
    <3> QED
      BY <1>1, <3>1
  <2>3. L > 0 /\ L - 0 = L /\ top - 0 = top
    BY <1>1, <2>1
  <2> QED
    BY <2>1, <2>2, <2>3
<1>3. ASSUME NEW n \in Nat, n \in S PROVE n + 1 \in S
  <2> SUFFICES ASSUME n + 1 <= t PROVE L > n + 1 /\ s[L - (n + 1)].id = top - (n + 1)
    OBVIOUS
  <2>1. L > n /\ s[L - n].id = top - n
    BY <1>3
  <2>2. PICK k \in 1..L : s[k].id = top - (n + 1)
    <3>1. top - (n + 1) \in (top - t)..top
      OBVIOUS
    <3> QED
      BY <3>1
  <2>3. L - n \in 1..L
    BY <1>1, <2>1
  <2>4. k < L - n
    <3>1. ASSUME k >= L - n PROVE FALSE
      <4>1. s[L - n].id <= s[k].id
        <5>1. CASE k = L - n
          BY <1>1, <2>3, <5>1
        <5>2. CASE k > L - n
          <6>1. s[L - n].id < s[k].id /\ s[L - n].id \in Nat /\ s[k].id \in Nat
            BY <1>1, <2>2, <2>3, <5>2 DEF Sorted
          <6> QED
            BY <6>1
        <5> QED
          BY <1>1, <3>1, <5>1, <5>2
      <4> QED
        BY <2>1, <2>2, <4>1
    <3> QED
      BY <1>1, <3>1
  <2>5. L - (n + 1) \in 1..L /\ L > n + 1
    BY <1>1, <2>2, <2>4
  <2>6. k = L - (n + 1)
    <3>1. ASSUME k < L - (n + 1) PROVE FALSE
      <4>1. s[k].id < s[L - (n + 1)].id
        BY <2>5, <3>1 DEF Sorted
      <4>2. L - (n + 1) < L - n
        BY <1>1
      <4>3. s[L - (n + 1)].id < s[L - n].id
        BY <2>3, <2>5, <4>2 DEF Sorted
      <4>4. s[L - (n + 1)].id \in Nat
        BY <1>1, <2>5
      <4> QED
        BY <2>1, <2>2, <4>1, <4>3, <4>4
    <3> QED
      BY <1>1, <2>4, <3>1
  <2> QED
    BY <2>2, <2>5, <2>6
<1> HIDE DEF S
<1>4. \A n \in Nat : n \in S
  BY <1>2, <1>3, SetInduction
<1> QED
  BY <1>4, SMTT(30) DEF S

-----------------------------------------------------------------------------
(* expire                                                                  *)

\* f is the recursion of Expired over the first n toasts.
Keeps(f, n) ==
  f = [i \in 0..n |-> IF i = 0 THEN <<>>
                      ELSE IF IsExpired(active[i]) THEN f[i - 1] ELSE Append(f[i - 1], active[i])]

\* The recursion has a solution.
LEMMA KeepsExists ==
  ASSUME NEW n \in Nat
  PROVE  \E f : Keeps(f, n)
<1> DEFINE S == {m \in Nat : \E f : Keeps(f, m)}
<1>1. 0 \in S
  <2>1. Keeps([i \in 0..0 |-> <<>>], 0)
    BY DEF Keeps
  <2> QED
    BY <2>1
<1>2. ASSUME NEW m \in Nat, m \in S PROVE m + 1 \in S
  <2>1. PICK f : Keeps(f, m)
    BY <1>2
  <2> DEFINE Next(h, i) == IF IsExpired(active[i]) THEN h[i - 1] ELSE Append(h[i - 1], active[i])
             g == [i \in 0..(m + 1) |-> IF i <= m THEN f[i] ELSE Next(f, i)]
  <2>2. \A i \in 0..m : f[i] = IF i = 0 THEN <<>> ELSE Next(f, i)
    BY <2>1 DEF Keeps
  <2>3. \A i \in 0..(m + 1) : g[i] = IF i = 0 THEN <<>> ELSE Next(g, i)
    <3> TAKE i \in 0..(m + 1)
    <3>1. CASE i = 0
      BY <2>2, <3>1
    <3>2. CASE i \in 1..m
      <4>1. g[i] = f[i] /\ g[i - 1] = f[i - 1] /\ i \in 0..m /\ i # 0
        BY <3>2
      <4> QED
        BY <2>2, <4>1
    <3>3. CASE i = m + 1
      <4>1. g[i - 1] = f[i - 1] /\ i # 0
        BY <3>3
      <4>2. g[i] = Next(f, i)
        BY <3>3
      <4> QED
        BY <4>1, <4>2
    <3> QED
      BY <3>1, <3>2, <3>3
  <2>4. Keeps(g, m + 1)
    <3>1. g = [i \in 0..(m + 1) |-> g[i]]
      OBVIOUS
    <3> HIDE DEF g
    <3> QED
      BY <2>3, <3>1 DEF Keeps
  <2> QED
    BY <2>4
<1> HIDE DEF S
<1>3. \A m \in Nat : m \in S
  BY <1>1, <1>2, SetInduction
<1> QED
  BY <1>3 DEF S

\* What has been retained of the first n toasts.
KeptOf(r, n) ==
  /\ r \in Seq(Toasts) /\ Len(r) <= n /\ Sorted(r)
  /\ \A k \in 1..Len(r) : \E j \in 1..n : r[k] = active[j] /\ ~IsExpired(active[j])
  /\ \A j \in 1..n : ~IsExpired(active[j]) => \E k \in 1..Len(r) : r[k] = active[j]
  /\ (\A j \in 1..n : ~IsExpired(active[j])) => Len(r) = n /\ \A j \in 1..n : r[j] = active[j]
  /\ (\E j \in 1..n : IsExpired(active[j])) => Len(r) < n

\* One toast further.
LEMMA KeptMore ==
  ASSUME NotifierType, Sorted(active), NEW n \in Nat, n + 1 <= Len(active),
         NEW r, KeptOf(r, n)
  PROVE  KeptOf(IF IsExpired(active[n + 1]) THEN r ELSE Append(r, active[n + 1]), n + 1)
<1> DEFINE a == active[n + 1]
<1>1. /\ Len(active) \in Nat /\ \A k \in 1..Len(active) : active[k] \in Toasts /\ active[k].id \in Nat
      /\ n + 1 \in 1..Len(active) /\ a \in Toasts
  BY ScreenFacts, ToastFacts
<1>2. r \in Seq(Toasts) /\ Len(r) \in Nat /\ Len(r) <= n /\ Sorted(r)
  BY DEF KeptOf
<1>3. \A j \in 1..(n + 1) : j \in 1..n \/ j = n + 1
  OBVIOUS
<1>4. \A j \in 1..n : j \in 1..(n + 1)
  OBVIOUS
<1>5. CASE IsExpired(a)
  <2>1. Len(r) <= n + 1 /\ Len(r) < n + 1 /\ n + 1 \in 1..(n + 1)
    BY <1>2
  <2>2. \A k \in 1..Len(r) : \E j \in 1..(n + 1) : r[k] = active[j] /\ ~IsExpired(active[j])
    BY <1>4 DEF KeptOf
  <2>3. \A j \in 1..(n + 1) : ~IsExpired(active[j]) => \E k \in 1..Len(r) : r[k] = active[j]
    BY <1>3, <1>5 DEF KeptOf
  <2>4. ~(\A j \in 1..(n + 1) : ~IsExpired(active[j]))
    BY <1>5, <2>1
  <2>5. KeptOf(r, n + 1)
    BY <1>2, <2>1, <2>2, <2>3, <2>4 DEF KeptOf
  <2> QED
    BY <1>5, <2>5
<1>6. CASE ~IsExpired(a)
  <2> DEFINE q == Append(r, a)
  <2>1. /\ q \in Seq(Toasts) /\ Len(q) = Len(r) + 1 /\ q[Len(r) + 1] = a
        /\ \A k \in 1..Len(r) : q[k] = r[k]
    BY <1>1, <1>2
  <2> HIDE DEF q
  <2>2. \A k \in 1..Len(q) : k \in 1..Len(r) \/ k = Len(r) + 1
    BY <1>2, <2>1
  <2>3. \A k \in 1..Len(r) : k \in 1..Len(q)
    BY <1>2, <2>1
  <2>4. Len(q) <= n + 1 /\ Len(r) + 1 \in 1..Len(q) /\ n + 1 \in 1..(n + 1)
    BY <1>2, <2>1
  <2>5. ASSUME NEW k \in 1..Len(r) PROVE r[k].id < a.id
    <3>1. PICK j \in 1..n : r[k] = active[j]
      BY DEF KeptOf
    <3>2. j \in 1..Len(active) /\ j < n + 1
      BY <1>1
    <3> QED
      BY <1>1, <3>1, <3>2 DEF Sorted
  <2>6. Sorted(q)
    <3> SUFFICES ASSUME NEW j \in 1..Len(q), NEW k \in 1..Len(q), j < k PROVE q[j].id < q[k].id
      BY DEF Sorted
    <3>1. j \in 1..Len(r)
      BY <1>2, <2>1
    <3>2. CASE k \in 1..Len(r)
      BY <1>2, <2>1, <3>1, <3>2 DEF Sorted
    <3>3. CASE k = Len(r) + 1
      BY <2>1, <2>5, <3>1, <3>3
    <3> QED
      BY <2>2, <3>2, <3>3
  <2>7. \A k \in 1..Len(q) : \E j \in 1..(n + 1) : q[k] = active[j] /\ ~IsExpired(active[j])
    <3> TAKE k \in 1..Len(q)
    <3>1. CASE k \in 1..Len(r)
      <4>1. PICK j \in 1..n : r[k] = active[j] /\ ~IsExpired(active[j])
        BY <3>1 DEF KeptOf
      <4> QED
        BY <1>4, <2>1, <3>1, <4>1
    <3>2. CASE k = Len(r) + 1
      BY <1>6, <2>1, <2>4, <3>2
    <3> QED
      BY <2>2, <3>1, <3>2
  <2>8. \A j \in 1..(n + 1) : ~IsExpired(active[j]) => \E k \in 1..Len(q) : q[k] = active[j]
    <3> SUFFICES ASSUME NEW j \in 1..(n + 1), ~IsExpired(active[j]) PROVE \E k \in 1..Len(q) : q[k] = active[j]
      OBVIOUS
    <3>1. CASE j \in 1..n
      <4>1. PICK k \in 1..Len(r) : r[k] = active[j]
        BY <3>1 DEF KeptOf
      <4> QED
        BY <2>1, <2>3, <4>1
    <3>2. CASE j = n + 1
      BY <2>1, <2>4, <3>2
    <3> QED
      BY <1>3, <3>1, <3>2
  <2>9. ASSUME \A j \in 1..(n + 1) : ~IsExpired(active[j])
        PROVE  Len(q) = n + 1 /\ \A j \in 1..(n + 1) : q[j] = active[j]
    <3>1. Len(r) = n /\ \A j \in 1..n : r[j] = active[j]
      BY <1>4, <2>9 DEF KeptOf
    <3> QED
      BY <1>3, <2>1, <3>1
  <2>10. ASSUME NEW j \in 1..(n + 1), IsExpired(active[j]) PROVE Len(q) < n + 1
    <3>1. j \in 1..n
      BY <1>3, <1>6, <2>10
    <3>2. Len(r) < n
      BY <2>10, <3>1 DEF KeptOf
    <3> QED
      BY <1>2, <2>1, <3>2
  <2>11. KeptOf(q, n + 1)
    BY <2>1, <2>4, <2>6, <2>7, <2>8, <2>9, <2>10 DEF KeptOf
  <2> QED
    BY <1>6, <2>11 DEF q
<1> QED
  BY <1>5, <1>6

\* What expire retains of the whole stack.
LEMMA ExpiredKept ==
  ASSUME NotifierType, Sorted(active)
  PROVE  KeptOf(Expired, Len(active))
<1> DEFINE L == Len(active)
           f == CHOOSE f : Keeps(f, L)
<1>1. L \in Nat
  BY ScreenFacts
<1>2. Keeps(f, L)
  BY <1>1, KeepsExists
<1>3. Expired = f[L]
  BY DEF Expired, Keeps
<1> HIDE DEF f
<1>4. \A i \in 0..L : f[i] = IF i = 0 THEN <<>>
                             ELSE IF IsExpired(active[i]) THEN f[i - 1] ELSE Append(f[i - 1], active[i])
  BY <1>1, <1>2 DEF Keeps
<1> DEFINE S == {n \in Nat : n <= L => KeptOf(f[n], n)}
<1>5. 0 \in S
  <2>1. f[0] = <<>>
    BY <1>1, <1>4
  <2>2. f[0] \in Seq(Toasts) /\ Len(f[0]) = 0
    BY <2>1
  <2>3. KeptOf(f[0], 0)
    BY <2>2 DEF KeptOf, Sorted
  <2> QED
    BY <2>3
<1>6. ASSUME NEW n \in Nat, n \in S PROVE n + 1 \in S
  <2> SUFFICES ASSUME n + 1 <= L PROVE KeptOf(f[n + 1], n + 1)
    OBVIOUS
  <2>1. KeptOf(f[n], n)
    BY <1>1, <1>6
  <2>2. n + 1 \in 0..L /\ n + 1 # 0 /\ (n + 1) - 1 = n
    BY <1>1
  <2>3. f[n + 1] = IF IsExpired(active[n + 1]) THEN f[n] ELSE Append(f[n], active[n + 1])
    BY <1>4, <2>2
  <2> HIDE DEF S
  <2> QED
    BY <2>1, <2>3, KeptMore
<1> HIDE DEF S
<1>7. \A n \in Nat : n \in S
  BY <1>5, <1>6, SetInduction
<1>8. L <= L
  BY <1>1
<1> QED
  BY <1>1, <1>3, <1>7, <1>8 DEF S

-----------------------------------------------------------------------------
(* push                                                                    *)

\* The log after a message: the message last, the others where they were, the
\* oldest forgotten when there was no room.
LEMMA PostLog ==
  ASSUME NotifierType, LogLatest, NEW level \in Levels, Post(level)
  PROVE  LET toast == [level |-> level, at |-> instant, id |-> posts + 1] IN
         /\ toast \in Toasts /\ posts' = posts + 1 /\ instant' = instant
         /\ log' \in Seq(Toasts) /\ LogLatest'
         /\ InLog(posts)' /\ Message(posts)' = toast
         /\ \/ Forgotten' = Forgotten
            \/ Forgotten' = Forgotten + 1 /\ Len(log') = LogCapacity
         /\ \A n \in Int : InLog(n) /\ n > Forgotten' => InLog(n)' /\ Message(n)' = Message(n)
         /\ \A n \in Int : InLog(n)' /\ n # posts + 1 => InLog(n) /\ Message(n)' = Message(n)
<1> DEFINE toast == [level |-> level, at |-> instant, id |-> posts + 1]
           s == Append(log, toast)
           m == IF Len(s) > LogCapacity THEN LogCapacity ELSE Len(s)
<1>1. /\ posts \in Nat /\ instant \in Nat /\ log \in Seq(Toasts) /\ Len(log) \in Nat
      /\ posts' = posts + 1 /\ instant' = instant /\ log' = LastOf(s, LogCapacity)
  BY DEF NotifierType, Post
<1>2. LogCapacity \in Nat \ {0} /\ Len(log) <= LogCapacity
  BY NotifierAssumption DEF LogLatest
<1>3. toast \in Toasts
  BY <1>1 DEF Toasts
<1>4. LogLatest'
  <2>1. LogInv
    BY <1>1, SeqIsSeq DEF LogInv
  <2>2. NotifierNext
    BY DEF NotifierNext, Levels
  <2> QED
    BY <2>1, <2>2, LogStep DEF LogInv
<1> HIDE DEF toast
<1>5. /\ s \in Seq(Toasts) /\ Len(s) = Len(log) + 1 /\ s[Len(log) + 1] = toast
      /\ \A i \in 1..Len(log) : s[i] = log[i]
  BY <1>1, <1>3
<1> HIDE DEF s
<1>a. /\ m \in Nat /\ m <= Len(s) /\ m >= 1
      /\ (Len(s) - m = 0 \/ (Len(s) - m = 1 /\ m = LogCapacity))
  <2>1. CASE Len(s) > LogCapacity
    BY <1>1, <1>2, <1>5, <2>1
  <2>2. CASE ~(Len(s) > LogCapacity)
    BY <1>1, <1>2, <1>5, <2>2
  <2> QED
    BY <2>1, <2>2
<1>6. Len(log') = m /\ \A k \in 1..m : log'[k] = s[(Len(s) - m) + k]
  <2>1. IsSeq(s)
    BY <1>5, SeqIsSeq
  <2>2. /\ Len(LastOf(s, LogCapacity)) = m
        /\ \A k \in 1..m : LastOf(s, LogCapacity)[k] = s[(Len(s) - m) + k]
    BY <1>2, <2>1, LastOfFacts
  <2> QED
    BY <1>1, <2>2
<1>7. log' \in Seq(Toasts)
  <2>1. CASE Len(s) > LogCapacity
    <3>1. log' = SubSeq(s, Len(s) - LogCapacity + 1, Len(s))
      BY <1>1, <2>1 DEF LastOf
    <3> QED
      BY <1>2, <1>5, <2>1, <3>1
  <2>2. CASE ~(Len(s) > LogCapacity)
    BY <1>1, <1>5, <2>2 DEF LastOf
  <2> QED
    BY <2>1, <2>2
<1> HIDE DEF m
<1>8. /\ Forgotten' = Forgotten + (Len(s) - m) /\ Forgotten \in Int /\ Forgotten' \in Int
      /\ Forgotten + Len(log) = posts /\ Forgotten' + m = posts + 1
  <2>1. Forgotten = posts - Len(log) /\ Forgotten' = posts' - Len(log')
    BY DEF Forgotten
  <2>2. Len(log') = m
    BY <1>6
  <2>3. Len(s) = Len(log) + 1
    BY <1>5
  <2> QED
    BY <1>1, <1>a, <2>1, <2>2, <2>3
<1>9. /\ Len(s) = Len(log) + 1 /\ Len(log) \in Nat /\ posts \in Nat
      /\ m \in Nat /\ m <= Len(s) /\ m >= 1
      /\ (Len(s) - m = 0 \/ (Len(s) - m = 1 /\ m = LogCapacity))
  BY <1>1, <1>5, <1>a
<1>10. \/ Forgotten' = Forgotten
       \/ Forgotten' = Forgotten + 1 /\ Len(log') = LogCapacity
  <2>1. CASE Len(s) - m = 0
    BY <1>8, <2>1
  <2>2. CASE Len(s) - m = 1 /\ m = LogCapacity
    BY <1>6, <1>8, <2>2
  <2> QED
    BY <1>9, <2>1, <2>2
<1>11. \A n \in Int : InLog(n)' <=> n \in (Forgotten' + 1)..(posts + 1)
  BY <1>1 DEF InLog
<1>12. InLog(posts)' /\ Message(posts)' = toast
  <2>1. posts + 1 - Forgotten' = m /\ posts + 1 \in (Forgotten' + 1)..(posts + 1) /\ posts + 1 \in Int
    BY <1>8, <1>9
  <2>2. m \in 1..m /\ (Len(s) - m) + m = Len(log) + 1
    BY <1>9
  <2>3. log'[m] = toast
    BY <1>5, <1>6, <2>2
  <2>4. InLog(posts)'
    BY <1>1, <2>1 DEF InLog
  <2>5. Message(posts)' = log'[posts' - Forgotten']
    BY DEF Message
  <2>6. posts' - Forgotten' = m
    <3>1. posts' \in Int /\ Forgotten' \in Int /\ Forgotten' + m = posts' /\ m \in Int
      BY <1>1, <1>8, <1>9
    <3>2. \A a, b, c \in Int : b + c = a => a - b = c
      OBVIOUS
    <3> QED
      BY <3>1, <3>2
  <2> QED
    BY <2>3, <2>4, <2>5, <2>6
<1>13. ASSUME NEW n \in Int, n > Forgotten', n <= posts
       PROVE  InLog(n) /\ InLog(n)' /\ Message(n)' = Message(n)
  <2>1. InLog(n)' /\ InLog(n)
    BY <1>1, <1>8, <1>9, <1>13 DEF InLog
  <2>2. /\ n - Forgotten' \in 1..m /\ (Len(s) - m) + (n - Forgotten') = n - Forgotten
        /\ n - Forgotten \in 1..Len(log)
    BY <1>8, <1>9, <1>13
  <2>3. log'[n - Forgotten'] = log[n - Forgotten]
    BY <1>5, <1>6, <2>2
  <2> QED
    BY <2>1, <2>3 DEF Message
<1>14. \A n \in Int : InLog(n) => n <= posts
  BY <1>1, <1>8 DEF InLog
<1>15. \A n \in Int : InLog(n)' /\ n # posts + 1 => n > Forgotten' /\ n <= posts
  BY <1>1, <1>8, <1>11
<1> QED
  BY <1>1, <1>3, <1>4, <1>7, <1>10, <1>12, <1>13, <1>14, <1>15 DEF toast

\* The stack after a message: the message on top, and the oldest gone if it was full.
LEMMA PostStack ==
  ASSUME NotifierType, Len(active) <= MaxActive, NEW level \in Levels, Post(level)
  PROVE  LET toast == [level |-> level, at |-> instant, id |-> posts + 1] IN
         /\ active' \in Seq(Toasts)
         /\ \E d \in {0, 1} :
              /\ Len(active') = Len(active) + 1 - d
              /\ d = 0 => Len(active) < MaxActive
              /\ d = 1 => Len(active) = MaxActive
              /\ \A k \in 1..Len(active') : active'[k] = IF k = Len(active') THEN toast ELSE active[k + d]
<1> DEFINE toast == [level |-> level, at |-> instant, id |-> posts + 1]
           s == Append(active, toast)
<1>1. /\ active \in Seq(Toasts) /\ Len(active) \in Nat /\ active' = LastOf(s, MaxActive)
      /\ MaxActive \in Nat \ {0} /\ posts \in Nat /\ instant \in Nat
  BY NotifierAssumption DEF NotifierType, Post
<1>2. toast \in Toasts
  BY <1>1 DEF Toasts
<1> HIDE DEF toast
<1>3. /\ s \in Seq(Toasts) /\ Len(s) = Len(active) + 1 /\ s[Len(active) + 1] = toast
      /\ \A i \in 1..Len(active) : s[i] = active[i]
  BY <1>1, <1>2
<1> HIDE DEF s
<1>4. CASE Len(active) = MaxActive
  <2>1. active' = SubSeq(s, Len(s) - MaxActive + 1, Len(s))
    <3>1. Len(s) > MaxActive
      BY <1>1, <1>3, <1>4
    <3> QED
      BY <1>1, <3>1 DEF LastOf
  <2>2. active' = SubSeq(s, 2, Len(s))
    <3>1. Len(s) - MaxActive + 1 = 2
      BY <1>1, <1>3, <1>4
    <3> QED
      BY <2>1, <3>1
  <2>3. /\ active' \in Seq(Toasts) /\ Len(active') = Len(active)
        /\ \A k \in 1..Len(active) : active'[k] = s[k + 1]
    BY <1>1, <1>3, <1>4, <2>2
  <2>4. \A k \in 1..Len(active') : active'[k] = IF k = Len(active') THEN toast ELSE active[k + 1]
    <3> TAKE k \in 1..Len(active')
    <3>1. CASE k = Len(active)
      BY <1>1, <1>3, <2>3, <3>1
    <3>2. CASE k # Len(active)
      <4>1. k + 1 \in 1..Len(active)
        BY <1>1, <2>3, <3>2
      <4> QED
        BY <1>3, <2>3, <3>2, <4>1
    <3> QED
      BY <3>1, <3>2
  <2>5. Len(active') = Len(active) + 1 - 1
    BY <1>1, <2>3
  <2> QED
    BY <1>4, <2>3, <2>4, <2>5 DEF toast
<1>5. CASE Len(active) < MaxActive
  <2>1. active' = s
    BY <1>1, <1>3, <1>5 DEF LastOf
  <2>2. \A k \in 1..Len(active') : active'[k] = IF k = Len(active') THEN toast ELSE active[k + 0]
    <3> TAKE k \in 1..Len(active')
    <3>1. CASE k = Len(s)
      BY <1>1, <1>3, <2>1, <3>1
    <3>2. CASE k # Len(s)
      <4>1. k + 0 = k /\ k \in 1..Len(active)
        BY <1>1, <1>3, <2>1, <3>2
      <4> QED
        BY <1>3, <2>1, <3>2, <4>1
    <3> QED
      BY <3>1, <3>2
  <2>3. Len(active') = Len(active) + 1 - 0
    BY <1>1, <1>3, <2>1
  <2> QED
    BY <1>3, <1>5, <2>1, <2>2, <2>3 DEF toast
<1> QED
  BY <1>1, <1>4, <1>5

\* The log has room for every toast on screen and what came after it: otherwise the
\* stack would be over its limit.
LEMMA Room ==
  ASSUME NotifierType, LogLatest, LogTimes, Stays, Pace,
         Len(active) <= MaxActive, Sorted(active),
         NEW e \in OnScreen, e.id + 1 > Forgotten, e.id <= posts,
         \A k \in 1..Len(active) : active[k].id <= posts
  PROVE  posts - e.id < LogCapacity
<1>1. /\ MaxActive \in Nat \ {0} /\ LogCapacity \in Nat \ {0} /\ TtlInfo \in Nat /\ TtlError \in Nat
      /\ posts \in Nat /\ Len(log) \in Nat /\ Forgotten = posts - Len(log) /\ instant \in Nat
  BY NotifierAssumption DEF NotifierType, Forgotten
<1>2. PICK rounds \in 1..LogCapacity :
        Times(rounds, MaxActive - 1) < LogCapacity /\ TtlError <= Times(rounds, TtlInfo)
  BY NotifierAssumption DEF Times
<1>3. e \in Toasts /\ e.id \in Nat /\ e.at \in Nat /\ Ttl(e.level) \in Nat /\ Ttl(e.level) <= TtlError
  BY ScreenFacts, ToastFacts
<1>4. \A n \in (e.id + 1)..posts : InLog(n)
  BY <1>1, <1>3 DEF InLog
<1>a. PICK others \in Nat : others = MaxActive - 1
  BY <1>1
<1>b. PICK skipped \in Nat, waited \in Nat :
        /\ skipped = Times(rounds - 1, others) /\ Times(rounds, others) = skipped + others
        /\ waited = Times(rounds - 1, TtlInfo) /\ Times(rounds, TtlInfo) = waited + TtlInfo
  <2>1. PICK r \in Nat : r = rounds - 1 /\ rounds = r + 1
    BY <1>1, <1>2
  <2>2. Times(r, others) \in Nat /\ Times(r + 1, others) = Times(r, others) + others
    BY TimesFacts
  <2>3. Times(r, TtlInfo) \in Nat /\ Times(r + 1, TtlInfo) = Times(r, TtlInfo) + TtlInfo
    BY <1>1, TimesFacts
  <2> QED
    BY <2>1, <2>2, <2>3
<1>c. PICK id \in Nat, at \in Nat, ttl \in Nat : id = e.id /\ at = e.at /\ ttl = Ttl(e.level)
  BY <1>3
<1>d. PICK first \in Nat : first = id + skipped + 1
  OBVIOUS
<1> SUFFICES ASSUME posts - id >= LogCapacity PROVE FALSE
  BY <1>1, <1>c, SMTT(30)
<1>6. posts - id > skipped + others /\ ttl <= waited + TtlInfo
  <2>1. skipped + others < LogCapacity
    BY <1>2, <1>a, <1>b
  <2>2. TtlError <= waited + TtlInfo /\ ttl <= TtlError
    BY <1>2, <1>3, <1>b, <1>c
  <2> QED
    BY <1>1, <2>1, <2>2
<1>7. first + others <= posts /\ first > id
  BY <1>1, <1>6, <1>d
<1>8. first \in (e.id + 1)..posts /\ first > e.id + Times(rounds - 1, MaxActive - 1)
  <2>1. first \in (id + 1)..posts /\ first > id + skipped
    BY <1>1, <1>7, <1>d
  <2> QED
    BY <1>a, <1>b, <1>c, <2>1
<1>9. Message(first).at >= at + waited
  <2>1. rounds - 1 \in Nat
    BY <1>2
  <2> QED
    BY <1>8, <1>b, <1>c, <2>1 DEF Pace
<1>10. ASSUME NEW n \in first..posts
       PROVE  \E k \in 1..Len(active) : active[k].id = n
  <2>1. n \in (e.id + 1)..posts /\ n \in Int /\ first <= n
    <3>1. n \in (id + 1)..posts /\ n \in Int /\ first <= n
      BY <1>1, <1>7
    <3> QED
      BY <1>c, <3>1
  <2>2. Message(n) \in Toasts /\ Message(n).id = n /\ Message(first) \in Toasts
    BY <1>4, <1>8, <2>1, MessageFacts
  <2>3. Message(first).at <= Message(n).at
    BY <1>4, <1>8, <2>1 DEF LogTimes
  <2>4. Message(n).at \in Nat /\ Message(first).at \in Nat
    BY <2>2, ToastFacts
  <2>5. Message(n).at + TtlInfo >= e.at + Ttl(e.level)
    <3>1. \A a, b \in Nat : b >= at + waited /\ b <= a => a + TtlInfo >= at + ttl
      BY <1>1, <1>6
    <3> QED
      BY <1>9, <1>c, <2>3, <2>4, <3>1
  <2>6. Message(n) \in OnScreen
    BY <2>1, <2>5 DEF Stays
  <2> QED
    BY <2>2, <2>6, ScreenFacts
<1>11. Len(active) > others /\ active[Len(active) - others].id = posts - others
  <2>1. \A i \in (posts - others)..posts : i \in first..posts
    BY <1>1, <1>7
  <2>2. active \in Seq(Toasts)
    BY DEF NotifierType
  <2>3. \A i \in (posts - others)..posts : \E k \in 1..Len(active) : active[k].id = i
    BY <1>10, <2>1
  <2>4. posts \in Nat
    BY <1>1
  <2> QED
    BY <2>2, <2>3, <2>4, Crowded
<1>12. PICK k \in 1..Len(active) : e = active[k]
  BY ScreenFacts
<1>13. Len(active) \in Nat /\ Len(active) = MaxActive /\ Len(active) - others = 1
  <2>1. Len(active) \in Nat /\ Len(active) > others /\ Len(active) <= MaxActive
    BY <1>11, ScreenFacts
  <2> QED
    BY <1>1, <1>a, <2>1
<1>14. active[1].id > e.id
  <2>1. posts - others > id
    BY <1>1, <1>7
  <2> QED
    BY <1>11, <1>13, <1>c, <2>1
<1>15. active[1].id <= active[k].id
  <2>1. CASE k = 1
    BY <1>3, <1>12, <2>1
  <2>2. CASE 1 < k
    <3>1. 1 \in 1..Len(active)
      BY <1>1, <1>13
    <3>2. active[1].id < active[k].id
      BY <2>2, <3>1 DEF Sorted
    <3>3. active[1].id \in Nat /\ active[k].id \in Nat
      BY <3>1, ScreenFacts, ToastFacts
    <3> QED
      BY <3>2, <3>3
  <2> QED
    BY <1>13, <2>1, <2>2
<1> QED
  <2>1. active[1].id \in Nat
    <3>1. 1 \in 1..Len(active)
      BY <1>1, <1>13
    <3> QED
      BY <3>1, ScreenFacts, ToastFacts
  <2> QED
    BY <1>3, <1>12, <1>14, <1>15, <2>1

\* So every toast on screen is in the log.
LEMMA Held ==
  ASSUME NotifierInv, NEW e \in OnScreen
  PROVE  /\ InLog(e.id) /\ Message(e.id) = e /\ e \in Toasts
         /\ \A n \in e.id..posts : n \in Int /\ InLog(n)
<1>1. /\ posts \in Nat /\ Len(log) \in Nat /\ LogCapacity \in Nat /\ Forgotten = posts - Len(log)
      /\ (Len(log) = LogCapacity \/ Len(log) = posts)
  BY NotifierAssumption DEF NotifierInv, NotifierType, LogLatest, Forgotten
<1>2. e \in Toasts /\ e.id \in Nat
  BY ScreenFacts, ToastFacts DEF NotifierInv
<1>3. e.id >= 1 /\ Forgotten <= e.id /\ e.id <= posts /\ (InLog(e.id) => Message(e.id) = e)
  BY DEF NotifierInv, Stack
<1>4. \A k \in 1..Len(active) : active[k].id <= posts
  BY ScreenFacts DEF NotifierInv, Stack
<1>5. e.id + 1 > Forgotten
  BY <1>1, <1>2, <1>3
<1>6. posts - e.id < LogCapacity
  BY <1>3, <1>4, <1>5, Room DEF NotifierInv, Stack
<1>7. e.id > Forgotten
  <2>1. CASE Len(log) = LogCapacity
    BY <1>1, <1>2, <1>6, <2>1
  <2>2. CASE Len(log) = posts
    BY <1>1, <1>2, <1>3, <2>2
  <2> QED
    BY <1>1, <2>1, <2>2
<1>8. \A n \in e.id..posts : n \in Int /\ InLog(n)
  BY <1>1, <1>2, <1>3, <1>7 DEF InLog
<1>9. e.id \in e.id..posts
  BY <1>1, <1>2, <1>3
<1> QED
  BY <1>2, <1>3, <1>8, <1>9

\* The messages from one on, which comes late enough after another.
Late(i, id, skipped, final) ==
  /\ i > id + skipped /\ i <= final /\ i > id /\ i \in (id + 1)..final /\ i \in id..final
  /\ \A n \in i..final : n \in (id + 1)..final /\ n \in id..final /\ n \in Int /\ i <= n

LEMMA LateMessages ==
  ASSUME NEW final \in Nat, NEW id \in Nat, NEW skipped \in Nat, NEW others \in Nat \ {0}, NEW far \in Nat,
         far = skipped + others, final + 1 > id + far
  PROVE  Late(final + 1 - others, id, skipped, final)
<1>1. PICK i \in Int : i = final + 1 - others
  OBVIOUS
<1>2. /\ i > id + skipped /\ i <= final /\ i > id
  BY <1>1
<1>3. i \in (id + 1)..final /\ i \in id..final
  BY <1>2
<1>4. \A n \in i..final : n \in (id + 1)..final /\ n \in id..final /\ n \in Int /\ i <= n
  BY <1>2
<1> QED
  BY <1>1, <1>2, <1>3, <1>4 DEF Late

\* How long a message has waited, when a later one has expired.
LEMMA LongWait ==
  ASSUME NEW today \in Nat, NEW a \in Nat, NEW b \in Nat, NEW ttl \in Nat, NEW info \in Nat, NEW at \in Nat,
         NEW waited \in Nat, info <= ttl, today - a >= ttl, b <= a, b >= at + waited
  PROVE  today >= at + (waited + info)
  OBVIOUS

\* A place from the end of a list, against one that is not nearer to the end.
LEMMA FromTheEnd ==
  ASSUME NEW len \in Nat, NEW most \in Nat, NEW k \in Nat, len - k <= most - 2, NEW t \in Nat, len > t,
         t = (most - 1) - 1
  PROVE  len - t \in 1..len /\ len - t <= k
  OBVIOUS

\* Equal or smaller.
LEMMA AtMost == \A x, y \in Nat : x = y \/ x < y => x <= y
  OBVIOUS

\* The next message waits like the others did: the stack is full of later ones, or
\* one of them has expired.
LEMMA NextPace ==
  ASSUME NotifierInv, NEW k \in 1..Len(active), Len(active) - k <= MaxActive - 2,
         NEW id \in Nat, id = active[k].id, NEW at \in Nat, at = active[k].at, NEW m \in Nat,
         NEW far \in Nat, far = Times(m, MaxActive - 1), posts + 1 > id + far,
         NEW long \in Nat, long = Times(m, TtlInfo)
  PROVE  instant >= at + long
<1> DEFINE e == active[k]
<1>1. /\ MaxActive \in Nat /\ TtlInfo \in Nat /\ posts \in Nat /\ instant \in Nat
      /\ Len(active) \in Nat /\ e \in OnScreen /\ e \in Toasts
  BY NotifierAssumption, ScreenFacts DEF NotifierInv, NotifierType
<1>2. /\ InLog(e.id) /\ Message(e.id) = e
      /\ \A n \in e.id..posts : n \in Int /\ InLog(n)
  BY <1>1, Held
<1>3. id = e.id /\ at = e.at
  OBVIOUS
<1>4. at <= instant
  BY <1>2, <1>3 DEF NotifierInv, LogTimes
<1>5. CASE m = 0
  <2>1. long = 0
    BY <1>1, <1>5, TimesFacts
  <2> QED
    BY <1>1, <1>4, <2>1
<1>6. CASE m # 0
  <2>1. PICK others \in Nat \ {0} : others = MaxActive - 1
    BY <1>1
  <2>2. PICK skipped \in Nat, waited \in Nat :
          /\ skipped = Times(m - 1, others) /\ Times(m, others) = skipped + others
          /\ waited = Times(m - 1, TtlInfo) /\ Times(m, TtlInfo) = waited + TtlInfo
    <3>1. PICK r \in Nat : r = m - 1 /\ m = r + 1
      BY <1>6
    <3>2. Times(r, others) \in Nat /\ Times(r + 1, others) = Times(r, others) + others
      BY TimesFacts
    <3>3. Times(r, TtlInfo) \in Nat /\ Times(r + 1, TtlInfo) = Times(r, TtlInfo) + TtlInfo
      BY <1>1, TimesFacts
    <3> QED
      BY <3>1, <3>2, <3>3
  <2>3. PICK i \in Int : i = posts + 1 - others
    BY <1>1
  <2>4. far = skipped + others
    BY <2>1, <2>2
  <2>5. /\ i > id + skipped /\ i <= posts /\ i > id /\ i \in (id + 1)..posts /\ i \in id..posts
        /\ \A n \in i..posts : n \in (id + 1)..posts /\ n \in id..posts /\ n \in Int /\ i <= n
    <3>1. Late(i, id, skipped, posts)
      BY <1>1, <2>3, <2>4, LateMessages
    <3> QED
      BY <3>1 DEF Late
  <2>6. i \in (e.id + 1)..posts /\ i > e.id + Times(m - 1, MaxActive - 1) /\ i \in e.id..posts
    BY <1>3, <2>1, <2>2, <2>5
  <2>7. Message(i).at >= at + waited
    <3>1. m - 1 \in Nat
      BY <1>6
    <3> QED
      BY <1>1, <1>3, <2>2, <2>6, <3>1 DEF NotifierInv, Pace
  <2>8. \E n \in i..posts : ~\E j \in 1..Len(active) : active[j].id = n
    <3> SUFFICES ASSUME \A n \in i..posts : \E j \in 1..Len(active) : active[j].id = n PROVE FALSE
      BY Zenon
    <3>1. PICK t \in Nat : t = others - 1
      OBVIOUS
    <3>2. posts - t = i
      BY <1>1, <2>3, <3>1
    <3>3. \A j \in 1..Len(active) : active[j].id <= posts
      BY ScreenFacts DEF NotifierInv, Stack
    <3>4. active \in Seq(Toasts) /\ Sorted(active)
      BY DEF NotifierInv, NotifierType, Stack
    <3>5. Len(active) > t /\ active[Len(active) - t].id = posts - t
      <4>1. \A n \in (posts - t)..posts : \E j \in 1..Len(active) : active[j].id = n
        BY <3>2
      <4> QED
        BY <1>1, <3>3, <3>4, <4>1, Crowded, ZenonT(60)
    <3>6. Len(active) - t \in 1..Len(active) /\ Len(active) - t <= k
      <4>1. t = (MaxActive - 1) - 1 /\ k \in Nat
        BY <1>1, <2>1, <3>1
      <4> QED
        BY <1>1, <3>5, <4>1, FromTheEnd
    <3>7. active[Len(active) - t].id <= id
      <4>1. CASE Len(active) - t = k
        BY <1>3, <4>1, AtMost
      <4>2. CASE Len(active) - t < k
        <5>1. active[Len(active) - t].id < active[k].id
          BY <3>4, <3>6, <4>2 DEF Sorted
        <5>2. active[Len(active) - t].id \in Nat
          BY <3>6, ScreenFacts, ToastFacts DEF NotifierInv
        <5> QED
          BY <1>3, <5>1, <5>2, AtMost
      <4> QED
        BY <1>1, <3>6, <4>1, <4>2
    <3> QED
      BY <2>5, <3>2, <3>5, <3>7
  <2>9. PICK n \in i..posts : ~\E j \in 1..Len(active) : active[j].id = n
    BY <2>8
  <2>10. n \in Int /\ n \in (e.id + 1)..posts /\ n \in e.id..posts /\ i <= n
    BY <1>3, <2>5
  <2>11. Message(n) \in Toasts /\ Message(n).id = n /\ Message(i) \in Toasts
    BY <1>2, <2>6, <2>10, MessageFacts DEF NotifierInv
  <2>12. Message(n) \notin OnScreen
    BY <2>9, <2>11, ScreenFacts DEF NotifierInv
  <2>13. IsExpired(Message(n))
    BY <1>1, <2>10, <2>12 DEF NotifierInv, Gone
  <2>14. Message(i).at <= Message(n).at
    BY <1>2, <2>6, <2>10 DEF NotifierInv, LogTimes
  <2>15. PICK a \in Nat, b \in Nat, ttl \in Nat :
           a = Message(n).at /\ b = Message(i).at /\ ttl = Ttl(Message(n).level) /\ TtlInfo <= ttl
    BY <2>11, ToastFacts
  <2>16. instant - a >= ttl /\ b <= a /\ b >= at + waited
    BY <2>7, <2>13, <2>14, <2>15 DEF IsExpired
  <2>17. instant >= at + (waited + TtlInfo)
    BY <1>1, <2>15, <2>16, LongWait
  <2>18. long = waited + TtlInfo
    BY <2>2
  <2> QED
    BY <2>17, <2>18
<1> QED
  BY <1>5, <1>6

\* What is on screen after a message: the message, and of the others all from some
\* place on, so that the stack has room for another after each of them.
LEMMA PostScreen ==
  ASSUME NotifierInv, NEW level \in Levels, Post(level)
  PROVE  LET toast == [level |-> level, at |-> instant, id |-> posts + 1] IN
         /\ active' \in Seq(Toasts) /\ Len(active') <= MaxActive /\ Sorted(active')
         /\ toast \in OnScreen'
         /\ \A e \in OnScreen' : e # toast =>
              /\ e \in OnScreen
              /\ \E k \in 1..Len(active) : e = active[k] /\ Len(active) - k <= MaxActive - 2
              /\ \A x \in OnScreen : x.id > e.id => x \in OnScreen'
<1> DEFINE toast == [level |-> level, at |-> instant, id |-> posts + 1]
           L == Len(active)
           l == Len(active')
<1>1. /\ MaxActive \in Nat \ {0} /\ L \in Nat /\ L <= MaxActive /\ Sorted(active) /\ NotifierType
      /\ posts \in Nat /\ posts + 1 \in Nat
      /\ \A k \in 1..L : active[k] \in OnScreen /\ active[k].id \in Nat
  BY NotifierAssumption, ScreenFacts, ToastFacts DEF NotifierInv, Stack, NotifierType
<1>2. PICK d \in {0, 1} :
        /\ l = L + 1 - d
        /\ d = 0 => L < MaxActive
        /\ d = 1 => L = MaxActive
        /\ \A k \in 1..l : active'[k] = IF k = l THEN toast ELSE active[k + d]
  BY <1>1, PostStack
<1>3. active' \in Seq(Toasts)
  BY <1>1, PostStack
<1>4. toast.id = posts + 1
  OBVIOUS
<1> HIDE DEF toast
<1>5. l \in Nat /\ l >= 1 /\ l <= MaxActive /\ l - 1 <= L
  BY <1>1, <1>2
<1>6. \A k \in 1..l : k # l => k + d \in 1..L /\ L - (k + d) <= MaxActive - 2
  BY <1>1, <1>2, <1>5
<1>7. active'[l] = toast /\ l \in 1..l
  BY <1>2, <1>5
<1>8. toast \in OnScreen'
  BY <1>7 DEF OnScreen
<1>9. \A k \in 1..L : active[k].id <= posts
  BY <1>1 DEF NotifierInv, Stack
<1>10. Sorted(active')
  <2> SUFFICES ASSUME NEW j \in 1..l, NEW k \in 1..l, j < k PROVE active'[j].id < active'[k].id
    BY DEF Sorted
  <2>0. j # l
    BY <1>5
  <2>1. j + d \in 1..L /\ active'[j] = active[j + d]
    BY <1>2, <1>6, <2>0
  <2>2. CASE k = l
    BY <1>1, <1>4, <1>7, <1>9, <2>1, <2>2
  <2>3. CASE k # l
    <3>1. k + d \in 1..L /\ active'[k] = active[k + d] /\ j + d < k + d
      BY <1>2, <1>6, <2>3
    <3> QED
      BY <1>1, <2>1, <3>1 DEF Sorted
  <2> QED
    BY <2>2, <2>3
<1>11. ASSUME NEW e \in OnScreen', e # toast
       PROVE  /\ e \in OnScreen
              /\ \E k \in 1..L : e = active[k] /\ L - k <= MaxActive - 2
              /\ \A x \in OnScreen : x.id > e.id => x \in OnScreen'
  <2>1. PICK j \in 1..l : e = active'[j]
    BY DEF OnScreen
  <2>2. j # l
    BY <1>7, <1>11, <2>1
  <2>3. j + d \in 1..L /\ e = active[j + d] /\ L - (j + d) <= MaxActive - 2
    BY <1>2, <1>6, <2>1, <2>2
  <2>4. ASSUME NEW x \in OnScreen, x.id > e.id PROVE x \in OnScreen'
    <3>1. PICK i \in 1..L : x = active[i]
      BY DEF OnScreen
    <3>2. i > j + d
      <4>1. ~(i = j + d)
        BY <1>1, <2>3, <2>4, <3>1
      <4>2. ~(i < j + d)
        <5>1. ASSUME i < j + d PROVE FALSE
          <6>1. active[i].id < active[j + d].id
            BY <1>1, <2>3, <5>1 DEF Sorted
          <6> QED
            BY <1>1, <2>3, <2>4, <3>1, <6>1
        <5> QED
          BY <5>1
      <4> QED
        BY <1>1, <2>3, <4>1, <4>2
    <3>3. i - d \in 1..l /\ i - d # l /\ (i - d) + d = i
      BY <1>1, <1>2, <1>5, <2>3, <3>2
    <3>4. active'[i - d] = x
      BY <1>2, <3>1, <3>3
    <3> QED
      BY <3>3, <3>4 DEF OnScreen
  <2> QED
    BY <1>1, <2>3, <2>4
<1> QED
  BY <1>3, <1>5, <1>8, <1>10, <1>11 DEF toast

\* What a message leaves on screen is still in the log, and so is what came after it.
LEMMA PostKept ==
  ASSUME NotifierInv, NEW level \in Levels, Post(level), NEW e \in OnScreen
  PROVE  /\ e \in Toasts /\ e.id \in Nat /\ e.id >= 1 /\ e.id <= posts /\ Forgotten' <= e.id
         /\ InLog(e.id)' => Message(e.id)' = e
         /\ \A n \in (e.id + 1)..posts :
              /\ n \in Int /\ InLog(n) /\ InLog(n)' /\ Message(n)' = Message(n)
              /\ Message(n) \in Toasts /\ Message(n).id = n
<1>1. /\ NotifierType /\ LogLatest /\ posts \in Nat /\ Len(log) \in Nat /\ Forgotten = posts - Len(log)
  BY DEF NotifierInv, NotifierType, Forgotten
<1>2. /\ InLog(e.id) /\ Message(e.id) = e /\ e \in Toasts
      /\ \A n \in e.id..posts : n \in Int /\ InLog(n)
  BY Held
<1>3. e.id \in Nat
  BY <1>2, ToastFacts
<1>4. e.id >= 1 /\ e.id <= posts
  BY DEF NotifierInv, Stack
<1>5. /\ Forgotten' = Forgotten \/ Forgotten' = Forgotten + 1
      /\ posts' = posts + 1
      /\ \A n \in Int : InLog(n) /\ n > Forgotten' => InLog(n)' /\ Message(n)' = Message(n)
      /\ \A n \in Int : InLog(n)' /\ n # posts + 1 => InLog(n) /\ Message(n)' = Message(n)
  BY <1>1, PostLog
<1>6. Forgotten' <= e.id /\ Forgotten' \in Int
  BY <1>1, <1>2, <1>3, <1>5 DEF InLog
<1>7. InLog(e.id)' => Message(e.id)' = e
  <2>1. e.id # posts + 1 /\ e.id \in Int
    BY <1>1, <1>3, <1>4
  <2> QED
    BY <1>2, <1>5, <2>1
<1>8. ASSUME NEW n \in (e.id + 1)..posts
      PROVE  /\ n \in Int /\ InLog(n) /\ InLog(n)' /\ Message(n)' = Message(n)
             /\ Message(n) \in Toasts /\ Message(n).id = n
  <2>1. n \in Int /\ n \in e.id..posts /\ n > Forgotten'
    BY <1>1, <1>3, <1>6
  <2>2. InLog(n)
    BY <1>2, <2>1
  <2> QED
    BY <1>1, <1>5, <2>1, <2>2, MessageFacts
<1> QED
  BY <1>2, <1>3, <1>4, <1>6, <1>7, <1>8

\* A message keeps the invariant: the log and the stack move together, and the message
\* itself has waited as long as it must.
LEMMA PostKeeps ==
  ASSUME NotifierInv, NEW level \in Levels, Post(level)
  PROVE  NotifierInv'
<1> DEFINE toast == [level |-> level, at |-> instant, id |-> posts + 1]
<1>1. /\ NotifierType /\ LogLatest /\ LogTimes /\ Gone /\ Stays /\ Pace
      /\ posts \in Nat /\ instant \in Nat /\ Len(log) \in Nat /\ Forgotten = posts - Len(log)
  BY DEF NotifierInv, NotifierType, Forgotten
<1>2. /\ toast \in Toasts /\ posts' = posts + 1 /\ instant' = instant
      /\ log' \in Seq(Toasts) /\ LogLatest'
      /\ InLog(posts)' /\ Message(posts)' = toast
      /\ (Forgotten' = Forgotten \/ Forgotten' = Forgotten + 1)
      /\ \A n \in Int : InLog(n)' /\ n # posts + 1 => InLog(n) /\ Message(n)' = Message(n)
  BY <1>1, PostLog
<1>3. /\ active' \in Seq(Toasts) /\ Len(active') <= MaxActive /\ Sorted(active')
      /\ toast \in OnScreen'
      /\ \A e \in OnScreen' : e # toast =>
           /\ e \in OnScreen
           /\ \E k \in 1..Len(active) : e = active[k] /\ Len(active) - k <= MaxActive - 2
           /\ \A x \in OnScreen : x.id > e.id => x \in OnScreen'
  BY PostScreen
<1>4. toast.id = posts + 1 /\ toast.at = instant /\ toast.level = level
  OBVIOUS
<1> HIDE DEF toast
<1>5. NotifierType'
  BY <1>1, <1>2, <1>3 DEF NotifierType
<1>6. \A n \in Int : n = posts + 1 => InLog(n)' /\ Message(n)' = toast
  <2> SUFFICES ASSUME NEW n \in Int, n = posts + 1 PROVE InLog(n)' /\ Message(n)' = toast
    OBVIOUS
  <2>1. n = posts'
    BY <1>2
  <2> QED
    BY <1>2, <2>1 DEF InLog, Message
<1>7. LogTimes'
  <2>1. \A n \in Int : InLog(n) => n <= posts /\ Message(n) \in Toasts /\ Message(n).at \in Nat
    BY <1>1, MessageFacts, ToastFacts DEF InLog
  <2> SUFFICES ASSUME NEW n \in Int, NEW m \in Int, InLog(n)', InLog(m)'
               PROVE  Message(n)'.at <= instant /\ (n <= m => Message(n)'.at <= Message(m)'.at)
    BY <1>2 DEF LogTimes
  <2>2. CASE n = posts + 1
    <3>1. CASE m = posts + 1
      BY <1>1, <1>4, <1>6, <2>2, <3>1
    <3>2. CASE m # posts + 1
      <4>1. ~(n <= m)
        BY <1>1, <1>2, <2>1, <2>2, <3>2
      <4> QED
        BY <1>1, <1>4, <1>6, <2>2, <4>1
    <3> QED
      BY <3>1, <3>2
  <2>3. CASE n # posts + 1
    <3>1. InLog(n) /\ Message(n)' = Message(n) /\ Message(n).at <= instant
      BY <1>1, <1>2, <2>3 DEF LogTimes
    <3>2. CASE m = posts + 1
      BY <1>4, <1>6, <3>1, <3>2
    <3>3. CASE m # posts + 1
      <4>1. InLog(m) /\ Message(m)' = Message(m)
        BY <1>2, <3>3
      <4> QED
        BY <1>1, <3>1, <4>1 DEF LogTimes
    <3> QED
      BY <3>2, <3>3
  <2> QED
    BY <2>2, <2>3
<1>8. Stack'
  <2> SUFFICES ASSUME NEW e \in OnScreen'
               PROVE  /\ e.id >= 1 /\ Forgotten' <= e.id /\ e.id <= posts'
                      /\ InLog(e.id)' => Message(e.id)' = e
    BY <1>3 DEF Stack
  <2>1. CASE e = toast
    <3>1. e.id = posts + 1 /\ e.id \in Int
      BY <1>1, <1>4, <2>1
    <3>2. Forgotten' <= posts + 1
      BY <1>1, <1>2
    <3> QED
      BY <1>1, <1>2, <1>6, <2>1, <3>1, <3>2
  <2>2. CASE e # toast
    <3>1. /\ e.id \in Nat /\ e.id >= 1 /\ e.id <= posts /\ Forgotten' <= e.id
          /\ InLog(e.id)' => Message(e.id)' = e
      BY <1>3, <2>2, PostKept
    <3> QED
      BY <1>1, <1>2, <3>1
  <2> QED
    BY <2>1, <2>2
<1>9. ASSUME NEW e \in OnScreen', NEW n \in (e.id + 1)..posts'
      PROVE  /\ e # toast /\ e \in OnScreen /\ e \in Toasts /\ e.id \in Nat /\ n \in Int
             /\ \/ n = posts + 1 /\ Message(n)' = toast
                \/ /\ n \in (e.id + 1)..posts /\ Message(n)' = Message(n) /\ Message(n).id = n
                   /\ Message(n) \in Toasts
                   /\ Message(n) \in OnScreen => Message(n) \in OnScreen'
  <2>1. e # toast
    <3>1. ASSUME e = toast PROVE FALSE
      BY <1>1, <1>2, <1>4, <1>9, <3>1
    <3> QED
      BY <3>1
  <2>2. e \in OnScreen /\ \A x \in OnScreen : x.id > e.id => x \in OnScreen'
    BY <1>3, <2>1
  <2>3. e.id \in Nat /\ e \in Toasts
    BY <2>2, PostKept
  <2>4. n \in Int /\ n > e.id /\ (n = posts + 1 \/ n \in (e.id + 1)..posts)
    BY <1>1, <1>2, <2>3
  <2>5. CASE n = posts + 1
    BY <1>6, <2>1, <2>2, <2>3, <2>4, <2>5
  <2>6. CASE n \in (e.id + 1)..posts
    <3>1. Message(n)' = Message(n) /\ Message(n).id = n /\ Message(n) \in Toasts
      BY <2>2, <2>6, PostKept
    <3>2. Message(n) \in OnScreen => Message(n) \in OnScreen'
      BY <2>2, <2>4, <3>1
    <3> QED
      BY <2>1, <2>2, <2>3, <2>4, <2>6, <3>1, <3>2
  <2> QED
    BY <2>4, <2>5, <2>6
<1>10. Gone'
  <2> SUFFICES ASSUME NEW e \in OnScreen', NEW n \in (e.id + 1)..posts'
               PROVE  Message(n)' \in OnScreen' \/ IsExpired(Message(n))'
    BY DEF Gone
  <2>1. CASE n = posts + 1 /\ Message(n)' = toast
    BY <1>3, <2>1
  <2>2. CASE n \in (e.id + 1)..posts /\ Message(n)' = Message(n)
    <3>1. e \in OnScreen /\ (Message(n) \in OnScreen => Message(n) \in OnScreen')
      BY <1>3, <1>9, <2>2
    <3>2. Message(n) \in OnScreen \/ IsExpired(Message(n))
      BY <1>1, <2>2, <3>1 DEF Gone
    <3>3. IsExpired(Message(n)) => IsExpired(Message(n))'
      BY <1>2, <2>2 DEF IsExpired
    <3> QED
      BY <2>2, <3>1, <3>2, <3>3
  <2> QED
    BY <1>9, <2>1, <2>2
<1>11. Stays'
  <2> SUFFICES ASSUME NEW e \in OnScreen', NEW n \in (e.id + 1)..posts',
                      Message(n)'.at + TtlInfo >= e.at + Ttl(e.level)
               PROVE  Message(n)' \in OnScreen'
    BY DEF Stays
  <2>1. CASE n = posts + 1 /\ Message(n)' = toast
    BY <1>3, <2>1
  <2>2. CASE n \in (e.id + 1)..posts /\ Message(n)' = Message(n)
    <3>1. e \in OnScreen /\ (Message(n) \in OnScreen => Message(n) \in OnScreen')
      BY <1>3, <1>9, <2>2
    <3>2. Message(n) \in OnScreen
      BY <1>1, <2>2, <3>1 DEF Stays
    <3> QED
      BY <2>2, <3>1, <3>2
  <2> QED
    BY <1>9, <2>1, <2>2
<1>12. Pace'
  <2> SUFFICES ASSUME NEW e \in OnScreen', NEW n \in (e.id + 1)..posts', NEW m \in Nat,
                      n > e.id + Times(m, MaxActive - 1)
               PROVE  Message(n)'.at >= e.at + Times(m, TtlInfo)
    BY DEF Pace
  <2>1. CASE n = posts + 1 /\ Message(n)' = toast
    <3>1. PICK k \in 1..Len(active) : e = active[k] /\ Len(active) - k <= MaxActive - 2
      BY <1>3, <1>9
    <3>2. instant >= active[k].at + Times(m, TtlInfo)
      <4>1. PICK far \in Nat, long \in Nat : far = Times(m, MaxActive - 1) /\ long = Times(m, TtlInfo)
        <5>1. MaxActive - 1 \in Nat /\ TtlInfo \in Nat
          BY NotifierAssumption
        <5> QED
          BY <5>1, TimesFacts
      <4>2. PICK id \in Nat, at \in Nat : id = active[k].id /\ at = active[k].at
        BY <3>1, ScreenFacts, ToastFacts DEF NotifierInv
      <4>3. posts + 1 > id + far
        BY <2>1, <3>1, <4>1, <4>2
      <4> QED
        BY <3>1, <4>1, <4>2, <4>3, NextPace
    <3> QED
      BY <1>4, <2>1, <3>1, <3>2
  <2>2. CASE n \in (e.id + 1)..posts /\ Message(n)' = Message(n)
    <3>1. e \in OnScreen
      BY <1>9
    <3> QED
      BY <1>1, <2>2, <3>1 DEF Pace
  <2> QED
    BY <1>9, <2>1, <2>2
<1> QED
  BY <1>2, <1>5, <1>7, <1>8, <1>10, <1>11, <1>12 DEF NotifierInv

\* A look at the screen, clearing it, and time passing.
LEMMA ExpireKeeps ==
  ASSUME NotifierInv, Expire
  PROVE  NotifierInv'
<1>1. /\ NotifierType /\ LogLatest /\ LogTimes /\ Stack /\ Gone /\ Stays /\ Pace
      /\ Sorted(active) /\ Len(active) \in Nat /\ Len(active) <= MaxActive /\ MaxActive \in Nat
      /\ instant \in Nat /\ TtlInfo \in Nat
  BY NotifierAssumption DEF NotifierInv, NotifierType, Stack
<1>2. active' = Expired /\ instant' = instant /\ log' = log /\ posts' = posts /\ Forgotten' = Forgotten
  BY DEF Expire, Forgotten
<1>3. KeptOf(active', Len(active))
  BY <1>1, <1>2, ExpiredKept
<1>4. active' \in Seq(Toasts) /\ Len(active') \in Nat /\ Len(active') <= MaxActive /\ Sorted(active')
  BY <1>1, <1>3 DEF KeptOf
<1>5. \A e : e \in OnScreen' <=> e \in OnScreen /\ ~IsExpired(e)
  <2>1. \A e \in OnScreen' : \E k \in 1..Len(active') : e = active'[k]
    BY DEF OnScreen
  <2>2. \A k \in 1..Len(active') : active'[k] \in OnScreen'
    BY DEF OnScreen
  <2>3. \A k \in 1..Len(active') : \E j \in 1..Len(active) : active'[k] = active[j] /\ ~IsExpired(active[j])
    BY <1>3 DEF KeptOf
  <2>4. \A j \in 1..Len(active) : ~IsExpired(active[j]) => \E k \in 1..Len(active') : active'[k] = active[j]
    BY <1>3 DEF KeptOf
  <2>5. (\A e \in OnScreen : \E j \in 1..Len(active) : e = active[j])
        /\ \A j \in 1..Len(active) : active[j] \in OnScreen
    BY DEF OnScreen
  <2> QED
    <3> TAKE e
    <3>1. ASSUME e \in OnScreen' PROVE e \in OnScreen /\ ~IsExpired(e)
      BY <2>1, <2>3, <2>5, <3>1
    <3>2. ASSUME e \in OnScreen, ~IsExpired(e) PROVE e \in OnScreen'
      BY <2>2, <2>4, <2>5, <3>2
    <3> QED
      BY <3>1, <3>2
<1>6. \A n : Message(n)' = Message(n) /\ (InLog(n)' <=> InLog(n))
  BY <1>2 DEF Message, InLog
<1>7. \A t : IsExpired(t)' <=> IsExpired(t)
  BY <1>2 DEF IsExpired
<1>8. NotifierType'
  BY <1>1, <1>2, <1>4 DEF NotifierType
<1>9. LogLatest' /\ LogTimes'
  BY <1>1, <1>2, <1>6 DEF LogLatest, LogTimes
<1>10. Stack'
  BY <1>1, <1>2, <1>4, <1>5, <1>6 DEF Stack
<1>11. Gone'
  <2> SUFFICES ASSUME NEW e \in OnScreen', NEW n \in (e.id + 1)..posts
               PROVE  Message(n)' \in OnScreen' \/ IsExpired(Message(n))'
    BY <1>2 DEF Gone
  <2>1. Message(n) \in OnScreen \/ IsExpired(Message(n))
    BY <1>1, <1>5 DEF Gone
  <2>2. Message(n)' = Message(n) /\ (IsExpired(Message(n))' <=> IsExpired(Message(n)))
    BY <1>2, <1>6 DEF IsExpired
  <2> QED
    BY <1>5, <2>1, <2>2
<1>12. Stays'
  <2> SUFFICES ASSUME NEW e \in OnScreen', NEW n \in (e.id + 1)..posts,
                      Message(n).at + TtlInfo >= e.at + Ttl(e.level)
               PROVE  Message(n) \in OnScreen'
    BY <1>2, <1>6 DEF Stays
  <2>1. Message(n) \in OnScreen /\ e \in OnScreen /\ ~IsExpired(e)
    BY <1>1, <1>5 DEF Stays
  <2>2. e \in Toasts /\ Message(n) \in Toasts
    BY <1>1, <2>1, ScreenFacts
  <2>3. PICK a \in Nat, ttl \in Nat : a = e.at /\ ttl = Ttl(e.level)
    BY <2>2, ToastFacts
  <2>4. PICK b \in Nat, later \in Nat :
          b = Message(n).at /\ later = Ttl(Message(n).level) /\ TtlInfo <= later
    BY <2>2, ToastFacts
  <2>5. instant - a < ttl /\ b + TtlInfo >= a + ttl
    BY <1>1, <2>1, <2>3, <2>4 DEF IsExpired
  <2>6. ~(instant - b >= later)
    BY <1>1, <2>4, <2>5
  <2>7. ~IsExpired(Message(n))
    BY <2>4, <2>6 DEF IsExpired
  <2> QED
    BY <1>5, <2>1, <2>7
<1>13. Pace'
  BY <1>1, <1>2, <1>5, <1>6 DEF Pace
<1> QED
  BY <1>8, <1>9, <1>10, <1>11, <1>12, <1>13 DEF NotifierInv

LEMMA DismissKeeps ==
  ASSUME NotifierInv, DismissAll
  PROVE  NotifierInv'
<1>1. active' = <<>> /\ instant' = instant /\ log' = log /\ posts' = posts /\ Forgotten' = Forgotten
  BY DEF DismissAll, Forgotten
<1>2. Len(active') = 0 /\ OnScreen' = {} /\ MaxActive \in Nat
  BY <1>1, NotifierAssumption DEF OnScreen
<1>3. NotifierType' /\ LogLatest' /\ LogTimes'
  BY <1>1 DEF NotifierInv, NotifierType, LogLatest, LogTimes, InLog, Message
<1>4. Stack'
  BY <1>2 DEF Stack, Sorted
<1> QED
  BY <1>2, <1>3, <1>4 DEF NotifierInv, Gone, Stays, Pace

LEMMA LaterKeeps ==
  ASSUME NotifierInv, Later
  PROVE  NotifierInv'
<1>1. /\ active' = active /\ instant' = instant + 1 /\ log' = log /\ posts' = posts
      /\ Forgotten' = Forgotten /\ OnScreen' = OnScreen /\ instant \in Nat
  BY DEF NotifierInv, NotifierType, Later, Forgotten, OnScreen
<1>2. \A n : Message(n)' = Message(n) /\ (InLog(n)' <=> InLog(n))
  BY <1>1 DEF Message, InLog
<1>3. NotifierType' /\ LogLatest' /\ Stack' /\ Stays' /\ Pace'
  BY <1>1, <1>2 DEF NotifierInv, NotifierType, LogLatest, Stack, Stays, Pace
<1>4. LogTimes'
  <2> SUFFICES ASSUME NEW n \in Int, NEW m \in Int, InLog(n), InLog(m)
               PROVE  Message(n).at <= instant + 1 /\ (n <= m => Message(n).at <= Message(m).at)
    BY <1>1, <1>2 DEF LogTimes
  <2>1. Message(n).at <= instant /\ (n <= m => Message(n).at <= Message(m).at)
    BY DEF NotifierInv, LogTimes
  <2>2. Message(n).at \in Nat
    BY MessageFacts, ToastFacts DEF NotifierInv
  <2> QED
    BY <1>1, <2>1, <2>2
<1>5. Gone'
  <2> SUFFICES ASSUME NEW e \in OnScreen, NEW n \in (e.id + 1)..posts
               PROVE  Message(n)' \in OnScreen' \/ IsExpired(Message(n))'
    BY <1>1 DEF Gone
  <2>1. Message(n) \in OnScreen \/ IsExpired(Message(n))
    BY DEF NotifierInv, Gone
  <2>2. CASE Message(n) \in OnScreen
    BY <1>1, <1>2, <2>2
  <2>3. CASE IsExpired(Message(n))
    <3>1. e.id \in Nat /\ posts \in Nat
      BY ScreenFacts, ToastFacts DEF NotifierInv, NotifierType
    <3>2. n \in e.id..posts
      BY <3>1
    <3>3. Message(n) \in Toasts
      BY <3>2, Held, MessageFacts DEF NotifierInv
    <3>4. PICK a \in Nat, ttl \in Nat : a = Message(n).at /\ ttl = Ttl(Message(n).level)
      BY <3>3, ToastFacts
    <3>5. instant - a >= ttl
      BY <2>3, <3>4 DEF IsExpired
    <3>6. (instant + 1) - a >= ttl
      BY <1>1, <3>5
    <3> QED
      BY <1>1, <1>2, <3>4, <3>6 DEF IsExpired
  <2> QED
    BY <2>1, <2>2, <2>3
<1> QED
  BY <1>3, <1>4, <1>5 DEF NotifierInv

\* The deadline is due exactly when a look would drop a toast.
LEMMA DeadlineExact ==
  ASSUME NotifierType, Sorted(active)
  PROVE  (NextDeadline = 0) <=> (Expired # active)
<1> DEFINE L == Len(active)
           left(t) == IF IsExpired(t) THEN 0 ELSE Ttl(t.level) - (instant - t.at)
           T == {left(t) : t \in Range(active)}
<1>1. /\ L \in Nat /\ DOMAIN active = 1..L /\ active \in Seq(Toasts) /\ instant \in Nat
      /\ \A k \in 1..L : active[k] \in Toasts
  BY DEF NotifierType
<1>2. KeptOf(Expired, L)
  BY ExpiredKept
<1>3. Expired \in Seq(Toasts) /\ Len(Expired) <= L
  BY <1>2 DEF KeptOf
<1>4. CASE L = 0
  <2>1. active = <<>> /\ Expired = <<>>
    BY <1>1, <1>3, <1>4
  <2> QED
    BY <2>1 DEF NextDeadline
<1>5. CASE L # 0
  <2>1. active # <<>>
    BY <1>1, <1>5
  <2>2. NextDeadline = Min(T)
    BY <2>1 DEF NextDeadline
  <2>3. \A k \in 1..L : /\ left(active[k]) \in Nat
                        /\ left(active[k]) = 0 <=> IsExpired(active[k])
                        /\ left(active[k]) \in T
    <3> TAKE k \in 1..L
    <3>1. PICK a \in Nat, ttl \in Nat : a = active[k].at /\ ttl = Ttl(active[k].level)
      BY <1>1, ToastFacts
    <3>2. CASE IsExpired(active[k])
      BY <1>1, <3>2 DEF Range
    <3>3. CASE ~IsExpired(active[k])
      <4>1. ~(instant - a >= ttl)
        BY <3>1, <3>3 DEF IsExpired
      <4>2. ttl - (instant - a) \in Nat /\ ttl - (instant - a) # 0
        BY <1>1, <4>1
      <4>3. left(active[k]) = ttl - (instant - a)
        BY <3>1, <3>3
      <4> QED
        BY <1>1, <3>3, <4>2, <4>3 DEF Range
    <3> QED
      BY <3>2, <3>3
  <2>4. \A y \in T : \E k \in 1..L : y = left(active[k])
    BY <1>1 DEF Range
  <2> HIDE DEF left
  <2>5. T \subseteq Nat /\ T # {}
    <3>1. 1 \in 1..L
      BY <1>1, <1>5
    <3> QED
      BY <2>3, <2>4, <3>1
  <2> HIDE DEF T
  <2>6. Min(T) \in T /\ \A y \in T : Min(T) <= y
    BY <2>5, Smallest DEF Min
  <2>7. (Min(T) = 0) <=> \E k \in 1..L : IsExpired(active[k])
    <3>1. ASSUME Min(T) = 0 PROVE \E k \in 1..L : IsExpired(active[k])
      BY <2>3, <2>4, <2>6, <3>1
    <3>2. ASSUME NEW k \in 1..L, IsExpired(active[k]) PROVE Min(T) = 0
      <4>1. 0 \in T
        BY <2>3, <3>2
      <4>2. Min(T) \in Nat /\ Min(T) <= 0
        BY <2>5, <2>6, <4>1
      <4> QED
        BY <4>2
    <3> QED
      BY <3>1, <3>2
  <2>8. (\E k \in 1..L : IsExpired(active[k])) <=> Expired # active
    <3>1. ASSUME \E k \in 1..L : IsExpired(active[k]) PROVE Expired # active
      <4>1. Len(Expired) < L
        BY <1>2, <3>1 DEF KeptOf
      <4> QED
        BY <1>1, <4>1
    <3>2. ASSUME ~\E k \in 1..L : IsExpired(active[k]) PROVE Expired = active
      <4>1. Len(Expired) = L /\ \A j \in 1..L : Expired[j] = active[j]
        BY <1>2, <3>2 DEF KeptOf
      <4> QED
        BY <1>1, <1>3, <4>1
    <3> QED
      BY <3>1, <3>2
  <2> QED
    BY <2>2, <2>7, <2>8
<1> QED
  BY <1>4, <1>5

\* The invariant says what the screen and the log have to do with each other.
LEMMA InvIsToastsInLog ==
  ASSUME NotifierInv
  PROVE  ToastsInLog
<1> DEFINE L == Len(active)
<1>1. /\ NotifierType /\ LogLatest /\ Sorted(active) /\ L <= MaxActive /\ Gone
      /\ L \in Nat /\ DOMAIN active = 1..L /\ posts \in Nat /\ Len(log) \in Nat
      /\ DOMAIN log = 1..Len(log) /\ Forgotten = posts - Len(log)
      /\ \A k \in 1..L : active[k] \in OnScreen /\ active[k] \in Toasts
  BY ScreenFacts DEF NotifierInv, NotifierType, Stack, Forgotten
<1>2. \A k \in 1..L : active[k].id \in Nat
  BY <1>1, ToastFacts
<1>3. ASSUME NEW k \in 1..L PROVE active[k] \in Range(log)
  <2>1. InLog(active[k].id) /\ Message(active[k].id) = active[k]
    BY <1>1, Held
  <2>2. active[k].id \in Int
    BY <1>2
  <2>3. active[k].id - Forgotten \in 1..Len(log)
    BY <1>1, <2>1, <2>2, MessageFacts
  <2> QED
    BY <1>1, <2>1, <2>3 DEF Message, Range
<1>4. ASSUME NEW k \in 1..L, k > 1 PROVE active[k].id > active[k - 1].id
  <2>1. k - 1 \in 1..L /\ k - 1 < k
    BY <1>1, <1>4
  <2>2. active[k - 1].id < active[k].id
    BY <1>1, <2>1 DEF Sorted
  <2> QED
    BY <1>2, <2>1, <2>2
<1>5. ASSUME active # <<>>, NEW t \in Range(log), t.id > active[L].id PROVE IsExpired(t)
  <2>1. L # 0 /\ L \in 1..L
    BY <1>1, <1>5 DEF NotifierType
  <2>2. PICK j \in 1..Len(log) : t = log[j]
    BY <1>1 DEF Range
  <2>3. PICK n \in Int : n = posts - Len(log) + j
    BY <1>1
  <2>4. t.id = n
    BY <1>1, <2>2, <2>3 DEF LogLatest
  <2>5. InLog(n) /\ n - Forgotten = j
    BY <1>1, <2>3 DEF InLog
  <2>6. Message(n) = t
    BY <2>2, <2>5 DEF Message
  <2>7. n \in (active[L].id + 1)..posts
    <3>1. active[L].id \in Nat /\ n > active[L].id
      BY <1>2, <1>5, <2>1, <2>4
    <3>2. n <= posts
      BY <1>1, <2>3
    <3> QED
      BY <1>1, <3>1, <3>2
  <2>8. t \notin OnScreen
    <3> SUFFICES ASSUME NEW i \in 1..L, t = active[i] PROVE FALSE
      BY DEF OnScreen
    <3>1. active[i].id <= active[L].id
      <4>1. CASE i = L
        <5>1. \A x \in Nat : x <= x
          OBVIOUS
        <5> QED
          BY <1>2, <2>1, <4>1, <5>1
      <4>2. CASE i < L
        <5>1. active[i].id < active[L].id
          BY <1>1, <2>1, <4>2 DEF Sorted
        <5> QED
          BY <1>2, <2>1, <5>1
      <4>3. i = L \/ i < L
        <5>1. L \in Nat
          BY <1>1
        <5> QED
          BY <5>1
      <4> QED
        BY <4>1, <4>2, <4>3
    <3> QED
      BY <1>2, <1>5, <2>1, <3>1
  <2> QED
    BY <1>1, <2>1, <2>6, <2>7, <2>8 DEF Gone
<1>6. (NextDeadline = 0) <=> (Expired # active)
  BY <1>1, DeadlineExact
<1> QED
  BY <1>1, <1>3, <1>4, <1>5, <1>6 DEF ToastsInLog

\* Whatever is posted, looked at and dismissed and however time passes: the log is the
\* latest messages without a gap, every toast on screen is among them, and the deadline
\* is due exactly when a toast is (push, expire and next_deadline of notify.rs).
THEOREM ToastsInLogForAll == NotifierInit /\ [][NotifierNext]_notifierVars => []ToastsInLog
<1>1. NotifierInit => NotifierInv
  <2> SUFFICES ASSUME NotifierInit PROVE NotifierInv
    OBVIOUS
  <2>1. instant = 0 /\ active = <<>> /\ log = <<>> /\ posts = 0
    BY DEF NotifierInit
  <2>a. Len(active) = 0 /\ Len(log) = 0 /\ active \in Seq(Toasts) /\ log \in Seq(Toasts)
    BY <2>1
  <2>b. Forgotten = 0 /\ OnScreen = {}
    <3>0. posts = 0 /\ Len(log) = 0 /\ \A x, y \in Int : x = 0 /\ y = 0 => x - y = 0
      BY <2>1, <2>a
    <3>1. Forgotten = 0
      BY <3>0 DEF Forgotten
    <3>2. OnScreen = {}
      BY <2>1, <2>a DEF OnScreen
    <3> QED
      BY <3>1, <3>2
  <2>2. /\ NotifierType /\ MaxActive \in Nat /\ LogCapacity \in Nat
        /\ OnScreen = {} /\ Len(active) = 0 /\ Len(log) = 0
        /\ \A n \in Int : ~InLog(n)
    BY <2>1, <2>a, <2>b, NotifierAssumption DEF NotifierType, InLog
  <2>3. LogLatest /\ Stack /\ LogTimes
    BY <2>1, <2>2 DEF LogLatest, Stack, Sorted, LogTimes
  <2> QED
    BY <2>2, <2>3 DEF NotifierInv, Gone, Stays, Pace
<1>2. NotifierInv /\ [NotifierNext]_notifierVars => NotifierInv'
  <2> SUFFICES ASSUME NotifierInv, [NotifierNext]_notifierVars PROVE NotifierInv'
    OBVIOUS
  <2>1. CASE \E level \in {"Info", "Warning", "Error"} : Post(level)
    BY <2>1, PostKeeps DEF Levels
  <2>2. CASE Expire
    BY <2>2, ExpireKeeps
  <2>3. CASE DismissAll
    BY <2>3, DismissKeeps
  <2>4. CASE Later
    BY <2>4, LaterKeeps
  <2>5. CASE UNCHANGED notifierVars
    <3>1. /\ active' = active /\ instant' = instant /\ log' = log /\ posts' = posts
          /\ Forgotten' = Forgotten /\ OnScreen' = OnScreen
      BY <2>5 DEF notifierVars, Forgotten, OnScreen
    <3>2. \A n : Message(n)' = Message(n) /\ (InLog(n)' <=> InLog(n))
      BY <3>1 DEF Message, InLog
    <3>3. NotifierType' /\ LogLatest' /\ LogTimes' /\ Stack' /\ Stays' /\ Pace'
      BY <3>1, <3>2 DEF NotifierInv, NotifierType, LogLatest, LogTimes, Stack, Stays, Pace
    <3>4. Gone'
      BY <3>1, <3>2 DEF NotifierInv, Gone, IsExpired
    <3> QED
      BY <3>3, <3>4 DEF NotifierInv
  <2> QED
    BY <2>1, <2>2, <2>3, <2>4, <2>5 DEF NotifierNext
<1>3. NotifierInv => ToastsInLog
  BY InvIsToastsInLog
<1> QED
  BY <1>1, <1>2, <1>3, PTL

-----------------------------------------------------------------------------
(* ProcessActions: what a signal or a priority reaches.                    *)

\* The entries of the kernel's table.
Entries == [ppid : HostPids \cup {0}, nice : Nices]

\* The kernel's table, with the priorities a process can be given.
HostType == Live \subseteq HostPids /\ \A p \in Live : host[p] \in Entries

ActionsInv == ActionsExact /\ HostType

\* validate_pid: a number it lets pass is the number that was given, and positive, so
\* that it can name neither a process group nor everything.
LEMMA PidHeld ==
  ASSUME NEW pid \in Named, ValidatePid(pid) # 0
  PROVE  ValidatePid(pid) = pid /\ pid > 0
<1>1. pid \in 0..(2^PidBits - 1)
  BY ActionsAssumption
<1>2. pid \in Nat
  BY <1>1
<1>3. ValidatePid(pid) = pid
  BY DEF ValidatePid
<1> QED
  BY <1>2, <1>3

\* Every errno becomes one of the errors the caller can tell apart.
LEMMA ErrorNamed ==
  \A e : CoreError(e) \in {"not_found", "permission", "io"} /\ (e = ESRCH => CoreError(e) = "not_found")
  BY DEF CoreError, ESRCH, EPERM

\* One case per action: the kernel's fork and exit, the refusals, and the three calls.
LEMMA ActionsStep == ActionsInv /\ [ProcessesNext]_processVars => ActionsInv'
<1> SUFFICES ASSUME ActionsInv, [ProcessesNext]_processVars PROVE ActionsInv'
  OBVIOUS
<1> USE DEF HostType
<1>1. ASSUME NEW parent, NEW pid, Fork(parent, pid) PROVE ActionsInv'
  BY <1>1 DEF ActionsInv, ActionsExact, Fork, Live, Entries, Nices
<1>2. ASSUME NEW pid \in Live, NEW heir \in {0, pid}, Exit(pid, heir) PROVE ActionsInv'
  <2>1. /\ Live' = Live \ {pid} /\ UNCHANGED last
        /\ \A p \in Live' : host'[p] = host[p] \/ host'[p] = [host[p] EXCEPT !.ppid = heir]
    BY <1>2 DEF Exit, Live
  <2>2. \A e \in Entries : [e EXCEPT !.ppid = heir] \in Entries
    BY DEF Entries, ActionsInv
  <2>3. \A p \in Live' : host'[p] \in Entries
    BY <2>1, <2>2 DEF ActionsInv
  <2> QED
    BY <2>1, <2>3 DEF ActionsInv, ActionsExact
<1>3. ASSUME NEW op \in {"kill", "renice", "get"}, NEW pid, Refused(op, pid) PROVE ActionsInv'
  BY <1>3 DEF ActionsInv, ActionsExact, Refused, NoAction, Live
<1>4. ASSUME NEW pid \in Named, Kill(pid) PROVE ActionsInv'
  <2> DEFINE e == Errno(pid)
  <2>1. ValidatePid(pid) = pid /\ pid > 0
    BY <1>4, PidHeld DEF Kill
  <2>2. Addressed(pid) = {pid} \cap Live /\ (e = 0 => Addressed(pid) # {})
    BY <2>1 DEF Addressed, Errno, ESRCH
  <2>3. /\ last'.op = "kill" /\ last'.pid = pid /\ UNCHANGED host
        /\ last'.result = IF e = 0 THEN "ok" ELSE CoreError(e)
        /\ last'.hit = IF e = 0 THEN Addressed(pid) ELSE {}
    BY <1>4, <2>1 DEF Kill, NoAction
  <2> HIDE DEF e
  <2>4. last'.result = "ok" <=> e = 0
    BY <2>3, ErrorNamed
  <2> QED
    BY <2>2, <2>3, <2>4 DEF ActionsInv, ActionsExact, Live
<1>5. ASSUME NEW pid \in Named, NEW n \in Nices, Renice(pid, n) PROVE ActionsInv'
  <2> DEFINE e == Errno(pid)
  <2>1. ValidatePid(pid) = pid
    BY <1>5, PidHeld DEF Renice
  <2>2. /\ last'.op = "renice" /\ last'.pid = pid
        /\ last'.result = IF e = 0 THEN "ok" ELSE CoreError(e)
        /\ last'.hit = IF e = 0 THEN {pid} ELSE {}
        /\ host' = [q \in Live |-> IF e = 0 /\ q = pid THEN [host[q] EXCEPT !.nice = n] ELSE host[q]]
    BY <1>5, <2>1 DEF Renice, NoAction
  <2> HIDE DEF e
  <2>3. last'.result = "ok" <=> e = 0
    BY <2>2, ErrorNamed
  <2>4. \A x \in Entries : [x EXCEPT !.nice = n] \in Entries
    BY DEF Entries
  <2>5. Live' = Live /\ \A q \in Live' : host'[q] \in Entries
    BY <2>2, <2>4 DEF ActionsInv, Live
  <2> QED
    BY <2>2, <2>3, <2>5 DEF ActionsInv, ActionsExact
<1>6. ASSUME NEW pid \in Named, GetPriority(pid) PROVE ActionsInv'
  <2>1. ValidatePid(pid) = pid
    BY <1>6, PidHeld DEF GetPriority
  <2>2. /\ last'.op = "get" /\ last'.pid = pid /\ last'.hit = {} /\ UNCHANGED host
        /\ last'.result = IF pid \in Live THEN "ok" ELSE CoreError(ESRCH)
        /\ last'.value = IF pid \in Live THEN host[pid].nice ELSE -1
        /\ last'.truth = IF pid \in Live THEN host[pid].nice ELSE Dead
    BY <1>6, <2>1 DEF GetPriority, NoAction, ESRCH
  <2>3. pid \in Live => host[pid].nice # Dead
    BY DEF ActionsInv, Entries, Nices, Dead
  <2> QED
    BY <2>2, <2>3, ErrorNamed DEF ActionsInv, ActionsExact, Live
<1>7. CASE UNCHANGED processVars
  BY <1>7 DEF ActionsInv, ActionsExact, processVars, Live
<1> QED
  BY <1>1, <1>2, <1>3, <1>4, <1>5, <1>6, <1>7 DEF ProcessesNext, Kernel, Act

\* actions.rs, with processes being born and dying in between and for every table of
\* them: a call reports success exactly when it reached the process it names, reaches
\* nothing else, and a priority that is read is the process's own (getpriority's -1 is
\* told from its error).
THEOREM ActionsExactForAll == ProcessesInit /\ [][ProcessesNext]_processVars => []ActionsExact
<1>1. ProcessesInit => ActionsInv
  BY DEF ProcessesInit, ActionsInv, ActionsExact, HostType, NoAction, Live
<1>2. ActionsInv => ActionsExact
  BY DEF ActionsInv
<1> QED
  BY <1>1, <1>2, ActionsStep, PTL
=============================================================================

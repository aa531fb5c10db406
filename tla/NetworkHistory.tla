--------------------------- MODULE NetworkHistory ---------------------------
(***************************************************************************)
(* crates/muxtop-core/src/network.rs: the ring of network snapshots the    *)
(* rates and the sparklines are drawn from.                                *)
(*                                                                         *)
(* An interface counts the bytes of one direction.  It can be reset        *)
(* (bounced: its counter starts over), unplugged and plugged in again      *)
(* between two ticks.                                                      *)
(***************************************************************************)
EXTENDS Integers, Sequences, SequencesExt, FiniteSetsExt

CONSTANTS Iface,       \* interface names
          Requested,   \* the capacity asked for
          MaxCount     \* bound: a counter stops here, and moved one later

ASSUME NetworkAssumption == Requested \in Nat /\ MaxCount \in Nat

VARIABLES counter,   \* plugged-in interface -> bytes since its last reset
          samples,   \* NetworkHistory.samples
          moved,     \* history: bytes each interface moved since the last push
          truth      \* history: for each sample, what moved since the one before

networkVars == <<counter, samples, moved, truth>>

Nothing == [i \in Iface |-> 0]

Plugged == DOMAIN counter

NetworkInit ==
  /\ counter = Nothing
  /\ samples = <<>> /\ truth = <<>>
  /\ moved = Nothing

-----------------------------------------------------------------------------
(* The host.                                                               *)

Move(i) ==
  /\ i \in Plugged /\ counter[i] < MaxCount /\ moved[i] < MaxCount + 1
  /\ counter' = [counter EXCEPT ![i] = @ + 1]
  /\ moved' = [moved EXCEPT ![i] = @ + 1]
  /\ UNCHANGED <<samples, truth>>

Bounce(i) ==
  /\ i \in Plugged
  /\ counter' = [counter EXCEPT ![i] = 0]
  /\ UNCHANGED <<samples, moved, truth>>

Unplug(i) ==
  /\ i \in Plugged
  /\ counter' = [j \in Plugged \ {i} |-> counter[j]]
  /\ UNCHANGED <<samples, moved, truth>>

PlugIn(i) ==
  /\ i \in Iface \ Plugged
  /\ counter' = [j \in Plugged \cup {i} |-> IF j = i THEN 0 ELSE counter[j]]
  /\ UNCHANGED <<samples, moved, truth>>

-----------------------------------------------------------------------------
(* NetworkSnapshot::collect and NetworkHistory                             *)

\* new: deltas need two samples.
Capacity == IF Requested > 2 THEN Requested ELSE 2

Collect ==
  [interfaces |-> [i \in Plugged |-> [bytes |-> counter[i], is_up |-> counter[i] > 0]],
   total      |-> MapThenSumSet(LAMBDA i : counter[i], Plugged)]

Evict(s) == IF Len(s) >= Capacity THEN Tail(s) ELSE s

Push ==
  /\ samples' = Append(Evict(samples), Collect)
  /\ truth' = Append(Evict(truth), moved)
  /\ moved' = Nothing
  /\ UNCHANGED counter

NetworkNext ==
  \/ \E i \in Iface : Move(i) \/ Bounce(i) \/ Unplug(i) \/ PlugIn(i)
  \/ Push

\* find_iface_value(..).unwrap_or(0): an interface that is not there reads 0.
ValueAt(k, iface) ==
  IF iface \in DOMAIN samples[k].interfaces THEN samples[k].interfaces[iface].bytes ELSE 0

\* Mutant: the difference is taken either way round.
AbsoluteDelta(k, iface) ==
  LET d == ValueAt(k, iface) - ValueAt(k - 1, iface) IN IF d < 0 THEN -d ELSE d

\* saturating_sub
Delta(k, iface) ==
  LET d == ValueAt(k, iface) - ValueAt(k - 1, iface) IN IF d < 0 THEN 0 ELSE d

\* bandwidth over an interval of length elapsed
Bandwidth(iface, elapsed) ==
  IF Len(samples) < 2 \/ elapsed = 0 THEN 0 ELSE Delta(Len(samples), iface) \div elapsed

\* sparkline: the newest value is the last
Sparkline(iface, points) ==
  LET n == IF points < Len(samples) - 1 THEN points ELSE Len(samples) - 1
  IN  IF Len(samples) < 2 \/ points = 0 THEN <<>>
      ELSE [j \in 1..n |-> Delta(Len(samples) - n + j, iface)]

-----------------------------------------------------------------------------

Present(k, iface) == iface \in DOMAIN samples[k].interfaces

\* A sparkline never shows traffic that did not happen: a value between two
\* samples that both have the interface is at most what the interface moved
\* between them, whatever resets and replugs came in between, and the value is
\* drawn at the place of its interval.  The figure beside it is the last value.
SparklineHonest ==
  /\ Len(samples) <= Capacity
  /\ \A iface \in Iface, points \in 0..(Capacity + 1) :
       LET line  == Sparkline(iface, points)
           first == Len(samples) - Len(line)
       IN  /\ Len(line) <= points
           /\ \A j \in DOMAIN line :
                Present(first + j - 1, iface) /\ Present(first + j, iface)
                  => line[j] <= truth[first + j][iface]
           /\ line # <<>> => Bandwidth(iface, 1) = line[Len(line)]
=============================================================================

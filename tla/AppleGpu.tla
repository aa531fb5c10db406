------------------------------ MODULE AppleGpu ------------------------------
(***************************************************************************)
(* crates/muxtop-core/src/apple/: the GPU of an Apple Silicon machine.     *)
(* ioreport.rs samples accumulating counters and owns CoreFoundation       *)
(* objects by hand; metrics.rs turns the difference of two samples into a  *)
(* clock, a busy share and a power draw; engine.rs puts them in the row.   *)
(*                                                                         *)
(* Time and the counters advance in steps; the driver resets its counters  *)
(* whenever it likes, and every library call can be refused.  Clocks are   *)
(* in units of Mhz raw units, energy in units of the finer channel.        *)
(***************************************************************************)
EXTENDS Integers, Sequences, SequencesExt, FiniteSets, FiniteSetsExt

CONSTANTS Blobs,        \* the DVFS blobs a firmware may publish
          Mhz,          \* raw units of a blob's frequency in one MHz
          MaxClock,     \* MAX_PLAUSIBLE_CLOCK_MHZ
          MinInterval,  \* MIN_SAMPLE_INTERVAL
          Coarse,       \* units of the fine energy channel in one of the coarse
          MaxTime       \* bound: the clock stops here

ASSUME AppleAssumption ==
  /\ Mhz \in Nat \ {0} /\ MaxClock \in Nat /\ Coarse \in Nat \ {0}
  /\ MinInterval \in Nat \ {0} /\ MaxTime \in Nat
  /\ \A b \in Blobs : b.hz \in Seq(Nat)

VARIABLES now,        \* Instant::now
          ticks,      \* performance state -> ticks spent in it since the reset
          energy,     \* the energy counter, since the reset
          resets,     \* history: how often the driver started over
          blob,       \* the firmware's DVFS blob
          phase,      \* the sampler: "new", "failed", "open" or "dropped"
          perf,       \* the perf-state channels were merged in
          previous,   \* the baseline: <<sample>>, or <<>>
          refs,       \* CF object kind -> references owned
          row         \* the device row of the last snapshot

appleVars == <<now, ticks, energy, resets, blob, phase, perf, previous, refs, row>>

None    == -1
States  == {0, 1, 2, None}   \* OFF, P1, P2 and a name this build does not know
Objects == {"channels", "perf_channels", "subscription", "subscribed", "sample", "delta"}
NoRow   == [window |-> 0, power |-> None, clock |-> None, busy |-> None, util |-> None,
            residencies |-> <<>>, moved |-> 0, whole |-> FALSE]

AppleInit ==
  /\ now = 0 /\ energy = 0 /\ resets = 0
  /\ ticks = [s \in States |-> 0]
  /\ blob \in Blobs
  /\ phase = "new" /\ perf = FALSE /\ previous = <<>>
  /\ refs = [o \in Objects |-> 0]
  /\ row = NoRow

-----------------------------------------------------------------------------
(* metrics.rs                                                              *)

\* parse_dvfs_table: the clock of each state, or the empty table when the blob
\* cannot be trusted.  Rounded to the nearest MHz.
ParseDvfsTable(b) ==
  LET table == [k \in DOMAIN b.hz |-> (b.hz[k] + Mhz \div 2) \div Mhz]
  IN  IF b.ragged \/ \E k \in DOMAIN table : table[k] > MaxClock THEN <<>> ELSE table

\* state_index and the table lookup: None for a state without a clock.
ClockOf(state, table) == IF state \in 0..(Len(table) - 1) THEN table[state + 1] ELSE None

Ran(res, shares) == SumFunctionOnSet([k \in DOMAIN res |-> res[k].ticks], shares)

\* A state without a clock that did run spoils the reading.
Unnamed(res, table) == \E k \in DOMAIN res : ClockOf(res[k].state, table) = None /\ res[k].ticks > 0

Known(res, table)  == Ran(res, {k \in DOMAIN res : ClockOf(res[k].state, table) # None})
Active(res, table) == Ran(res, {k \in DOMAIN res : ClockOf(res[k].state, table) > 0})

\* residency_weighted_clock_mhz
WeightedClock(res, table) ==
  LET Weight(k) == LET c == ClockOf(res[k].state, table)
                   IN  IF c > 0 THEN res[k].ticks * c ELSE 0
  IN  IF Unnamed(res, table) \/ Known(res, table) = 0 THEN None
      ELSE IF Active(res, table) = 0 THEN 0
      ELSE SumFunction([k \in DOMAIN res |-> Weight(k)]) \div Active(res, table)

\* active_residency_pct
BusyPct(res, table) ==
  IF Unnamed(res, table) \/ Known(res, table) = 0 THEN None
  ELSE (Active(res, table) * 100) \div Known(res, table)

\* energy_delta_to_watts and energy_unit_joules: a unit is 1 or Coarse fine
\* units, or None when its label is not known.
Watts(delta, unit, elapsed) ==
  IF delta < 0 \/ elapsed <= 0 \/ unit = None THEN None ELSE (delta * unit) \div elapsed

\* clamp_pct
ClampPct(raw) == IF raw < 0 THEN 0 ELSE IF raw > 100 THEN 100 ELSE raw

-----------------------------------------------------------------------------
(* ioreport.rs                                                             *)

\* References taken (Create and Copy rule) and given back (CFRelease).
Balance(taken, released) ==
  LET One(o, S) == IF o \in S THEN 1 ELSE 0
  IN  [o \in Objects |-> refs[o] + One(o, taken) - One(o, released)]

\* open, when the library and its symbols load.  The perf channels are merged
\* into the others and released; a refused subscription releases the channels.
\* Whether IOReportCreateSubscription hands the caller a reference to its own view
\* of the channels is undocumented: if it does, nothing ever releases it.
OpenSampler(outcome, withPerf, handed) ==
  LET merged == IF withPerf THEN {"perf_channels"} ELSE {}
      kept   == IF handed THEN {"subscribed"} ELSE {}
  IN  /\ phase = "new"
      /\ phase' = IF outcome = "ok" THEN "open" ELSE "failed"
      /\ perf' = (withPerf /\ outcome = "ok")
      /\ refs' = CASE outcome = "no_channels" -> refs
                   [] outcome = "refused" ->
                        Balance({"channels"} \cup merged \cup kept, {"channels"} \cup merged)
                   [] OTHER -> Balance({"channels", "subscription"} \cup merged \cup kept, merged)
      /\ UNCHANGED <<now, ticks, energy, resets, blob, previous, row>>

\* decode: of the two energy channels the finer one is taken whatever their
\* order; residencies below zero count as zero.
DecodeEnergy(channels, old, new) ==
  LET fine   == "GPU Energy" \in channels
      coarse == "GPU" \in channels
  IN  IF fine THEN [delta |-> new.energy - old.energy, unit |-> 1]
      ELSE IF coarse THEN [delta |-> (new.energy \div Coarse) - (old.energy \div Coarse), unit |-> Coarse]
      ELSE [delta |-> 0, unit |-> None]

DecodeResidencies(old, new) ==
  LET d(s) == new.ticks[s] - old.ticks[s]
      order == <<0, 1, 2, None>>
  IN  IF perf THEN [k \in 1..4 |-> [state |-> order[k], ticks |-> IF d(order[k]) < 0 THEN 0 ELSE d(order[k])]]
      ELSE <<>>

Current == [ticks |-> ticks, energy |-> energy, at |-> now, resets |-> resets]

\* collect: what the row shows for the interval from old to now.
ReadInterval(old, channels) ==
  LET elapsed == now - old.at
      e       == DecodeEnergy(channels, old, Current)
      res     == DecodeResidencies(old, Current)
      table   == ParseDvfsTable(blob)
      noClock == table = <<>>
  IN  [window |-> elapsed,
       power  |-> Watts(e.delta, e.unit, elapsed),
       clock  |-> IF noClock THEN None ELSE WeightedClock(res, table),
       busy   |-> IF noClock THEN None ELSE BusyPct(res, table),
       util   |-> None,
       residencies |-> res,
       moved  |-> energy - old.energy,
       whole  |-> old.resets = resets]

\* build_device: the driver's own figure first, clamped; the busy share stands in
\* when there is none.
BuildDevice(r, driver) ==
  [r EXCEPT !.util = IF driver # None THEN ClampPct(driver) ELSE r.busy]

\* sample refused, or the first one: a row without an interval.
SampleRefused(driver) ==
  /\ phase = "open"
  /\ row' = BuildDevice(NoRow, driver)
  /\ UNCHANGED <<now, ticks, energy, resets, blob, phase, perf, previous, refs>>

SampleFirst(driver) ==
  /\ phase = "open" /\ previous = <<>>
  /\ previous' = <<Current>>
  /\ refs' = Balance({"sample"}, {})
  /\ row' = BuildDevice(NoRow, driver)
  /\ UNCHANGED <<now, ticks, energy, resets, blob, phase, perf>>

\* The window is too short: the new sample is given back, the old one stays.
SampleTooSoon(driver) ==
  /\ phase = "open" /\ previous # <<>>
  /\ now - previous[1].at < MinInterval
  /\ refs' = Balance({"sample"}, {"sample"})
  /\ row' = BuildDevice(NoRow, driver)
  /\ UNCHANGED <<now, ticks, energy, resets, blob, phase, perf, previous>>

\* Mutant: the old sample is forgotten without a release.
SampleLeaking(delta, channels, driver) ==
  /\ phase = "open" /\ previous # <<>>
  /\ now - previous[1].at >= MinInterval
  /\ previous' = <<Current>>
  /\ refs' = Balance({"sample", "delta"}, {"delta"})
  /\ row' = BuildDevice(IF delta THEN ReadInterval(previous[1], channels) ELSE NoRow, driver)
  /\ UNCHANGED <<now, ticks, energy, resets, blob, phase, perf>>

\* The old sample and the delta are released, the new sample is the baseline.
Sample(delta, channels, driver) ==
  /\ phase = "open" /\ previous # <<>>
  /\ now - previous[1].at >= MinInterval
  /\ previous' = <<Current>>
  /\ LET made == IF delta THEN {"delta"} ELSE {}
     IN  refs' = Balance({"sample"} \cup made, {"sample"} \cup made)
  /\ row' = BuildDevice(IF delta THEN ReadInterval(previous[1], channels) ELSE NoRow, driver)
  /\ UNCHANGED <<now, ticks, energy, resets, blob, phase, perf>>

DropSampler ==
  /\ phase = "open"
  /\ phase' = "dropped"
  /\ previous' = <<>>
  /\ refs' = Balance({}, {"channels", "subscription"} \cup (IF previous = <<>> THEN {} ELSE {"sample"}))
  /\ UNCHANGED <<now, ticks, energy, resets, blob, perf, row>>

\* The GPU spends a tick in a state; an active one costs energy.
Spend(s) ==
  /\ now < MaxTime
  /\ now' = now + 1
  /\ ticks' = [ticks EXCEPT ![s] = @ + 1]
  /\ energy' = energy + (IF s = 0 THEN 0 ELSE 1)
  /\ UNCHANGED <<resets, blob, phase, perf, previous, refs, row>>

ResetCounters ==
  /\ energy > 0
  /\ ticks' = [s \in States |-> 0] /\ energy' = 0
  /\ resets' = resets + 1
  /\ UNCHANGED <<now, blob, phase, perf, previous, refs, row>>

Collects(driver) ==
  \/ SampleRefused(driver) \/ SampleFirst(driver) \/ SampleTooSoon(driver)
  \/ \E delta \in BOOLEAN, channels \in SUBSET {"GPU Energy", "GPU"} : Sample(delta, channels, driver)

AppleNext ==
  \/ \E outcome \in {"ok", "no_channels", "refused"}, p, handed \in BOOLEAN : OpenSampler(outcome, p, handed)
  \/ \E driver \in {None, 101} : Collects(driver)
  \/ DropSampler
  \/ \E s \in States : Spend(s)
  \/ ResetCounters

-----------------------------------------------------------------------------

\* What the sampler owns: its channels, its subscription and one baseline sample
\* while it lives, and nothing when it failed to open or was dropped, but for the
\* one dictionary a call to open may leave behind.
RefsBalanced ==
  /\ \A o \in Objects \ {"subscribed"} :
       refs[o] = CASE o \in {"channels", "subscription"} -> IF phase = "open" THEN 1 ELSE 0
                   [] o = "sample" -> IF previous # <<>> THEN 1 ELSE 0
                   [] OTHER -> 0
  /\ refs["subscribed"] \in IF phase = "new" THEN {0} ELSE {0, 1}

\* What the row shows.
RowSupported ==
  LET table  == ParseDvfsTable(blob)
      active == {table[k] : k \in DOMAIN table} \ {0}
  IN  /\ row.power # None \/ row.clock # None => row.window >= MinInterval
      /\ row.util # None => row.util \in 0..100
      /\ row.power # None /\ row.whole =>
           /\ row.power * row.window <= row.moved + Coarse - 1
           /\ (row.power + 1) * row.window > row.moved - Coarse
      /\ (row.clock = None) <=> (row.busy = None)
      /\ row.clock > 0 => row.clock \in Min(active)..Max(active)
      /\ row.clock # None => (row.clock = 0 <=> Active(row.residencies, table) = 0)

\* Every CoreFoundation object the sampler takes is released exactly once on every
\* path, but for the view of its channels that the subscription may hand out: of that
\* one open leaves one behind at most, and no sample adds to it.  The row
\* never shows a figure its interval does not support: a figure comes from a
\* window long enough to divide by; the power is the energy that was used in it,
\* to within the channel's resolution, unless the counter restarted inside; the
\* clock lies between the slowest and the fastest active state; and clock and
\* busy share are known together, and zero together.
SamplerSound == RefsBalanced /\ RowSupported
=============================================================================

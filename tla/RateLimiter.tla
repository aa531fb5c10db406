---------------------------- MODULE RateLimiter ----------------------------
(***************************************************************************)
(* crates/muxtop-server/src/rate_limit.rs: the token-bucket limiter the    *)
(* accept loop asks before anything else is spent on a connection.  Only   *)
(* sources with a bucket in use are kept; buckets that have refilled are   *)
(* swept lazily, when an unknown source arrives.                           *)
(*                                                                         *)
(* Token counts are integers: Unit units make one token, rates are units   *)
(* per tick, so the fractional f32 rates of the code stay exact.  The map  *)
(* HashMap<IpAddr, Bucket> is a function whose domain is the set of        *)
(* tracked addresses.                                                      *)
(***************************************************************************)
EXTENDS Integers, FiniteSets

CONSTANTS IP,                \* source addresses that may connect
          Rates,             \* possible --rate-limit-per-ip values, in units per tick
          Unit,              \* units in one token
          TicksPerSec,       \* clock ticks in a second
          SweepSizeTrigger,  \* SWEEP_SIZE_TRIGGER
          SweepInterval,     \* SWEEP_INTERVAL, in ticks
          MinSweepGap,       \* MIN_SWEEP_GAP, in ticks
          MaxTracked,        \* max_tracked, MAX_TRACKED_IPS in production
          MaxTime            \* bound of the clock

\* The relations between the crate's constants that the limiter relies on:
\* 1024 <= 65536 and 0 < 1 s <= 30 s.
ASSUME LimiterAssumption ==
  /\ IsFiniteSet(IP)
  /\ "none" \notin IP
  /\ Rates \subseteq Nat
  /\ Unit \in Nat \ {0}
  /\ TicksPerSec \in Nat \ {0}
  /\ MaxTracked \in Nat \ {0}
  /\ SweepSizeTrigger \in Nat /\ SweepSizeTrigger <= MaxTracked
  /\ MinSweepGap \in Nat \ {0}
  /\ SweepInterval \in Nat /\ MinSweepGap <= SweepInterval
  /\ MaxTime \in Nat

VARIABLES rate,            \* refill_per_sec
          now,             \* Instant::now()
          buckets,         \* LimiterState.buckets
          last_sweep,      \* LimiterState.last_sweep
          ceiling_logged,  \* LimiterState.ceiling_logged
          verdict,         \* the last call's address and result
          opened,          \* history: when the observer's window opened
          spent            \* history: units debited from each source since then

limiter == <<buckets, last_sweep, ceiling_logged>>
window == <<opened, spent>>
vars == <<rate, now, limiter, verdict, window>>

NoVerdict == [ip |-> "none", admitted |-> FALSE]

\* server.rs gives the limiter burst = max(rate, 1.0), rate in tokens per second.
Burst == IF rate * TicksPerSec <= Unit THEN Unit ELSE rate * TicksPerSec

Bucket == [last_refill : 0..MaxTime, tokens : 0..Burst]

Tracked == DOMAIN buckets

\* Bucket::refilled_at
RefilledAt(b, t) ==
  LET gained == b.tokens + (t - b.last_refill) * rate
  IN  IF gained <= Burst THEN gained ELSE Burst

Init ==
  /\ rate \in Rates
  /\ now = 0
  /\ buckets = [ip \in {} |-> 0]
  /\ last_sweep = 0
  /\ ceiling_logged = FALSE
  /\ verdict = NoVerdict
  /\ opened = 0
  /\ spent = [ip \in IP |-> 0]

\* Mutant: evict a bucket as soon as it holds a whole token again.
SweepTooEarly == [ip \in {q \in Tracked : RefilledAt(buckets[q], now) < Unit} |-> buckets[ip]]

\* LimiterState::sweep keeps the buckets that are not yet full again.
Swept == [ip \in {q \in Tracked : RefilledAt(buckets[q], now) < Burst} |-> buckets[ip]]

\* Mutant: the size trigger is forgotten.
SweepDueByIntervalOnly == now - last_sweep >= SweepInterval

SweepDue ==
  /\ now - last_sweep >= MinSweepGap
  /\ \/ Cardinality(Tracked) >= SweepSizeTrigger
     \/ now - last_sweep >= SweepInterval

\* The map try_admit works on: swept first when an unknown source finds a
\* sweep due, and otherwise as it was.
SweepsFor(ip) == ip \notin Tracked /\ SweepDue

MapFor(ip) == IF SweepsFor(ip) THEN Swept ELSE buckets

AtCeiling(ip) == ip \notin Tracked /\ Cardinality(DOMAIN MapFor(ip)) >= MaxTracked

\* The bucket of ip brought up to date, or the full one an unknown source gets.
LevelOf(ip) == IF ip \in Tracked THEN RefilledAt(buckets[ip], now) ELSE Burst

\* try_admit with limiting disabled: no state is touched.
AdmitUnlimited(ip) ==
  /\ rate = 0
  /\ verdict' = [ip |-> ip, admitted |-> TRUE]
  /\ UNCHANGED <<rate, now, limiter, window>>

\* The early return at the tracking ceiling; a sweep on the way stays done.
RefuseAtCeiling(ip) ==
  /\ rate # 0
  /\ AtCeiling(ip)
  /\ buckets' = MapFor(ip)
  /\ last_sweep' = IF SweepsFor(ip) THEN now ELSE last_sweep
  /\ ceiling_logged' = TRUE
  /\ verdict' = [ip |-> ip, admitted |-> FALSE]
  /\ UNCHANGED <<rate, now, window>>

\* What every call past the ceiling check writes: the map with the bucket of
\* ip refilled to now and then debited by cost.
StoreBucket(ip, cost) ==
  /\ buckets' = [q \in DOMAIN MapFor(ip) \cup {ip} |->
                   IF q = ip THEN [last_refill |-> now, tokens |-> LevelOf(ip) - cost]
                             ELSE buckets[q]]
  /\ last_sweep' = IF SweepsFor(ip) THEN now ELSE last_sweep
  /\ ceiling_logged' = (ceiling_logged /\ ip \in Tracked)

Admit(ip) ==
  /\ rate # 0
  /\ ~AtCeiling(ip)
  /\ LevelOf(ip) >= Unit
  /\ StoreBucket(ip, Unit)
  /\ verdict' = [ip |-> ip, admitted |-> TRUE]
  /\ spent' = [spent EXCEPT ![ip] = @ + Unit]
  /\ UNCHANGED <<rate, now, opened>>

RefuseEmpty(ip) ==
  /\ rate # 0
  /\ ~AtCeiling(ip)
  /\ LevelOf(ip) < Unit
  /\ StoreBucket(ip, 0)
  /\ verdict' = [ip |-> ip, admitted |-> FALSE]
  /\ UNCHANGED <<rate, now, window>>

\* RateLimiter::try_admit; the accept loop calls it for one source at a time.
TryAdmit(ip) ==
  \/ AdmitUnlimited(ip)
  \/ RefuseAtCeiling(ip)
  \/ Admit(ip)
  \/ RefuseEmpty(ip)

\* The monotonic clock.
Tick ==
  /\ now < MaxTime
  /\ now' = now + 1
  /\ UNCHANGED <<rate, limiter, verdict, window>>

\* Not a step of the program: an observer starts counting admissions afresh,
\* at any moment, so that WindowBound speaks of every window of time.
OpenWindow ==
  /\ opened' = now
  /\ spent' = [ip \in IP |-> 0]
  /\ UNCHANGED <<rate, now, limiter, verdict>>

Next == Tick \/ OpenWindow \/ \E ip \in IP : TryAdmit(ip)

Spec == Init /\ [][Next]_vars

-----------------------------------------------------------------------------

\* Type invariant.
TypeOK ==
  /\ rate \in Rates
  /\ now \in 0..MaxTime
  /\ Tracked \subseteq IP
  /\ \A ip \in Tracked : buckets[ip] \in Bucket /\ buckets[ip].last_refill <= now
  /\ last_sweep \in 0..now
  /\ ceiling_logged \in BOOLEAN
  /\ verdict \in [ip : IP \cup {"none"}, admitted : BOOLEAN]
  /\ spent \in [IP -> Nat]
  /\ opened \in 0..now

\* The map stays within its hard ceiling however many sources connect
\* (rate_limit.rs, "Bounded memory").
MapBounded == Cardinality(Tracked) <= MaxTracked

\* In a window of any length, opened at any moment, no source is admitted more
\* often than its burst plus what the window refills, across any number of
\* sweeps and re-insertions of its bucket: forgetting a bucket never forgives
\* a debt.
WindowBound ==
  \A ip \in IP : spent[ip] + LevelOf(ip) <= Burst + (now - opened) * rate

\* "the surviving set is bounded by the number of genuinely active sources":
\* a bucket older than the last sweep was still being refilled when it ran.
SurvivorsWereActive ==
  \A ip \in Tracked :
    buckets[ip].last_refill <= last_sweep => RefilledAt(buckets[ip], last_sweep) < Burst

\* The "ceiling reached" warning stays latched only while the map is full.
LatchMeansFull == ceiling_logged => Cardinality(Tracked) = MaxTracked

\* An unknown source is refused at the ceiling only if a sweep has run within
\* the last MIN_SWEEP_GAP: the ceiling never locks newcomers out for longer
\* than the gap once the tracked sources fall idle.
CeilingRefusalIsFresh ==
  [][\A ip \in IP : RefuseAtCeiling(ip) => now - last_sweep' < MinSweepGap]_vars

\* What the code promises: buckets nobody ever evicts.
Ideal == INSTANCE TokenBucket WITH level <- [ip \in IP |-> LevelOf(ip)]

\* "a bucket refilled back to burst is indistinguishable from an absent entry":
\* every admission and every refusal is one the ideal buckets would give.
RefinesIdeal == Ideal!Spec
=============================================================================

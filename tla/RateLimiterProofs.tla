------------------------- MODULE RateLimiterProofs -------------------------
(***************************************************************************)
(* Proofs about RateLimiter for any number of sources, any rates, any      *)
(* sweep constants that satisfy LimiterAssumption, and any clock bound.    *)
(***************************************************************************)
EXTENDS RateLimiter, FiniteSetTheorems, TLAPS

-----------------------------------------------------------------------------
(* Arithmetic of one bucket.                                               *)

LEMMA BurstFacts ==
  ASSUME rate \in Rates
  PROVE  /\ rate \in Nat
         /\ Burst \in Nat
         /\ Unit \in Nat /\ 0 < Unit /\ Unit <= Burst
<1>1. rate \in Nat /\ TicksPerSec \in Nat /\ Unit \in Nat /\ 0 < Unit
  BY LimiterAssumption
<1>2. rate * TicksPerSec \in Nat
  BY <1>1
<1> QED
  BY <1>1, <1>2 DEF Burst

\* A refilled bucket holds what it held or more, at most burst, and one more
\* tick adds rate, capped.
LEMMA RefillFacts ==
  ASSUME rate \in Rates, NEW b \in Bucket, NEW t \in Nat, b.last_refill <= t
  PROVE  /\ RefilledAt(b, t) \in 0..Burst
         /\ t = b.last_refill => RefilledAt(b, t) = b.tokens
         /\ RefilledAt(b, t + 1) = IF RefilledAt(b, t) + rate <= Burst
                                     THEN RefilledAt(b, t) + rate ELSE Burst
<1> DEFINE d == t - b.last_refill
<1>1. /\ rate \in Nat /\ Burst \in Nat
      /\ b.tokens \in Nat /\ b.tokens <= Burst /\ b.last_refill \in Nat
  BY BurstFacts, LimiterAssumption DEF Bucket
<1>2. d \in Nat /\ t + 1 - b.last_refill = d + 1
  BY <1>1
<1>3. d * rate \in Nat /\ (d + 1) * rate = d * rate + rate
  BY <1>1, <1>2
<1>4. t = b.last_refill => d * rate = 0
  BY <1>1
<1>5. RefilledAt(b, t) = IF b.tokens + d * rate <= Burst THEN b.tokens + d * rate ELSE Burst
  BY DEF RefilledAt
<1>6. RefilledAt(b, t + 1) = IF b.tokens + (d + 1) * rate <= Burst
                               THEN b.tokens + (d + 1) * rate ELSE Burst
  <2>1. PICK u \in Nat : u = t + 1
    OBVIOUS
  <2>2. u - b.last_refill = d + 1
    BY <1>1, <1>2, <2>1
  <2>3. RefilledAt(b, u) = IF b.tokens + (u - b.last_refill) * rate <= Burst
                             THEN b.tokens + (u - b.last_refill) * rate ELSE Burst
    BY DEF RefilledAt
  <2> HIDE DEF d
  <2> QED
    BY <2>1, <2>2, <2>3
<1> HIDE DEF d
<1> QED
  BY <1>1, <1>3, <1>4, <1>5, <1>6

LEMMA LevelType ==
  ASSUME TypeOK, NEW ip \in IP
  PROVE  LevelOf(ip) \in 0..Burst
<1>1. rate \in Rates /\ now \in Nat
  BY LimiterAssumption DEF TypeOK
<1>2. CASE ip \in Tracked
  <2>1. buckets[ip] \in Bucket /\ buckets[ip].last_refill <= now
    BY <1>2 DEF TypeOK
  <2> QED
    BY <1>1, <1>2, <2>1, RefillFacts DEF LevelOf
<1>3. CASE ip \notin Tracked
  BY <1>1, <1>3, BurstFacts DEF LevelOf
<1> QED
  BY <1>2, <1>3

-----------------------------------------------------------------------------
(* The map after an optional sweep.                                        *)

\* A sweep only removes entries, keeps the others as they are, and removes
\* none whose bucket is not full.
LEMMA MapForFacts ==
  ASSUME TypeOK, NEW ip \in IP
  PROVE  /\ DOMAIN MapFor(ip) \subseteq Tracked
         /\ \A q \in DOMAIN MapFor(ip) : MapFor(ip)[q] = buckets[q]
         /\ \A q \in Tracked \ DOMAIN MapFor(ip) : LevelOf(q) = Burst
         /\ ip \in Tracked => MapFor(ip) = buckets
<1>1. \A q \in Tracked : LevelOf(q) \in 0..Burst
  BY LevelType DEF TypeOK
<1>2. Burst \in Nat
  BY BurstFacts DEF TypeOK
<1>3. \A q \in Tracked : LevelOf(q) = RefilledAt(buckets[q], now)
  BY DEF LevelOf
<1>4. CASE SweepsFor(ip)
  <2>1. MapFor(ip) = Swept /\ ip \notin Tracked
    BY <1>4 DEF MapFor, SweepsFor
  <2>2. DOMAIN Swept = {q \in Tracked : RefilledAt(buckets[q], now) < Burst}
    BY DEF Swept
  <2>3. \A q \in DOMAIN Swept : Swept[q] = buckets[q]
    BY DEF Swept
  <2>4. \A q \in Tracked \ DOMAIN Swept : LevelOf(q) = Burst
    BY <1>1, <1>2, <1>3, <2>2
  <2> QED
    BY <2>1, <2>2, <2>3, <2>4
<1>5. CASE ~SweepsFor(ip)
  BY <1>5 DEF MapFor, Tracked
<1> QED
  BY <1>4, <1>5

LEMMA TrackedFinite ==
  ASSUME TypeOK
  PROVE  /\ IsFiniteSet(Tracked)
         /\ \A S \in SUBSET Tracked : /\ IsFiniteSet(S) /\ Cardinality(S) \in Nat
                                      /\ Cardinality(S) <= Cardinality(Tracked)
<1>1. IsFiniteSet(Tracked)
  BY LimiterAssumption, FS_Subset DEF TypeOK
<1> QED
  BY <1>1, FS_Subset, FS_CardinalityType

\* Storing the bucket of ip changes the level of no other source, even when a
\* sweep evicts its bucket: that bucket was full, and so is an absent one.
LEMMA StoreLevel ==
  ASSUME TypeOK, NEW ip \in IP, NEW cost \in Nat, cost <= LevelOf(ip),
         StoreBucket(ip, cost), rate' = rate, now' = now, NEW q \in IP
  PROVE  LevelOf(q)' = IF q = ip THEN LevelOf(ip) - cost ELSE LevelOf(q)
<1> DEFINE stored == [last_refill |-> now, tokens |-> LevelOf(ip) - cost]
<1>1. rate \in Rates /\ now \in Nat /\ now \in 0..MaxTime
  BY LimiterAssumption DEF TypeOK
<1>2. LevelOf(ip) \in 0..Burst /\ Burst \in Nat
  BY <1>1, LevelType, BurstFacts
<1>3. Burst' = Burst
  BY DEF Burst
<1>4. /\ Tracked' = DOMAIN MapFor(ip) \cup {ip}
      /\ buckets'[ip] = stored
      /\ \A p \in DOMAIN MapFor(ip) : p # ip => buckets'[p] = buckets[p]
  BY DEF StoreBucket, Tracked
<1>5. \A b, t : RefilledAt(b, t)' = RefilledAt(b', t')
  BY <1>3 DEF RefilledAt
<1>6. CASE q = ip
  <2>1. stored \in Bucket
    BY <1>1, <1>2 DEF Bucket
  <2>2. LevelOf(ip)' = RefilledAt(stored, now)
    BY <1>3, <1>4 DEF LevelOf, RefilledAt
  <2>3. RefilledAt(stored, now) = stored.tokens
    BY <1>1, <2>1, RefillFacts
  <2> QED
    BY <1>6, <2>2, <2>3
<1>7. CASE q # ip /\ q \in DOMAIN MapFor(ip)
  <2>1. q \in Tracked /\ q \in Tracked' /\ buckets'[q] = buckets[q]
    BY <1>4, <1>7, MapForFacts
  <2> QED
    BY <1>3, <1>7, <2>1 DEF LevelOf, RefilledAt
<1>8. CASE q # ip /\ q \notin DOMAIN MapFor(ip)
  <2>1. q \notin Tracked'
    BY <1>4, <1>8
  <2>2. LevelOf(q)' = Burst
    BY <1>3, <2>1 DEF LevelOf
  <2>3. LevelOf(q) = Burst
    BY <1>8, MapForFacts DEF LevelOf
  <2> QED
    BY <1>8, <2>2, <2>3
<1> QED
  BY <1>6, <1>7, <1>8

-----------------------------------------------------------------------------
(* Type correctness.                                                       *)

LEMMA StoreTypeOK ==
  ASSUME TypeOK, NEW ip \in IP, NEW cost \in Nat, cost <= LevelOf(ip),
         StoreBucket(ip, cost), rate' = rate, now' = now
  PROVE  /\ Tracked' \subseteq IP
         /\ \A q \in Tracked' : /\ (buckets[q] \in Bucket)'
                                /\ (buckets[q].last_refill <= now)'
         /\ last_sweep' \in 0..now'
         /\ ceiling_logged' \in BOOLEAN
<1> DEFINE stored == [last_refill |-> now, tokens |-> LevelOf(ip) - cost]
<1>1. now \in 0..MaxTime /\ MaxTime \in Nat /\ rate \in Rates
  BY LimiterAssumption DEF TypeOK
<1>2. LevelOf(ip) \in 0..Burst /\ Burst \in Nat
  BY <1>1, LevelType, BurstFacts
<1>3. Bucket' = Bucket
  BY DEF Bucket, Burst
<1>4. stored \in Bucket
  BY <1>1, <1>2 DEF Bucket
<1>5. Tracked' = DOMAIN MapFor(ip) \cup {ip}
  BY DEF StoreBucket, Tracked
<1>6. \A q \in Tracked' : buckets'[q] = IF q = ip THEN stored ELSE buckets[q]
  BY DEF StoreBucket, Tracked
<1>7. \A q \in Tracked' : q = ip \/ q \in Tracked
  BY <1>5, MapForFacts
<1>8. Tracked' \subseteq IP
  BY <1>7 DEF TypeOK
<1>9. ASSUME NEW q \in Tracked'
      PROVE  /\ (buckets[q] \in Bucket)'
             /\ (buckets[q].last_refill <= now)'
  <2>1. CASE q = ip
    <3>1. buckets'[q] = stored
      BY <1>6, <1>9, <2>1
    <3>2. stored.last_refill <= now
      BY <1>1
    <3> QED
      BY <1>3, <1>4, <3>1, <3>2
  <2>2. CASE q # ip
    <3>1. q \in Tracked /\ buckets'[q] = buckets[q]
      BY <1>6, <1>7, <1>9, <2>2
    <3> QED
      BY <1>3, <3>1 DEF TypeOK
  <2> QED
    BY <2>1, <2>2
<1>10. last_sweep' \in 0..now'
  BY <1>1 DEF StoreBucket, TypeOK
<1>11. ceiling_logged' \in BOOLEAN
  BY DEF StoreBucket
<1> QED
  BY <1>8, <1>9, <1>10, <1>11

LEMMA TypeStep ==
  ASSUME TypeOK, [Next]_vars
  PROVE  TypeOK'
<1>0. /\ rate \in Rates /\ now \in 0..MaxTime /\ MaxTime \in Nat
      /\ opened \in 0..now /\ last_sweep \in 0..now
  BY LimiterAssumption DEF TypeOK
<1>1. Unit \in Nat /\ 0 < Unit
  BY LimiterAssumption
<1>2. ASSUME UNCHANGED vars PROVE TypeOK'
  BY <1>2 DEF TypeOK, vars, limiter, window, Tracked, Bucket, Burst
<1>3. ASSUME Tick PROVE TypeOK'
  <2>1. /\ now' = now + 1 /\ now' \in 0..MaxTime
        /\ UNCHANGED <<rate, buckets, last_sweep, ceiling_logged, verdict, opened, spent>>
    BY <1>0, <1>3 DEF Tick, limiter, window
  <2>2. Tracked' = Tracked /\ Bucket' = Bucket
    BY <2>1 DEF Tracked, Bucket, Burst
  <2>3. \A q \in Tracked : buckets[q] \in Bucket /\ buckets[q].last_refill <= now'
    <3>1. \A q \in Tracked : buckets[q] \in Bucket /\ buckets[q].last_refill <= now
      BY DEF TypeOK
    <3>2. \A q \in Tracked : buckets[q].last_refill \in Nat
      BY <3>1, <1>0 DEF Bucket
    <3> QED
      BY <1>0, <2>1, <3>1, <3>2
  <2>4. last_sweep' \in 0..now' /\ opened' \in 0..now'
    BY <1>0, <2>1
  <2> QED
    BY <2>1, <2>2, <2>3, <2>4 DEF TypeOK
<1>4. ASSUME OpenWindow PROVE TypeOK'
  <2>1. Tracked' = Tracked /\ Bucket' = Bucket
    BY <1>4 DEF OpenWindow, limiter, Tracked, Bucket, Burst
  <2>2. spent' \in [IP -> Nat] /\ opened' \in 0..now'
    BY <1>0, <1>4 DEF OpenWindow
  <2> QED
    BY <1>4, <2>1, <2>2 DEF TypeOK, OpenWindow, limiter
<1>5. ASSUME NEW ip \in IP, AdmitUnlimited(ip) PROVE TypeOK'
  <2>1. Tracked' = Tracked /\ Bucket' = Bucket
    BY <1>5 DEF AdmitUnlimited, limiter, Tracked, Bucket, Burst
  <2> QED
    BY <1>5, <2>1 DEF TypeOK, AdmitUnlimited, limiter, window
<1>6. ASSUME NEW ip \in IP, RefuseAtCeiling(ip) PROVE TypeOK'
  <2>1. Bucket' = Bucket
    BY <1>6 DEF RefuseAtCeiling, Bucket, Burst
  <2>2. Tracked' \subseteq Tracked /\ \A q \in Tracked' : buckets'[q] = buckets[q]
    BY <1>6, MapForFacts DEF RefuseAtCeiling, Tracked
  <2>3. \A q \in Tracked' : (buckets[q] \in Bucket /\ buckets[q].last_refill <= now)'
    BY <1>6, <2>1, <2>2 DEF TypeOK, RefuseAtCeiling
  <2>4. last_sweep' \in 0..now'
    BY <1>0, <1>6 DEF RefuseAtCeiling
  <2> QED
    BY <1>6, <2>2, <2>3, <2>4 DEF TypeOK, RefuseAtCeiling, window
<1>7. ASSUME NEW ip \in IP, Admit(ip) PROVE TypeOK'
  <2>1. Unit <= LevelOf(ip) /\ StoreBucket(ip, Unit) /\ UNCHANGED <<rate, now, opened>>
    <3>1. LevelOf(ip) \in Int
      BY LevelType, BurstFacts, <1>0
    <3> QED
      BY <1>1, <1>7, <3>1 DEF Admit
  <2>2. spent' \in [IP -> Nat]
    BY <1>1, <1>7 DEF Admit, TypeOK
  <2> QED
    BY <1>0, <1>1, <1>7, <2>1, <2>2, StoreTypeOK DEF TypeOK, Admit
<1>8. ASSUME NEW ip \in IP, RefuseEmpty(ip) PROVE TypeOK'
  <2>1. 0 <= LevelOf(ip)
    BY LevelType, BurstFacts, <1>0
  <2> QED
    BY <1>0, <1>8, <2>1, StoreTypeOK DEF TypeOK, RefuseEmpty, window
<1> QED
  BY <1>2, <1>3, <1>4, <1>5, <1>6, <1>7, <1>8 DEF Next, TryAdmit

LEMMA TypeInit == Init => TypeOK
<1> SUFFICES ASSUME Init PROVE TypeOK
  OBVIOUS
<1>1. Tracked = {}
  BY DEF Init, Tracked
<1>2. now \in 0..MaxTime /\ last_sweep \in 0..now /\ opened \in 0..now
  BY LimiterAssumption DEF Init
<1>3. verdict \in [ip : IP \cup {"none"}, admitted : BOOLEAN]
  BY DEF Init, NoVerdict
<1>4. spent \in [IP -> Nat]
  BY DEF Init
<1>5. rate \in Rates /\ ceiling_logged \in BOOLEAN
  BY DEF Init
<1> QED
  BY <1>1, <1>2, <1>3, <1>4, <1>5 DEF TypeOK

\* The limiter's state keeps its shape: only known sources are tracked, no
\* bucket ever holds more than burst or less than nothing, and no timestamp
\* lies in the future.
THEOREM TypeCorrect == Spec => []TypeOK
<1>1. Init => TypeOK
  BY TypeInit
<1>2. TypeOK /\ [Next]_vars => TypeOK'
  BY TypeStep
<1> QED
  BY <1>1, <1>2, PTL DEF Spec

-----------------------------------------------------------------------------
(* The size of the map.                                                    *)

\* Past the ceiling check there is room for the bucket of ip.
LEMMA StoreBounded ==
  ASSUME TypeOK, MapBounded, NEW ip \in IP, ~AtCeiling(ip),
         Tracked' = DOMAIN MapFor(ip) \cup {ip}
  PROVE  /\ Cardinality(Tracked') <= MaxTracked
         /\ ip \in Tracked => Tracked' = Tracked
<1>1. CASE ip \in Tracked
  BY <1>1, MapForFacts DEF MapBounded, Tracked
<1>2. CASE ip \notin Tracked
  <2>1. /\ IsFiniteSet(DOMAIN MapFor(ip)) /\ Cardinality(DOMAIN MapFor(ip)) \in Nat
        /\ ip \notin DOMAIN MapFor(ip)
    BY <1>2, MapForFacts, TrackedFinite
  <2>2. Cardinality(DOMAIN MapFor(ip)) < MaxTracked
    BY <1>2, <2>1, LimiterAssumption DEF AtCeiling
  <2>3. Cardinality(Tracked') = Cardinality(DOMAIN MapFor(ip)) + 1
    BY <2>1, FS_AddElement
  <2> QED
    BY <1>2, <2>1, <2>2, <2>3, LimiterAssumption
<1> QED
  BY <1>1, <1>2

SizeInv == MapBounded /\ LatchMeansFull

LEMMA SizeStep ==
  ASSUME TypeOK, SizeInv, [Next]_vars
  PROVE  SizeInv'
<1>0. MapBounded /\ LatchMeansFull /\ MaxTracked \in Nat
  BY LimiterAssumption DEF SizeInv
<1>1. ASSUME UNCHANGED <<buckets, ceiling_logged>> PROVE SizeInv'
  BY <1>0, <1>1 DEF SizeInv, MapBounded, LatchMeansFull, Tracked
<1>2. ASSUME NEW ip \in IP, RefuseAtCeiling(ip) PROVE SizeInv'
  <2>1. Tracked' = DOMAIN MapFor(ip) /\ DOMAIN MapFor(ip) \subseteq Tracked
    BY <1>2, MapForFacts DEF RefuseAtCeiling, Tracked
  <2>2. Cardinality(Tracked') \in Nat /\ Cardinality(Tracked') <= Cardinality(Tracked)
    BY <2>1, TrackedFinite
  <2>3. Cardinality(Tracked) \in Nat
    BY TrackedFinite
  <2>4. Cardinality(Tracked') >= MaxTracked
    BY <1>2, <2>1 DEF RefuseAtCeiling, AtCeiling
  <2> QED
    BY <1>0, <2>2, <2>3, <2>4 DEF SizeInv, MapBounded, LatchMeansFull
<1>3. ASSUME NEW ip \in IP, NEW cost, ~AtCeiling(ip), StoreBucket(ip, cost) PROVE SizeInv'
  <2>1. Tracked' = DOMAIN MapFor(ip) \cup {ip}
    BY <1>3 DEF StoreBucket, Tracked
  <2>2. Cardinality(Tracked') <= MaxTracked /\ (ip \in Tracked => Tracked' = Tracked)
    BY <1>0, <1>3, <2>1, StoreBounded
  <2>3. ceiling_logged' => ceiling_logged /\ ip \in Tracked
    BY <1>3 DEF StoreBucket
  <2> QED
    BY <1>0, <2>2, <2>3 DEF SizeInv, MapBounded, LatchMeansFull
<1> QED
  BY <1>1, <1>2, <1>3
  DEF Next, TryAdmit, Tick, OpenWindow, AdmitUnlimited, Admit, RefuseEmpty, vars, limiter

\* However many addresses connect, and in whatever order, the limiter never
\* tracks more than max_tracked of them, and its once-per-episode warning is
\* latched only while the map is full (rate_limit.rs, "Bounded memory").
THEOREM MapStaysBounded == Spec => [](MapBounded /\ LatchMeansFull)
<1>1. Init => SizeInv
  <2> SUFFICES ASSUME Init PROVE SizeInv
    OBVIOUS
  <2>1. Cardinality(Tracked) = 0 /\ ~ceiling_logged
    BY FS_EmptySet DEF Init, Tracked
  <2> QED
    BY <2>1, LimiterAssumption DEF SizeInv, MapBounded, LatchMeansFull
<1>2. TypeOK /\ SizeInv /\ [Next]_vars => SizeInv'
  BY SizeStep
<1>3. SizeInv => MapBounded /\ LatchMeansFull
  BY DEF SizeInv
<1> QED
  BY <1>1, <1>2, <1>3, TypeCorrect, PTL DEF Spec

-----------------------------------------------------------------------------
(* The budget of a source.                                                 *)

LEMMA TickLevel ==
  ASSUME TypeOK, Tick, NEW ip \in IP
  PROVE  LevelOf(ip)' = IF LevelOf(ip) + rate <= Burst THEN LevelOf(ip) + rate ELSE Burst
<1>1. /\ rate' = rate /\ buckets' = buckets /\ now' = now + 1
      /\ Burst' = Burst /\ Tracked' = Tracked
  BY DEF Tick, limiter, Burst, Tracked
<1>2. rate \in Rates /\ rate \in Nat /\ Burst \in Nat /\ now \in Nat
  BY LimiterAssumption, BurstFacts DEF TypeOK
<1>3. CASE ip \in Tracked
  <2>1. buckets[ip] \in Bucket /\ buckets[ip].last_refill <= now
    BY <1>3 DEF TypeOK
  <2>2. LevelOf(ip)' = RefilledAt(buckets[ip], now + 1)
    BY <1>1, <1>3 DEF LevelOf, RefilledAt
  <2>3. LevelOf(ip) = RefilledAt(buckets[ip], now)
    BY <1>3 DEF LevelOf
  <2> QED
    BY <1>2, <2>1, <2>2, <2>3, RefillFacts
<1>4. CASE ip \notin Tracked
  <2>1. LevelOf(ip) = Burst /\ LevelOf(ip)' = Burst
    BY <1>1, <1>4 DEF LevelOf
  <2> QED
    BY <1>2, <2>1
<1> QED
  BY <1>3, <1>4

LEMMA CeilingLevel ==
  ASSUME TypeOK, NEW ip \in IP, RefuseAtCeiling(ip), NEW q \in IP
  PROVE  LevelOf(q)' = LevelOf(q)
<1>1. rate' = rate /\ now' = now /\ Burst' = Burst
  BY DEF RefuseAtCeiling, Burst
<1>2. /\ Tracked' = DOMAIN MapFor(ip)
      /\ \A p \in DOMAIN MapFor(ip) : buckets'[p] = buckets[p] /\ p \in Tracked
      /\ \A p \in Tracked \ DOMAIN MapFor(ip) : LevelOf(p) = Burst
  BY MapForFacts DEF RefuseAtCeiling, Tracked
<1>3. CASE q \in DOMAIN MapFor(ip)
  BY <1>1, <1>2, <1>3 DEF LevelOf, RefilledAt
<1>4. CASE q \notin DOMAIN MapFor(ip)
  <2>1. LevelOf(q)' = Burst
    BY <1>1, <1>2, <1>4 DEF LevelOf
  <2>2. LevelOf(q) = Burst
    BY <1>2, <1>4 DEF LevelOf
  <2> QED
    BY <2>1, <2>2
<1> QED
  BY <1>3, <1>4

LEMMA SameLevel ==
  ASSUME UNCHANGED <<rate, now, buckets>>
  PROVE  \A ip \in IP : LevelOf(ip)' = LevelOf(ip)
BY DEF LevelOf, Tracked, RefilledAt, Burst

LEMMA WindowStep ==
  ASSUME TypeOK, WindowBound, [Next]_vars
  PROVE  WindowBound'
<1> SUFFICES ASSUME NEW q \in IP
             PROVE  (spent[q] + LevelOf(q) <= Burst + (now - opened) * rate)'
  BY DEF WindowBound
<1> DEFINE earned == (now - opened) * rate
<1>0. /\ rate \in Rates /\ rate \in Nat /\ Burst \in Nat /\ Unit \in Nat
      /\ now \in Nat /\ opened \in 0..now
      /\ spent \in [IP -> Nat] /\ spent[q] \in Nat /\ LevelOf(q) \in 0..Burst
  BY LimiterAssumption, BurstFacts, LevelType DEF TypeOK
<1>1. earned \in Nat /\ (now + 1 - opened) * rate = earned + rate
  <2>1. now - opened \in Nat /\ now + 1 - opened = (now - opened) + 1
    BY <1>0
  <2>2. \A d \in Nat : d * rate \in Nat /\ (d + 1) * rate = d * rate + rate
    BY <1>0
  <2> QED
    BY <2>1, <2>2
<1>2. spent[q] + LevelOf(q) <= Burst + earned
  BY DEF WindowBound
<1>3. rate' = rate /\ Burst' = Burst
  BY DEF Next, TryAdmit, Tick, OpenWindow, AdmitUnlimited, RefuseAtCeiling, Admit,
         RefuseEmpty, vars, Burst
<1>4. ASSUME LevelOf(q)' = LevelOf(q), UNCHANGED <<now, opened, spent>>
      PROVE  (spent[q] + LevelOf(q) <= Burst + (now - opened) * rate)'
  BY <1>2, <1>3, <1>4
<1>5. CASE UNCHANGED vars
  BY <1>4, <1>5, SameLevel DEF vars, limiter, window
<1>6. CASE Tick
  <2>1. LevelOf(q)' <= LevelOf(q) + rate /\ LevelOf(q)' \in Nat
    BY <1>0, <1>6, TickLevel
  <2>2. spent' = spent /\ opened' = opened /\ now' = now + 1
    BY <1>6 DEF Tick, window
  <2>3. ((now - opened) * rate)' = earned + rate
    <3>1. ((now - opened) * rate)' = (now' - opened') * rate'
      OBVIOUS
    <3>2. now' - opened' = now + 1 - opened
      BY <1>0, <2>2
    <3> QED
      BY <1>1, <1>3, <3>1, <3>2
  <2> HIDE DEF earned
  <2> QED
    BY <1>0, <1>1, <1>2, <1>3, <2>1, <2>2, <2>3
<1>7. CASE OpenWindow
  <2>1. LevelOf(q)' = LevelOf(q)
    BY <1>7, SameLevel DEF OpenWindow, limiter
  <2>2. spent'[q] = 0 /\ opened' = now /\ now' = now
    BY <1>7 DEF OpenWindow
  <2>3. ((now - opened) * rate)' = 0
    BY <1>0, <1>3, <2>2
  <2> QED
    BY <1>0, <1>3, <2>1, <2>2, <2>3
<1>8. ASSUME NEW ip \in IP, AdmitUnlimited(ip)
      PROVE  (spent[q] + LevelOf(q) <= Burst + (now - opened) * rate)'
  BY <1>4, <1>8, SameLevel DEF AdmitUnlimited, limiter, window
<1>9. ASSUME NEW ip \in IP, RefuseAtCeiling(ip)
      PROVE  (spent[q] + LevelOf(q) <= Burst + (now - opened) * rate)'
  BY <1>4, <1>9, CeilingLevel DEF RefuseAtCeiling, window
<1>10. ASSUME NEW ip \in IP, RefuseEmpty(ip)
       PROVE  (spent[q] + LevelOf(q) <= Burst + (now - opened) * rate)'
  <2>1. LevelOf(ip) \in 0..Burst
    BY LevelType
  <2>2. LevelOf(q)' = LevelOf(q)
    <3>1. LevelOf(q)' = IF q = ip THEN LevelOf(ip) - 0 ELSE LevelOf(q)
      BY <1>0, <1>10, <2>1, StoreLevel DEF RefuseEmpty
    <3> QED
      BY <1>0, <2>1, <3>1
  <2> QED
    BY <1>4, <1>10, <2>2 DEF RefuseEmpty, window
<1>11. ASSUME NEW ip \in IP, Admit(ip)
       PROVE  (spent[q] + LevelOf(q) <= Burst + (now - opened) * rate)'
  <2>1. LevelOf(ip) \in 0..Burst /\ Unit <= LevelOf(ip)
    BY <1>0, <1>11, LevelType DEF Admit
  <2>2. LevelOf(q)' = IF q = ip THEN LevelOf(ip) - Unit ELSE LevelOf(q)
    BY <1>0, <1>11, <2>1, StoreLevel DEF Admit
  <2>3. spent'[q] = IF q = ip THEN spent[ip] + Unit ELSE spent[q]
    BY <1>0, <1>11 DEF Admit
  <2>4. ((now - opened) * rate)' = earned
    BY <1>3, <1>11 DEF Admit
  <2> HIDE DEF earned
  <2> QED
    BY <1>0, <1>1, <1>2, <1>3, <2>1, <2>2, <2>3, <2>4
<1> QED
  BY <1>5, <1>6, <1>7, <1>8, <1>9, <1>10, <1>11 DEF Next, TryAdmit

\* In any window of time no source is admitted more often than its burst plus
\* the tokens the window refills, whatever the sweeps evict meanwhile.
THEOREM AdmissionsBounded == Spec => []WindowBound
<1>1. Init => WindowBound
  <2> SUFFICES ASSUME Init, NEW ip \in IP
               PROVE  spent[ip] + LevelOf(ip) <= Burst + (now - opened) * rate
    BY DEF WindowBound
  <2>1. spent[ip] = 0 /\ now = 0 /\ opened = 0 /\ rate \in Rates /\ ip \notin Tracked
    BY DEF Init, Tracked
  <2>2. LevelOf(ip) = Burst /\ Burst \in Nat /\ rate \in Nat
    BY <2>1, BurstFacts DEF LevelOf
  <2>3. (now - opened) * rate = 0
    BY <2>1, <2>2
  <2> QED
    BY <2>1, <2>2, <2>3
<1>2. TypeOK /\ WindowBound /\ [Next]_vars => WindowBound'
  BY WindowStep
<1> QED
  BY <1>1, <1>2, TypeCorrect, PTL DEF Spec

-----------------------------------------------------------------------------
(* The limiter implements buckets that are never evicted.                  *)

\* "a bucket refilled back to burst is indistinguishable from an absent entry"
\* (rate_limit.rs): whatever is swept and re-inserted, every answer is one the
\* ideal, never-forgetting token buckets give.
THEOREM EvictionInvisible == Spec => RefinesIdeal
<1> DEFINE L == [ip \in IP |-> LevelOf(ip)]
<1>1. Init => Ideal!Init
  <2> SUFFICES ASSUME Init PROVE Ideal!Init
    OBVIOUS
  <2>1. Tracked = {} /\ rate \in Rates /\ verdict = NoVerdict
    BY DEF Init, Tracked
  <2>2. L = [ip \in IP |-> Burst]
    BY <2>1 DEF LevelOf
  <2> QED
    BY <2>1, <2>2 DEF Ideal!Init, Ideal!Burst, Burst, Ideal!NoVerdict, NoVerdict
<1>2. TypeOK /\ [Next]_vars => [Ideal!Next]_(Ideal!vars)
  <2> SUFFICES ASSUME TypeOK, [Next]_vars
               PROVE  Ideal!Next \/ UNCHANGED Ideal!vars
    OBVIOUS
  <2>0. /\ rate \in Rates /\ rate \in Nat /\ Burst \in Nat /\ Unit \in Nat
        /\ \A ip \in IP : LevelOf(ip) \in 0..Burst
        /\ Ideal!Burst = Burst
    BY LimiterAssumption, BurstFacts, LevelType DEF TypeOK, Ideal!Burst, Burst
  <2>1. ASSUME UNCHANGED <<rate, now, buckets>> PROVE L' = L
    BY <2>1, SameLevel
  <2>2. CASE UNCHANGED vars
    BY <2>1, <2>2 DEF vars, limiter, Ideal!vars
  <2>3. CASE OpenWindow
    BY <2>1, <2>3 DEF OpenWindow, limiter, Ideal!vars
  <2>4. CASE Tick
    <3>1. L' = [ip \in IP |-> Ideal!Smaller(L[ip] + rate, Burst)]
      BY <2>4, TickLevel DEF Ideal!Smaller
    <3>2. UNCHANGED <<rate, verdict>>
      BY <2>4 DEF Tick
    <3> QED
      BY <2>0, <3>1, <3>2 DEF Ideal!Next, Ideal!Refill
  <2>5. ASSUME NEW ip \in IP, AdmitUnlimited(ip) PROVE Ideal!Unlimited(ip)
    BY <2>1, <2>5 DEF AdmitUnlimited, limiter, Ideal!Unlimited
  <2>6. ASSUME NEW ip \in IP, RefuseAtCeiling(ip) PROVE Ideal!RefuseOverload(ip)
    <3>1. L' = L
      BY <2>6, CeilingLevel
    <3>2. LevelOf(ip) = Burst
      BY <2>6 DEF RefuseAtCeiling, AtCeiling, LevelOf
    <3> QED
      BY <2>0, <2>6, <3>1, <3>2 DEF RefuseAtCeiling, Ideal!RefuseOverload
  <2>7. ASSUME NEW ip \in IP, Admit(ip) PROVE Ideal!Admit(ip)
    <3>1. Unit <= LevelOf(ip) /\ L[ip] >= Unit /\ StoreBucket(ip, Unit) /\ UNCHANGED <<rate, now>>
      BY <2>0, <2>7 DEF Admit
    <3>2. \A q \in IP : LevelOf(q)' = IF q = ip THEN LevelOf(ip) - Unit ELSE LevelOf(q)
      BY <2>0, <2>7, <3>1, StoreLevel
    <3>3. L' = [L EXCEPT ![ip] = @ - Unit]
      BY <3>2
    <3> QED
      BY <2>7, <3>1, <3>3 DEF Admit, Ideal!Admit
  <2>8. ASSUME NEW ip \in IP, RefuseEmpty(ip) PROVE Ideal!RefuseEmpty(ip)
    <3>1. 0 <= LevelOf(ip) /\ L[ip] < Unit /\ StoreBucket(ip, 0) /\ UNCHANGED <<rate, now>>
      BY <2>0, <2>8 DEF RefuseEmpty
    <3>2. \A q \in IP : LevelOf(q)' = IF q = ip THEN LevelOf(ip) - 0 ELSE LevelOf(q)
      BY <2>8, <3>1, StoreLevel
    <3>3. L' = L
      BY <2>0, <3>2
    <3> QED
      BY <2>8, <3>1, <3>3 DEF RefuseEmpty, Ideal!RefuseEmpty
  <2> QED
    BY <2>2, <2>3, <2>4, <2>5, <2>6, <2>7, <2>8 DEF Next, TryAdmit, Ideal!Next
<1> QED
  BY <1>1, <1>2, TypeCorrect, PTL DEF Spec, RefinesIdeal, Ideal!Spec

\* An unknown source is turned away at the ceiling only within MIN_SWEEP_GAP
\* of a sweep: past it, its arrival would have swept the map first.
THEOREM CeilingRefusalsFresh == Spec => CeilingRefusalIsFresh
<1>1. TypeOK /\ MapBounded /\ [Next]_vars
        => [\A ip \in IP : RefuseAtCeiling(ip) => now - last_sweep' < MinSweepGap]_vars
  <2> SUFFICES ASSUME TypeOK, MapBounded, NEW ip \in IP, RefuseAtCeiling(ip)
               PROVE  now - last_sweep' < MinSweepGap
    OBVIOUS
  <2>0. /\ now \in Nat /\ last_sweep \in 0..now
        /\ MinSweepGap \in Nat /\ 0 < MinSweepGap
        /\ SweepSizeTrigger \in Nat /\ MaxTracked \in Nat /\ SweepSizeTrigger <= MaxTracked
    BY LimiterAssumption DEF TypeOK
  <2>1. CASE SweepsFor(ip)
    BY <2>0, <2>1 DEF RefuseAtCeiling
  <2>2. CASE ~SweepsFor(ip)
    <3>1. ip \notin Tracked /\ Cardinality(Tracked) >= MaxTracked /\ last_sweep' = last_sweep
      BY <2>2 DEF RefuseAtCeiling, AtCeiling, MapFor, Tracked
    <3>2. Cardinality(Tracked) \in Nat
      BY TrackedFinite
    <3>3. Cardinality(Tracked) >= SweepSizeTrigger
      BY <2>0, <3>1, <3>2
    <3> QED
      BY <2>0, <2>2, <3>1, <3>3 DEF SweepsFor, SweepDue
  <2> QED
    BY <2>1, <2>2
<1> QED
  BY <1>1, TypeCorrect, MapStaysBounded, PTL DEF Spec, CeilingRefusalIsFresh
-----------------------------------------------------------------------------
(* What a sweep leaves behind.                                             *)

\* A bucket that stays in the map over a call for ip satisfies the property
\* against the last sweep, whether or not that call swept.
LEMMA KeptSurvives ==
  ASSUME TypeOK, SurvivorsWereActive, NEW ip \in IP, NEW q \in DOMAIN MapFor(ip),
         buckets'[q] = buckets[q], rate' = rate,
         last_sweep' = IF SweepsFor(ip) THEN now ELSE last_sweep
  PROVE  (buckets[q].last_refill <= last_sweep => RefilledAt(buckets[q], last_sweep) < Burst)'
<1>1. Burst' = Burst
  BY DEF Burst
<1>2. RefilledAt(buckets[q], last_sweep)' = RefilledAt(buckets[q], last_sweep')
  BY <1>1 DEF RefilledAt
<1>3. CASE SweepsFor(ip)
  <2>1. RefilledAt(buckets[q], now) < Burst
    BY <1>3 DEF MapFor, Swept
  <2> QED
    BY <1>1, <1>2, <1>3, <2>1
<1>4. CASE ~SweepsFor(ip)
  BY <1>1, <1>2, <1>4 DEF MapFor, Tracked, SurvivorsWereActive
<1> QED
  BY <1>3, <1>4

LEMMA SurvivorsStep ==
  ASSUME TypeOK, SurvivorsWereActive, [Next]_vars
  PROVE  SurvivorsWereActive'
<1>0. /\ rate \in Rates /\ Burst \in Nat /\ Unit \in Nat /\ 0 < Unit /\ Unit <= Burst
      /\ now \in Nat /\ now \in 0..MaxTime /\ last_sweep \in 0..now
  BY LimiterAssumption, BurstFacts DEF TypeOK
<1>1. ASSUME UNCHANGED <<rate, buckets, last_sweep>> PROVE SurvivorsWereActive'
  BY <1>1 DEF SurvivorsWereActive, Tracked, RefilledAt, Burst
<1>2. ASSUME NEW ip \in IP, RefuseAtCeiling(ip) PROVE SurvivorsWereActive'
  <2>1. \A q \in Tracked' : q \in DOMAIN MapFor(ip) /\ buckets'[q] = buckets[q]
    BY <1>2, MapForFacts DEF RefuseAtCeiling, Tracked
  <2>2. rate' = rate /\ last_sweep' = IF SweepsFor(ip) THEN now ELSE last_sweep
    BY <1>2 DEF RefuseAtCeiling
  <2> QED
    BY <2>1, <2>2, KeptSurvives DEF SurvivorsWereActive
<1>3. ASSUME NEW ip \in IP, NEW cost \in Nat, LevelOf(ip) - cost \in 0..(Burst - 1),
             StoreBucket(ip, cost), rate' = rate
      PROVE  SurvivorsWereActive'
  <2> DEFINE stored == [last_refill |-> now, tokens |-> LevelOf(ip) - cost]
  <2>1. last_sweep' = (IF SweepsFor(ip) THEN now ELSE last_sweep) /\ last_sweep' \in 0..now
    BY <1>0, <1>3 DEF StoreBucket
  <2>2. /\ buckets'[ip] = stored
        /\ \A q \in Tracked' : q # ip => q \in DOMAIN MapFor(ip) /\ buckets'[q] = buckets[q]
    BY <1>3 DEF StoreBucket, Tracked
  <2>3. (buckets[ip].last_refill <= last_sweep => RefilledAt(buckets[ip], last_sweep) < Burst)'
    <3> SUFFICES ASSUME now <= last_sweep' PROVE (RefilledAt(buckets[ip], last_sweep) < Burst)'
      BY <2>2
    <3>1. last_sweep' = now
      BY <1>0, <2>1
    <3>2. stored \in Bucket
      BY <1>0, <1>3 DEF Bucket
    <3>3. RefilledAt(stored, now) = LevelOf(ip) - cost
      BY <1>0, <3>2, RefillFacts
    <3>4. Burst' = Burst
      BY <1>3 DEF Burst
    <3>5. RefilledAt(buckets[ip], last_sweep)' = RefilledAt(stored, now)
      BY <1>3, <2>2, <3>1, <3>4 DEF RefilledAt
    <3> QED
      BY <1>0, <1>3, <3>3, <3>4, <3>5
  <2> QED
    BY <1>3, <2>1, <2>2, <2>3, KeptSurvives DEF SurvivorsWereActive
<1>4. ASSUME NEW ip \in IP, Admit(ip) PROVE SurvivorsWereActive'
  <2>1. LevelOf(ip) - Unit \in 0..(Burst - 1)
    BY <1>0, <1>4, LevelType DEF Admit
  <2> QED
    BY <1>0, <1>3, <1>4, <2>1 DEF Admit
<1>5. ASSUME NEW ip \in IP, RefuseEmpty(ip) PROVE SurvivorsWereActive'
  <2>1. LevelOf(ip) - 0 \in 0..(Burst - 1)
    BY <1>0, <1>5, LevelType DEF RefuseEmpty
  <2> QED
    BY <1>3, <1>5, <2>1 DEF RefuseEmpty
<1> QED
  BY <1>1, <1>2, <1>4, <1>5
  DEF Next, TryAdmit, Tick, OpenWindow, AdmitUnlimited, vars, limiter

\* "the surviving set is bounded by the number of genuinely active sources"
\* (rate_limit.rs): whatever bucket outlives a sweep was below its burst when
\* the sweep ran.
THEOREM SurvivorsActive == Spec => []SurvivorsWereActive
<1>1. Init => SurvivorsWereActive
  BY DEF Init, Tracked, SurvivorsWereActive
<1>2. TypeOK /\ SurvivorsWereActive /\ [Next]_vars => SurvivorsWereActive'
  BY SurvivorsStep
<1> QED
  BY <1>1, <1>2, TypeCorrect, PTL DEF Spec
=============================================================================

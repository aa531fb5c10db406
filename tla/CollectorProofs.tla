-------------------------- MODULE CollectorProofs --------------------------
(***************************************************************************)
(* The collector, for any number of engines in any order and any channel.  *)
(***************************************************************************)
EXTENDS Collector, TLAPS

Places == {"waiting", "polling", "hung", "stopped"}

Facts == {Nothing, Unavailable, Live}

Snapshots == [Engines -> Facts]

\* Only the loops and the system loop's position matter to shutdown.  A tick
\* leaves "at" at 1 again, whatever became of its snapshot, and that is where the
\* joins begin; a loop joined once stays stopped.
ShutdownInv ==
  /\ loop \in [Engines -> Places]
  /\ system \in {"waiting", "reading", "joining", "done"}
  /\ at \in Nat \ {0}
  /\ system = "waiting" => at = 1
  /\ system = "joining" => \A i \in 1..Len(Order) : i < at => loop[Order[i]] = "stopped"
  /\ system = "done" => \A i \in 1..Len(Order) : loop[Order[i]] = "stopped"

LEMMA EngineFacts ==
  /\ \A i \in 1..Len(Order) : Order[i] \in Engines
  /\ \A e \in Engines : \E i \in 1..Len(Order) : Order[i] = e
  /\ Len(Order) \in Nat
  BY CollectorAssumption DEF Engines, Range

\* An engine loop never leaves "stopped".
LEMMA LoopsStayStopped ==
  ASSUME ShutdownInv, NEW e \in Engines, EngineLoop(e)
  PROVE  /\ loop' \in [Engines -> Places]
         /\ \A f \in Engines : loop[f] = "stopped" => loop'[f] = "stopped"
         /\ system' = system /\ at' = at
  BY DEF ShutdownInv, Places, EngineLoop, StartPoll, FinishPoll, StopLoop, CallHangs, CallReturns

LEMMA ShutdownStep == ShutdownInv /\ [CollectorNext]_collectorVars => ShutdownInv'
<1> SUFFICES ASSUME ShutdownInv, [CollectorNext]_collectorVars PROVE ShutdownInv'
  OBVIOUS
<1>1. CASE Tick
  BY <1>1 DEF Tick, ShutdownInv
<1>2. CASE ReadSlot
  BY <1>2 DEF ReadSlot, ShutdownInv
<1>3. CASE Emit
  BY <1>3 DEF Emit, ShutdownInv
<1>4. CASE StopSystem
  BY <1>4 DEF StopSystem, ShutdownInv
<1>5. CASE Join
  BY <1>5, EngineFacts DEF Join, ShutdownInv
<1>6. CASE \E e \in Engines : EngineLoop(e)
  <2>1. /\ loop' \in [Engines -> Places] /\ system' = system /\ at' = at
        /\ \A f \in Engines : loop[f] = "stopped" => loop'[f] = "stopped"
    BY <1>6, LoopsStayStopped
  <2> QED
    BY <2>1, EngineFacts DEF ShutdownInv
<1>7. CASE (\E e \in Engines : EngineFlips(e)) \/ Receive \/ CloseChannel \/ CancelToken \/ UNCHANGED collectorVars
  BY <1>7 DEF EngineFlips, Receive, CloseChannel, CancelToken, collectorVars, ShutdownInv
<1> QED
  BY <1>1, <1>2, <1>3, <1>4, <1>5, <1>6, <1>7 DEF CollectorNext, SystemLoop

\* "so the JoinHandle reflects total shutdown" (Collector::spawn): when the handle
\* completes, every engine loop has stopped, in whatever order they were joined.
THEOREM HandleIsTotal == CollectorSpec => []HandleMeansStopped
<1>1. CollectorInit => ShutdownInv
  BY DEF CollectorInit, ShutdownInv, Places
<1>2. ShutdownInv => HandleMeansStopped
  BY EngineFacts DEF ShutdownInv, HandleMeansStopped
<1> QED
  BY <1>1, <1>2, ShutdownStep, PTL DEF CollectorSpec

-----------------------------------------------------------------------------
(* What the snapshots say of an engine.                                    *)

\* The consumer is never told that an engine which is not there has answered, and
\* the channel never holds more than its capacity, however slow the consumer is
\* and whenever the loops run (Collector::run, try_send).
AbsentNeverLive ==
  /\ \A e \in Engines \ attached : received[e] # Live
  /\ Len(channel) <= TxCapacity

\* Once a snapshot said something of an engine, no later one takes it back: a tab
\* that stopped waiting for its engine does not start again.
NeverUnknownAgain == \A e \in Engines : received[e] # Nothing => received'[e] # Nothing

\* Every place that holds what an engine said.
DataInv ==
  /\ slot \in Snapshots /\ draft \in Snapshots /\ received \in Snapshots
  /\ channel \in Seq(Snapshots)
  /\ Len(channel) <= TxCapacity

AbsentInv ==
  /\ \A e \in Engines \ attached :
       loop[e] = "stopped" /\ slot[e] # Live /\ draft[e] # Live /\ received[e] # Live
  /\ \A e \in Engines \ attached : \A i \in 1..Len(channel) : channel[i][e] # Live

\* From the consumer back to the slots: what is known at one place is known at all
\* places behind it.  A draft counts as far as it has been read.
KnownInv ==
  /\ \A e \in Engines : received[e] # Nothing => slot[e] # Nothing
  /\ \A e \in Engines : draft[e] # Nothing => slot[e] # Nothing
  /\ \A e \in Engines : \A i \in 1..Len(channel) :
       /\ received[e] # Nothing => channel[i][e] # Nothing
       /\ channel[i][e] # Nothing => slot[e] # Nothing
       /\ \A j \in 1..Len(channel) : i < j /\ channel[i][e] # Nothing => channel[j][e] # Nothing
  /\ system = "reading" =>
       \A k \in 1..Len(Order) : k < at =>
         /\ received[Order[k]] # Nothing => draft[Order[k]] # Nothing
         /\ \A i \in 1..Len(channel) : channel[i][Order[k]] # Nothing => draft[Order[k]] # Nothing

LEMMA AppendFacts ==
  ASSUME NEW S, NEW s \in Seq(S), NEW x \in S
  PROVE  /\ Append(s, x) \in Seq(S) /\ Len(Append(s, x)) = Len(s) + 1 /\ Len(s) \in Nat
         /\ \A i \in 1..Len(s) : Append(s, x)[i] = s[i]
         /\ Append(s, x)[Len(s) + 1] = x
         /\ \A i \in 1..(Len(s) + 1) : i \in 1..Len(s) \/ i = Len(s) + 1
  OBVIOUS

LEMMA TailFacts ==
  ASSUME NEW S, NEW s \in Seq(S), s # <<>>
  PROVE  /\ Tail(s) \in Seq(S) /\ Len(Tail(s)) = Len(s) - 1
         /\ \A i \in 1..Len(Tail(s)) : Tail(s)[i] = s[i + 1] /\ i + 1 \in 1..Len(s)
         /\ Head(s) = s[1] /\ 1 \in 1..Len(s)
  OBVIOUS

LEMMA DataStep == ShutdownInv /\ DataInv /\ [CollectorNext]_collectorVars => DataInv'
<1> SUFFICES ASSUME ShutdownInv, DataInv, [CollectorNext]_collectorVars PROVE DataInv'
  OBVIOUS
<1>1. CASE \/ Tick \/ StopSystem \/ Join \/ CancelToken \/ (\E e \in Engines : EngineFlips(e))
           \/ UNCHANGED collectorVars
  BY <1>1 DEF Tick, StopSystem, Join, CancelToken, EngineFlips, collectorVars, DataInv
<1>2. CASE ReadSlot
  BY <1>2, EngineFacts DEF ReadSlot, ShutdownInv, DataInv, Snapshots
<1>3. CASE Emit
  <2>1. draft' \in Snapshots
    BY <1>3 DEF Emit, Snapshots, Facts
  <2>2. CASE channel' = channel
    BY <1>3, <2>1, <2>2 DEF Emit, DataInv
  <2>3. CASE channel' = Append(channel, draft) /\ Len(channel) < TxCapacity
    <3>1. channel' \in Seq(Snapshots) /\ Len(channel') <= TxCapacity
      BY <2>3, AppendFacts, CollectorAssumption DEF DataInv
    <3> QED
      BY <1>3, <2>1, <3>1 DEF Emit, DataInv
  <2> QED
    BY <1>3, <2>2, <2>3 DEF Emit
<1>4. CASE \E e \in Engines : EngineLoop(e)
  BY <1>4 DEF EngineLoop, StartPoll, FinishPoll, StopLoop, CallHangs, CallReturns, PollOutcome, DataInv, Snapshots, Facts
<1>5. CASE Receive
  <2>1. /\ channel' \in Seq(Snapshots) /\ received' \in Snapshots /\ Len(channel') <= TxCapacity
    BY <1>5, TailFacts, CollectorAssumption DEF Receive, DataInv
  <2> QED
    BY <1>5, <2>1 DEF Receive, DataInv
<1>6. CASE CloseChannel
  BY <1>6, CollectorAssumption DEF CloseChannel, DataInv
<1> QED
  BY <1>1, <1>2, <1>3, <1>4, <1>5, <1>6 DEF CollectorNext, SystemLoop

LEMMA AbsentStep == ShutdownInv /\ DataInv /\ AbsentInv /\ [CollectorNext]_collectorVars => AbsentInv'
<1> SUFFICES ASSUME ShutdownInv, DataInv, AbsentInv, [CollectorNext]_collectorVars PROVE AbsentInv'
  OBVIOUS
<1>1. CASE \/ Tick \/ StopSystem \/ Join \/ CancelToken \/ (\E e \in Engines : EngineFlips(e))
           \/ UNCHANGED collectorVars
  BY <1>1 DEF Tick, StopSystem, Join, CancelToken, EngineFlips, collectorVars, AbsentInv
<1>2. CASE ReadSlot
  BY <1>2, EngineFacts DEF ReadSlot, ShutdownInv, DataInv, AbsentInv, Snapshots
<1>3. CASE Emit
  <2>1. /\ attached' = attached /\ loop' = loop /\ slot' = slot /\ received' = received
        /\ \A e \in Engines : draft'[e] # Live
        /\ channel' = channel \/ channel' = Append(channel, draft)
    BY <1>3 DEF Emit, Nothing, Live
  <2>2. \A e \in Engines \ attached : \A i \in 1..Len(channel') : channel'[i][e] # Live
    BY <2>1, AppendFacts DEF DataInv, AbsentInv
  <2> QED
    BY <2>1, <2>2 DEF AbsentInv
<1>4. CASE \E e \in Engines : EngineLoop(e)
  BY <1>4 DEF EngineLoop, StartPoll, FinishPoll, StopLoop, CallHangs, CallReturns, ShutdownInv, DataInv, AbsentInv,
              Snapshots
<1>5. CASE Receive
  BY <1>5, TailFacts DEF Receive, DataInv, AbsentInv
<1>6. CASE CloseChannel
  BY <1>6 DEF CloseChannel, AbsentInv
<1> QED
  BY <1>1, <1>2, <1>3, <1>4, <1>5, <1>6 DEF CollectorNext, SystemLoop

LEMMA KnownStep == ShutdownInv /\ DataInv /\ KnownInv /\ [CollectorNext]_collectorVars => KnownInv'
<1> SUFFICES ASSUME ShutdownInv, DataInv, KnownInv, [CollectorNext]_collectorVars PROVE KnownInv'
  OBVIOUS
<1>1. CASE \/ StopSystem \/ Join \/ CancelToken \/ (\E e \in Engines : EngineFlips(e))
           \/ UNCHANGED collectorVars
  BY <1>1 DEF StopSystem, Join, CancelToken, EngineFlips, collectorVars, KnownInv
<1>2. CASE Tick
  BY <1>2 DEF Tick, KnownInv
<1>3. CASE ReadSlot
  <2>1. /\ slot' = slot /\ received' = received /\ channel' = channel /\ at' = at + 1
        /\ system = "reading" /\ at \in 1..Len(Order) /\ Order[at] \in Engines
        /\ draft' = [draft EXCEPT ![Order[at]] = slot[Order[at]]]
    BY <1>3, EngineFacts DEF ReadSlot, ShutdownInv
  <2>2. \A e \in Engines : draft'[e] = IF e = Order[at] THEN slot[e] ELSE draft[e]
    BY <2>1 DEF DataInv, Snapshots
  <2>3. \A k \in 1..Len(Order) : k < at' => k < at \/ k = at
    BY <2>1, EngineFacts
  <2>4. \A e \in Engines : draft'[e] # Nothing => slot'[e] # Nothing
    BY <2>1, <2>2 DEF KnownInv
  <2>5. \A k \in 1..Len(Order) : k < at' =>
          /\ received'[Order[k]] # Nothing => draft'[Order[k]] # Nothing
          /\ \A i \in 1..Len(channel') : channel'[i][Order[k]] # Nothing => draft'[Order[k]] # Nothing
    BY <2>1, <2>2, <2>3, EngineFacts DEF KnownInv
  <2> QED
    BY <2>1, <2>4, <2>5 DEF KnownInv
<1>4. CASE Emit
  <2>1. CASE channel' = channel
    BY <1>4, <2>1 DEF Emit, KnownInv
  <2>2. CASE channel' = Append(channel, draft)
    <3> DEFINE n == Len(channel)
    <3>1. /\ slot' = slot /\ received' = received /\ system' # "reading"
          /\ \A e \in Engines : draft'[e] = Nothing
      BY <1>4 DEF Emit
    <3>2. /\ n \in Nat /\ Len(channel') = n + 1 /\ channel'[n + 1] = draft
          /\ \A i \in 1..n : channel'[i] = channel[i]
          /\ \A i \in 1..(n + 1) : i \in 1..n \/ i = n + 1
      BY <2>2, AppendFacts DEF DataInv
    <3>3. \A e \in Engines :
            /\ received[e] # Nothing => draft[e] # Nothing
            /\ \A i \in 1..n : channel[i][e] # Nothing => draft[e] # Nothing
      <4> SUFFICES ASSUME NEW e \in Engines
                   PROVE  /\ received[e] # Nothing => draft[e] # Nothing
                          /\ \A i \in 1..n : channel[i][e] # Nothing => draft[e] # Nothing
        OBVIOUS
      <4>1. PICK k \in 1..Len(Order) : Order[k] = e
        BY EngineFacts
      <4>2. system = "reading" /\ k < at
        BY <1>4, EngineFacts DEF Emit, ShutdownInv
      <4> QED
        BY <4>1, <4>2 DEF KnownInv
    <3>4. \A e \in Engines : \A i \in 1..Len(channel') :
            /\ received[e] # Nothing => channel'[i][e] # Nothing
            /\ channel'[i][e] # Nothing => slot[e] # Nothing
      BY <3>2, <3>3 DEF KnownInv
    <3>5. \A e \in Engines : \A i, j \in 1..Len(channel') :
            i < j /\ channel'[i][e] # Nothing => channel'[j][e] # Nothing
      <4> SUFFICES ASSUME NEW e \in Engines, NEW i \in 1..Len(channel'), NEW j \in 1..Len(channel'),
                          i < j, channel'[i][e] # Nothing
                   PROVE  channel'[j][e] # Nothing
        OBVIOUS
      <4>1. i \in 1..n /\ channel[i][e] # Nothing
        BY <3>2
      <4>2. CASE j \in 1..n
        BY <3>2, <4>1, <4>2 DEF KnownInv
      <4>3. CASE j = n + 1
        BY <3>2, <3>3, <4>1, <4>3
      <4> QED
        BY <3>2, <4>2, <4>3
    <3> QED
      BY <3>1, <3>4, <3>5 DEF KnownInv
  <2> QED
    BY <1>4, <2>1, <2>2 DEF Emit
<1>5. CASE \E e \in Engines : EngineLoop(e)
  <2>1. /\ received' = received /\ channel' = channel /\ draft' = draft /\ system' = system
        /\ at' = at /\ \A e \in Engines : slot[e] # Nothing => slot'[e] # Nothing
    BY <1>5 DEF EngineLoop, StartPoll, FinishPoll, StopLoop, CallHangs, CallReturns, PollOutcome, DataInv, Snapshots,
                Nothing, Unavailable, Live
  <2> QED
    BY <2>1 DEF KnownInv
<1>6. CASE Receive
  <2>1. /\ slot' = slot /\ draft' = draft /\ system' = system /\ at' = at
        /\ received' = channel[1] /\ 1 \in 1..Len(channel) /\ Len(channel) \in Nat
        /\ channel' = Tail(channel)
        /\ \A i \in 1..Len(channel') : channel'[i] = channel[i + 1] /\ i + 1 \in 1..Len(channel)
    BY <1>6, TailFacts DEF Receive, DataInv
  <2>2. \A e \in Engines : /\ received'[e] # Nothing => slot'[e] # Nothing
                           /\ draft'[e] # Nothing => slot'[e] # Nothing
    BY <2>1 DEF KnownInv
  <2>3. \A e \in Engines : \A i \in 1..Len(channel') :
          /\ received'[e] # Nothing => channel'[i][e] # Nothing
          /\ channel'[i][e] # Nothing => slot'[e] # Nothing
          /\ \A j \in 1..Len(channel') : i < j /\ channel'[i][e] # Nothing => channel'[j][e] # Nothing
    <3> SUFFICES ASSUME NEW e \in Engines, NEW i \in 1..Len(channel')
                 PROVE  /\ received'[e] # Nothing => channel'[i][e] # Nothing
                        /\ channel'[i][e] # Nothing => slot'[e] # Nothing
                        /\ \A j \in 1..Len(channel') :
                             i < j /\ channel'[i][e] # Nothing => channel'[j][e] # Nothing
      OBVIOUS
    <3>1. i + 1 \in 1..Len(channel) /\ channel'[i] = channel[i + 1] /\ 1 < i + 1
      BY <2>1
    <3>2. \A j \in 1..Len(channel') : i < j =>
            j + 1 \in 1..Len(channel) /\ channel'[j] = channel[j + 1] /\ i + 1 < j + 1
      BY <2>1
    <3> QED
      BY <2>1, <3>1, <3>2 DEF KnownInv
  <2>4. system' = "reading" =>
          \A k \in 1..Len(Order) : k < at' =>
            /\ received'[Order[k]] # Nothing => draft'[Order[k]] # Nothing
            /\ \A i \in 1..Len(channel') : channel'[i][Order[k]] # Nothing => draft'[Order[k]] # Nothing
    BY <2>1 DEF KnownInv
  <2> QED
    BY <2>2, <2>3, <2>4 DEF KnownInv
<1>7. CASE CloseChannel
  BY <1>7, EngineFacts DEF CloseChannel, KnownInv
<1> QED
  BY <1>1, <1>2, <1>3, <1>4, <1>5, <1>6, <1>7 DEF CollectorNext, SystemLoop

IInv == ShutdownInv /\ DataInv /\ AbsentInv /\ KnownInv

LEMMA Invariance == CollectorSpec => []IInv
<1>1. CollectorInit => IInv
  <2> SUFFICES ASSUME CollectorInit PROVE IInv
    OBVIOUS
  <2>1. ShutdownInv
    BY DEF CollectorInit, ShutdownInv, Places
  <2>2. DataInv
    BY CollectorAssumption DEF CollectorInit, InitialSlot, DataInv, Snapshots, Facts
  <2>3. AbsentInv
    BY DEF CollectorInit, InitialSlot, AbsentInv, Nothing, Unavailable, Live
  <2>4. KnownInv
    BY EngineFacts DEF CollectorInit, KnownInv
  <2> QED
    BY <2>1, <2>2, <2>3, <2>4 DEF IInv
<1>2. IInv /\ [CollectorNext]_collectorVars => IInv'
  BY ShutdownStep, DataStep, AbsentStep, KnownStep DEF IInv
<1> QED
  BY <1>1, <1>2, PTL DEF CollectorSpec

\* For any engines, attached or not: an absent one is never reported live and the
\* channel keeps to its capacity (spawn, run).
THEOREM AbsentEnginesStayAbsent == CollectorSpec => []AbsentNeverLive
<1>1. IInv => AbsentNeverLive
  BY DEF IInv, DataInv, AbsentInv, AbsentNeverLive
<1> QED
  BY <1>1, Invariance, PTL

\* What the consumer knows of an engine it goes on knowing, although slots are
\* read one lock at a time and snapshots are dropped when the channel is full.
THEOREM KnowledgeGrows == CollectorSpec => [][NeverUnknownAgain]_collectorVars
<1>1. IInv /\ [CollectorNext]_collectorVars => [NeverUnknownAgain]_collectorVars
  <2> SUFFICES ASSUME IInv, CollectorNext PROVE NeverUnknownAgain
    BY DEF collectorVars, NeverUnknownAgain
  <2>1. CASE Receive
    BY <2>1, TailFacts DEF IInv, Receive, DataInv, KnownInv, NeverUnknownAgain
  <2>2. CASE received' = received
    BY <2>2 DEF NeverUnknownAgain
  <2>3. Receive \/ received' = received
    BY DEF CollectorNext, SystemLoop, Tick, ReadSlot, Emit, StopSystem, Join, EngineLoop, StartPoll,
           FinishPoll, StopLoop, CallHangs, CallReturns, EngineFlips, CloseChannel, CancelToken
  <2> QED
    BY <2>1, <2>2, <2>3
<1> QED
  BY <1>1, Invariance, PTL DEF CollectorSpec
=============================================================================

---------------------------- MODULE ServerProofs ----------------------------
(***************************************************************************)
(* Theorems about Server, for any finite set of connections, any number of *)
(* permits and any capacity of the broadcast channel.                      *)
(***************************************************************************)
EXTENDS Server, FiniteSetTheorems, TLAPS

Live == {"tls", "hello", "welcoming", "refusing", "streaming", "writing"}

Sessions == {c \in Conn : InSession(c)}

\* Log, relay and queue hold snapshots in the order they were taken, none twice:
\* first what was broadcast, then the one in hand, then those in the queue.
FeedOrdered ==
  /\ done <= taken /\ hand <= taken
  /\ hand # Nothing => done < hand
  /\ \A i \in 1..Len(log) : log[i] <= done
  /\ \A i, j \in 1..Len(log) : i < j => log[i] < log[j]
  /\ \A i \in 1..Len(queue) : done < queue[i] /\ hand < queue[i] /\ queue[i] <= taken
  /\ \A i, j \in 1..Len(queue) : i < j => queue[i] < queue[j]

\* A snapshot numbered n is news to session s.
News(s, n) == s.since < n /\ s.written < n /\ s.frame < n

\* What a session's task may rely on: whatever it has yet to receive is news
\* to it, and so was the frame it is writing.
Sound(s) ==
  /\ s.since <= done /\ s.written <= done /\ s.frame <= done
  /\ s.frame # Beat => s.since < s.frame /\ s.written < s.frame
  /\ s.written > 0 => s.since < s.written
  /\ s.pc \in {"welcoming", "streaming", "writing"} \/ s.written > 0 => s.offer = Token
  /\ s.pc \in {"tls", "hello"} => s.written = 0
  /\ s.pc \in Live => /\ 1 <= s.pos /\ s.pos <= Len(log) + 1
                      /\ \A i \in 1..Len(log) : s.pos <= i => News(s, log[i])

IInv == TypeOK /\ PermitsAccounted /\ FeedOrdered /\ \A c \in Conn : Sound(conn[c])

-----------------------------------------------------------------------------
(* The permits.                                                            *)

LEMMA SessionsFinite ==
  /\ IsFiniteSet(Sessions)
  /\ Cardinality(Sessions) \in Nat
<1>1. IsFiniteSet(Sessions)
  BY ServerAssumption, FS_Subset DEF Sessions
<1> QED
  BY <1>1, FS_CardinalityType

-----------------------------------------------------------------------------
(* Steps that change one connection only.                                  *)

\* A task that stays in its session, or outside one.
LEMMA StayStep ==
  ASSUME IInv, NEW c \in Conn, NEW s \in SessionState, Stay(c, s), Sound(s),
         s.pc \in Live <=> conn[c].pc \in Live
  PROVE  IInv'
<1>1. /\ conn' = [conn EXCEPT ![c] = s]
      /\ UNCHANGED <<accepting, relaying, collectorOpen, taken, queue, hand, done, log, permits, stalled,
                     cancelled>>
  BY DEF Stay, feed
<1>2. TypeOK'
  BY <1>1 DEF IInv, TypeOK
<1>3. Sessions' = Sessions
  BY <1>1 DEF IInv, TypeOK, Sessions, InSession, Pc, Live
<1>4. PermitsAccounted'
  BY <1>1, <1>3 DEF IInv, PermitsAccounted, Sessions
<1>5. FeedOrdered'
  BY <1>1 DEF IInv, FeedOrdered
<1>6. ASSUME NEW d \in Conn PROVE Sound(conn[d])'
  <2>1. conn'[d] = IF d = c THEN s ELSE conn[d]
    BY <1>1 DEF IInv, TypeOK
  <2>2. Sound(conn'[d])
    BY <2>1 DEF IInv
  <2> QED
    BY <1>1, <2>2 DEF Sound, News
<1> QED
  BY <1>2, <1>4, <1>5, <1>6 DEF IInv

\* A task that returns gives back exactly the permit it held.
LEMMA EndStep ==
  ASSUME IInv, NEW c \in Conn, End(c), InSession(c)
  PROVE  IInv'
<1> DEFINE s == Idle("closed")
<1>1. /\ conn' = [conn EXCEPT ![c] = s] /\ permits' = permits + 1
      /\ stalled' = [stalled EXCEPT ![c] = FALSE]
      /\ UNCHANGED <<accepting, relaying, collectorOpen, taken, queue, hand, done, log, cancelled>>
  BY DEF End, feed
<1>2. s \in SessionState /\ s.pc = "closed"
  BY DEF SessionState, Idle, Beat
<1>3. Sessions' = Sessions \ {c} /\ c \in Sessions
  BY <1>1, <1>2 DEF IInv, TypeOK, Sessions, InSession, Pc
<1>4. Cardinality(Sessions') = Cardinality(Sessions) - 1
  BY <1>3, SessionsFinite, FS_RemoveElement
<1>5. PermitsAccounted'
  BY <1>1, <1>4, SessionsFinite, ServerAssumption
  DEF IInv, TypeOK, PermitsAccounted, Sessions
<1>6. permits' \in 0..MaxClients
  <2>1. permits' \in Int /\ permits' >= 0
    BY <1>1, ServerAssumption DEF IInv, TypeOK
  <2>2. Cardinality(Sessions') \in Nat
    BY <1>3, <1>4, SessionsFinite, FS_RemoveElement, FS_CardinalityType
  <2> QED
    BY <1>5, <2>1, <2>2, ServerAssumption DEF PermitsAccounted, Sessions
<1>7. TypeOK'
  <2> HIDE DEF s
  <2> QED
    BY <1>1, <1>2, <1>6 DEF IInv, TypeOK
<1>8. FeedOrdered'
  BY <1>1 DEF IInv, FeedOrdered
<1>9. ASSUME NEW d \in Conn PROVE Sound(conn[d])'
  <2>1. conn'[d] = IF d = c THEN s ELSE conn[d]
    BY <1>1 DEF IInv, TypeOK
  <2>2. Sound(s)
    BY DEF IInv, TypeOK, Sound, Idle, Beat, Live
  <2>3. Sound(conn'[d])
    BY <2>1, <2>2 DEF IInv
  <2> QED
    BY <1>1, <2>3 DEF Sound, News
<1> QED
  BY <1>5, <1>7, <1>8, <1>9 DEF IInv

\* A stream dropped before it was accepted costs nothing.
LEMMA DropStep ==
  ASSUME IInv, NEW c \in Conn, DropTcp(c), Pc(c) = "new"
  PROVE  IInv'
<1>1. Idle("closed") \in SessionState
  BY DEF SessionState, Idle, Beat
<1>2. Sound(Idle("closed"))
  BY DEF IInv, TypeOK, Sound, Idle, Beat, Live
<1>3. Stay(c, Idle("closed"))
  BY DEF DropTcp, Stay
<1>4. Idle("closed").pc \in Live <=> conn[c].pc \in Live
  BY DEF Idle, Live, Pc
<1> QED
  BY <1>1, <1>2, <1>3, <1>4, StayStep

\* A new session subscribes behind everything sent so far.
LEMMA AcceptStep ==
  ASSUME IInv, NEW c \in Conn, Accept(c)
  PROVE  IInv'
<1> DEFINE s == [Idle("tls") EXCEPT !.pos = SubscribeAt, !.since = done]
<1>1. /\ conn' = [conn EXCEPT ![c] = s] /\ permits' = permits - 1
      /\ permits > 0 /\ conn[c].pc = "new"
      /\ UNCHANGED <<accepting, relaying, collectorOpen, taken, queue, hand, done, log, stalled,
                     cancelled>>
  BY DEF Accept, feed, Pc
<1>2. Len(log) \in Nat /\ done \in Nat
  BY DEF IInv, TypeOK
<1>3. s \in SessionState /\ s.pc = "tls"
  <2>1. Idle("tls") \in SessionState /\ Idle("tls").pc = "tls"
    BY DEF SessionState, Idle, Beat
  <2>2. SubscribeAt \in Nat
    BY <1>2 DEF SubscribeAt
  <2> QED
    BY <1>2, <2>1, <2>2 DEF SessionState
<1>4. Sessions' = Sessions \cup {c} /\ c \notin Sessions
  BY <1>1, <1>3 DEF IInv, TypeOK, Sessions, InSession, Pc
<1>5. Cardinality(Sessions') = Cardinality(Sessions) + 1
  BY <1>4, SessionsFinite, FS_AddElement
<1>6. PermitsAccounted'
  BY <1>1, <1>5, SessionsFinite, ServerAssumption
  DEF IInv, TypeOK, PermitsAccounted, Sessions
<1>7. permits' \in 0..MaxClients
  BY <1>1, ServerAssumption DEF IInv, TypeOK
<1>8. TypeOK'
  <2> HIDE DEF s
  <2> QED
    BY <1>1, <1>3, <1>7 DEF IInv, TypeOK
<1>9. FeedOrdered'
  BY <1>1 DEF IInv, FeedOrdered
<1>10. ASSUME NEW d \in Conn PROVE Sound(conn[d])'
  <2>1. conn'[d] = IF d = c THEN s ELSE conn[d]
    BY <1>1 DEF IInv, TypeOK
  <2>2. Sound(s)
    BY <1>2 DEF Sound, Idle, Beat, Live, SubscribeAt
  <2>3. Sound(conn'[d])
    BY <2>1, <2>2 DEF IInv
  <2> QED
    BY <1>1, <2>3 DEF Sound, News
<1> QED
  BY <1>6, <1>8, <1>9, <1>10 DEF IInv

-----------------------------------------------------------------------------
(* The collector's channel and the relay.                                  *)

\* What is known of numbers and sequences, for every leaf below.
LEMMA FeedTypes ==
  ASSUME IInv
  PROVE  /\ log \in Seq(1..MaxSnapshots) /\ Len(log) \in Nat
         /\ \A i \in 1..Len(log) : log[i] \in 1..MaxSnapshots
         /\ queue \in Seq(1..MaxSnapshots) /\ Len(queue) \in Nat
         /\ \A i \in 1..Len(queue) : queue[i] \in 1..MaxSnapshots
         /\ taken \in Nat /\ hand \in Nat /\ done \in Nat /\ MaxSnapshots \in Nat
BY ServerAssumption DEF IInv, TypeOK

\* While the log stays, a session only gains from the relay being done with more.
LEMMA SoundLater ==
  ASSUME IInv, UNCHANGED <<log, conn>>, done' \in Nat, done <= done', NEW d \in Conn
  PROVE  Sound(conn[d])'
<1>1. conn[d] \in SessionState /\ Sound(conn[d])
  BY DEF IInv, TypeOK
<1> QED
  BY <1>1, FeedTypes DEF Sound, News, SessionState

\* A snapshot just taken goes behind everything that is on its way.
LEMMA CollectorStep ==
  ASSUME IInv, CollectorSends
  PROVE  IInv'
<1>1. /\ taken' = taken + 1 /\ taken < MaxSnapshots
      /\ queue' = Append(queue, taken + 1) \/ queue' = queue
      /\ UNCHANGED <<accepting, relaying, collectorOpen, hand, done, log, permits, conn, stalled,
                     cancelled>>
  BY DEF CollectorSends
<1>2. taken + 1 \in 1..MaxSnapshots /\ taken' \in 0..MaxSnapshots
  BY <1>1, FeedTypes
<1>3. TypeOK'
  <2>1. queue' \in Seq(1..MaxSnapshots)
    <3> DEFINE S == 1..MaxSnapshots
    <3>1. queue \in Seq(S) /\ taken + 1 \in S
      BY <1>2, FeedTypes
    <3> HIDE DEF S
    <3>2. queue' \in Seq(S)
      BY <1>1, <3>1
    <3> QED
      BY <3>2 DEF S
  <2> QED
    BY <1>1, <1>2, <2>1 DEF IInv, TypeOK
<1>4. PermitsAccounted'
  BY <1>1 DEF IInv, PermitsAccounted, InSession, Pc
<1>5. FeedOrdered'
  <2>1. /\ done <= taken' /\ hand <= taken' /\ (hand # Nothing => done < hand)
        /\ \A i \in 1..Len(log) : log[i] <= done
        /\ \A i, j \in 1..Len(log) : i < j => log[i] < log[j]
    BY <1>1, FeedTypes DEF IInv, FeedOrdered
  <2>2. CASE queue' = queue
    BY <1>1, <2>1, <2>2, FeedTypes DEF IInv, FeedOrdered
  <2>3. CASE queue' = Append(queue, taken + 1)
    <3>1. /\ Len(queue') = Len(queue) + 1
          /\ \A i \in 1..Len(queue) : queue'[i] = queue[i]
          /\ queue'[Len(queue) + 1] = taken + 1
      BY <2>3, FeedTypes
    <3>2. ASSUME NEW i \in 1..Len(queue')
          PROVE  done < queue'[i] /\ hand < queue'[i] /\ queue'[i] <= taken'
      <4>0. taken' = taken + 1 /\ done <= taken /\ hand <= taken
        BY <1>1 DEF IInv, FeedOrdered
      <4>1. CASE i = Len(queue) + 1
        <5>1. queue'[i] = taken + 1
          BY <3>1, <4>1
        <5> QED
          BY <4>0, <5>1, FeedTypes
      <4>2. CASE i \in 1..Len(queue)
        <5>1. queue'[i] = queue[i] /\ queue[i] \in Nat
          BY <3>1, <4>2, FeedTypes
        <5>2. done < queue[i] /\ hand < queue[i] /\ queue[i] <= taken
          BY <4>2 DEF IInv, FeedOrdered
        <5> QED
          BY <4>0, <5>1, <5>2, FeedTypes
      <4>3. i = Len(queue) + 1 \/ i \in 1..Len(queue)
        BY <3>1, FeedTypes
      <4> QED
        BY <4>1, <4>2, <4>3
    <3>3. ASSUME NEW i \in 1..Len(queue'), NEW j \in 1..Len(queue'), i < j
          PROVE  queue'[i] < queue'[j]
      <4>1. i \in 1..Len(queue) /\ queue'[i] = queue[i] /\ queue[i] <= taken /\ queue[i] \in Nat
        BY <3>1, <3>3, FeedTypes DEF IInv, FeedOrdered
      <4>2. CASE j = Len(queue) + 1
        <5>1. queue'[j] = taken + 1
          BY <3>1, <4>2
        <5> QED
          BY <4>1, <5>1, FeedTypes
      <4>3. CASE j \in 1..Len(queue)
        <5>1. queue'[j] = queue[j] /\ queue[i] < queue[j]
          BY <3>1, <3>3, <4>1, <4>3 DEF IInv, FeedOrdered
        <5> QED
          BY <4>1, <5>1
      <4>4. j = Len(queue) + 1 \/ j \in 1..Len(queue)
        <5>1. j \in 1..(Len(queue) + 1) /\ Len(queue) \in Nat
          BY <3>1, FeedTypes
        <5> QED
          BY <5>1
      <4> QED
        BY <4>2, <4>3, <4>4
    <3> QED
      BY <1>1, <2>1, <3>2, <3>3 DEF FeedOrdered
  <2> QED
    BY <1>1, <2>2, <2>3
<1>6. \A d \in Conn : Sound(conn[d])'
  BY <1>1, FeedTypes, SoundLater
<1> QED
  BY <1>3, <1>4, <1>5, <1>6 DEF IInv

\* The next of the queue is in the relay's hands, or dropped.
LEMMA ReceiveStep ==
  ASSUME IInv, RelayReceive
  PROVE  IInv'
<1>1. /\ hand = 0 /\ queue # <<>> /\ queue' = Tail(queue)
      /\ \/ hand' = Head(queue) /\ done' = done
         \/ done' = Head(queue) /\ hand' = hand
      /\ UNCHANGED <<accepting, relaying, collectorOpen, taken, log, permits, conn, stalled,
                     cancelled>>
  BY DEF RelayReceive, Nothing
<1>2. /\ Head(queue) = queue[1] /\ 1 \in 1..Len(queue)
      /\ queue' \in Seq(1..MaxSnapshots)
      /\ Len(queue') = Len(queue) - 1
      /\ \A i \in 1..Len(queue') : queue'[i] = queue[i + 1] /\ i + 1 \in 1..Len(queue)
  <2> DEFINE S == 1..MaxSnapshots
  <2>1. queue \in Seq(S) /\ queue # <<>> /\ queue' = Tail(queue)
    BY <1>1, FeedTypes
  <2> HIDE DEF S
  <2>2. /\ Head(queue) = queue[1] /\ 1 \in 1..Len(queue)
        /\ queue' \in Seq(S)
        /\ Len(queue') = Len(queue) - 1
        /\ \A i \in 1..Len(queue') : queue'[i] = queue[i + 1] /\ i + 1 \in 1..Len(queue)
    BY <2>1
  <2> QED
    BY <2>2 DEF S
<1> DEFINE n == Head(queue)
<1>3. n \in 1..MaxSnapshots /\ n \in Nat /\ done < n /\ n <= taken /\ n # 0
  BY <1>2, FeedTypes DEF IInv, FeedOrdered
<1> HIDE DEF n
<1>4. /\ done' \in 0..MaxSnapshots /\ hand' \in 0..MaxSnapshots
      /\ done <= done' /\ done' <= taken /\ hand' <= taken
      /\ hand' # 0 => done' < hand'
      /\ done' <= n /\ hand' <= n
  BY <1>1, <1>3, FeedTypes DEF n
<1>5. TypeOK'
  BY <1>1, <1>2, <1>4 DEF IInv, TypeOK
<1>6. PermitsAccounted'
  BY <1>1 DEF IInv, PermitsAccounted, InSession, Pc
<1>7. FeedOrdered'
  <2>1. ASSUME NEW i \in 1..Len(queue')
        PROVE  done' < queue'[i] /\ hand' < queue'[i] /\ queue'[i] <= taken'
    <3>1. i + 1 \in 1..Len(queue) /\ queue'[i] = queue[i + 1] /\ 1 < i + 1
      BY <1>2, <2>1, FeedTypes
    <3>2. n < queue[i + 1] /\ queue[i + 1] <= taken /\ queue[i + 1] \in Nat
      BY <1>2, <3>1, FeedTypes DEF IInv, FeedOrdered, n
    <3> QED
      BY <1>1, <1>3, <1>4, <3>1, <3>2, FeedTypes
  <2>2. ASSUME NEW i \in 1..Len(queue'), NEW j \in 1..Len(queue'), i < j
        PROVE  queue'[i] < queue'[j]
    <3>1. /\ queue'[i] = queue[i + 1] /\ i + 1 \in 1..Len(queue)
          /\ queue'[j] = queue[j + 1] /\ j + 1 \in 1..Len(queue)
          /\ i + 1 < j + 1
      BY <1>2, <2>2, FeedTypes
    <3>2. queue[i + 1] < queue[j + 1]
      BY <3>1 DEF IInv, FeedOrdered
    <3> QED
      BY <3>1, <3>2
  <2>3. ASSUME NEW i \in 1..Len(log) PROVE log[i] <= done'
    BY <1>4, <2>3, FeedTypes DEF IInv, FeedOrdered
  <2>4. \A i, j \in 1..Len(log) : i < j => log[i] < log[j]
    BY DEF IInv, FeedOrdered
  <2> QED
    BY <1>1, <1>4, <2>1, <2>2, <2>3, <2>4 DEF FeedOrdered, Nothing
<1>8. \A d \in Conn : Sound(conn[d])'
  BY <1>1, <1>4, FeedTypes, SoundLater
<1> QED
  BY <1>5, <1>6, <1>7, <1>8 DEF IInv

\* What is broadcast is news to everybody who has subscribed.
LEMMA SendStep ==
  ASSUME IInv, RelaySend
  PROVE  IInv'
<1>1. /\ hand # 0 /\ log' = Append(log, hand) /\ hand' = 0 /\ done' = hand
      /\ UNCHANGED <<accepting, relaying, collectorOpen, taken, queue, permits, conn, stalled,
                     cancelled>>
  BY DEF RelaySend, Nothing
<1>2. hand \in 1..MaxSnapshots /\ done < hand /\ hand <= taken
  BY <1>1 DEF IInv, TypeOK, FeedOrdered, Nothing
<1>3. TypeOK'
  <2>1. log' \in Seq(1..MaxSnapshots)
    <3> DEFINE S == 1..MaxSnapshots
    <3>1. log \in Seq(S) /\ hand \in S
      BY <1>2, FeedTypes
    <3> HIDE DEF S
    <3>2. log' \in Seq(S)
      BY <1>1, <3>1
    <3> QED
      BY <3>2 DEF S
  <2>2. hand' \in 0..MaxSnapshots /\ done' \in 0..MaxSnapshots
    BY <1>1, <1>2, FeedTypes
  <2> QED
    BY <1>1, <2>1, <2>2 DEF IInv, TypeOK
<1>4. PermitsAccounted'
  BY <1>1 DEF IInv, PermitsAccounted, InSession, Pc
<1>5. /\ Len(log') = Len(log) + 1
      /\ \A i \in 1..Len(log) : log'[i] = log[i]
      /\ log'[Len(log) + 1] = hand
  BY <1>1, FeedTypes
<1>6. FeedOrdered'
  <2>1. ASSUME NEW i \in 1..Len(log') PROVE log'[i] <= hand
    <3>1. CASE i = Len(log) + 1
      BY <1>5, <3>1, FeedTypes
    <3>2. CASE i \in 1..Len(log)
      BY <1>2, <1>5, <3>2, FeedTypes DEF IInv, FeedOrdered
    <3> QED
      BY <1>5, <3>1, <3>2, FeedTypes
  <2>2. ASSUME NEW i \in 1..Len(log'), NEW j \in 1..Len(log'), i < j
        PROVE  log'[i] < log'[j]
    <3>1. i \in 1..Len(log) /\ log'[i] = log[i] /\ log[i] <= done /\ log[i] \in Nat
      BY <1>5, <2>2, FeedTypes DEF IInv, FeedOrdered
    <3>2. CASE j = Len(log) + 1
      BY <1>2, <1>5, <3>1, <3>2, FeedTypes
    <3>3. CASE j \in 1..Len(log)
      BY <1>5, <2>2, <3>1, <3>3 DEF IInv, FeedOrdered
    <3> QED
      BY <1>5, <3>2, <3>3, FeedTypes
  <2>3. /\ \A i \in 1..Len(queue) : hand < queue[i] /\ 0 < queue[i] /\ queue[i] <= taken
        /\ \A i, j \in 1..Len(queue) : i < j => queue[i] < queue[j]
    BY FeedTypes DEF IInv, FeedOrdered
  <2> QED
    BY <1>1, <1>2, <2>1, <2>2, <2>3, FeedTypes DEF FeedOrdered, Nothing
<1>7. ASSUME NEW d \in Conn PROVE Sound(conn[d])'
  <2>1. conn[d] \in SessionState /\ Sound(conn[d])
    BY DEF IInv, TypeOK
  <2>2. News(conn[d], hand)
    BY <1>2, <2>1, FeedTypes DEF Sound, News, SessionState
  <2>3. conn[d].pc \in Live =>
          /\ 1 <= conn[d].pos /\ conn[d].pos <= Len(log') + 1
          /\ \A i \in 1..Len(log') : conn[d].pos <= i => News(conn[d], log'[i])
    <3> SUFFICES ASSUME conn[d].pc \in Live
                 PROVE  /\ 1 <= conn[d].pos /\ conn[d].pos <= Len(log') + 1
                        /\ \A i \in 1..Len(log') : conn[d].pos <= i => News(conn[d], log'[i])
      OBVIOUS
    <3>1. 1 <= conn[d].pos /\ conn[d].pos <= Len(log') + 1
      BY <1>5, <2>1, FeedTypes DEF Sound, SessionState
    <3>2. ASSUME NEW i \in 1..Len(log'), conn[d].pos <= i
          PROVE  News(conn[d], log'[i])
      <4>1. CASE i = Len(log) + 1
        BY <1>5, <2>2, <4>1
      <4>2. CASE i \in 1..Len(log)
        BY <1>5, <2>1, <3>2, <4>2 DEF Sound
      <4> QED
        BY <1>5, FeedTypes, <4>1, <4>2
    <3> QED
      BY <3>1, <3>2
  <2>4. done <= done' /\ done' \in Nat
    BY <1>1, <1>2, FeedTypes
  <2> QED
    BY <1>1, <2>1, <2>3, <2>4, FeedTypes DEF Sound, News, SessionState
<1> QED
  BY <1>3, <1>4, <1>6, <1>7 DEF IInv

\* Shutting down, the relay leaves what is queued.
LEMMA StopStep ==
  ASSUME IInv, RelayStops
  PROVE  IInv'
<1>1. /\ relaying' = FALSE /\ queue' = <<>>
      /\ UNCHANGED <<accepting, collectorOpen, taken, hand, done, log, permits, conn, stalled,
                     cancelled>>
  BY DEF RelayStops
<1>2. TypeOK'
  <2>1. queue' \in Seq(1..MaxSnapshots)
    BY <1>1
  <2> QED
    BY <1>1, <2>1 DEF IInv, TypeOK
<1>3. PermitsAccounted'
  BY <1>1 DEF IInv, PermitsAccounted, InSession, Pc
<1>4. FeedOrdered'
  BY <1>1 DEF IInv, FeedOrdered
<1>5. \A d \in Conn : Sound(conn[d])'
  BY <1>1, FeedTypes, SoundLater
<1> QED
  BY <1>2, <1>3, <1>4, <1>5 DEF IInv

-----------------------------------------------------------------------------
(* The session.                                                            *)

LEMMA SessionType ==
  ASSUME IInv, NEW c \in Conn
  PROVE  /\ conn[c] \in SessionState /\ Sound(conn[c])
         /\ Len(log) \in Nat /\ done \in Nat /\ Oldest \in Nat /\ 1 <= Oldest
         /\ Oldest <= Len(log) + 1
         /\ \A i \in 1..Len(log) : log[i] \in 1..MaxSnapshots /\ log[i] \in Nat
BY ServerAssumption DEF IInv, TypeOK, Oldest

LEMMA LaggedStep ==
  ASSUME IInv, NEW c \in Conn, Lagged(c)
  PROVE  IInv'
<1> DEFINE s == [conn[c] EXCEPT !.pos = Oldest]
<1>1. conn[c].pc = "streaming" /\ conn[c].pos < Oldest /\ Stay(c, s)
  BY DEF Lagged, Pc
<1>2. /\ s \in SessionState /\ s.pos = Oldest /\ s.pc = conn[c].pc /\ s.offer = conn[c].offer
      /\ s.since = conn[c].since /\ s.frame = conn[c].frame /\ s.written = conn[c].written
  BY SessionType DEF SessionState
<1> HIDE DEF s
<1>3. Sound(s)
  BY <1>1, <1>2, SessionType DEF Sound, News, SessionState, Live
<1> QED
  BY <1>1, <1>2, <1>3, StayStep

LEMMA RecvStep ==
  ASSUME IInv, NEW c \in Conn, Recv(c)
  PROVE  IInv'
<1> DEFINE p == conn[c].pos
           s == [conn[c] EXCEPT !.pc = "writing", !.frame = log[conn[c].pos], !.pos = @ + 1]
<1>1. conn[c].pc = "streaming" /\ p \in Oldest..Len(log) /\ Stay(c, s)
  BY DEF Recv, Pc
<1>2. p \in 1..Len(log) /\ log[p] \in 1..MaxSnapshots /\ log[p] <= done
  <2>1. p \in 1..Len(log)
    BY <1>1, SessionType
  <2> QED
    BY <2>1, SessionType DEF IInv, FeedOrdered
<1>3. /\ s \in SessionState /\ s.pos = p + 1 /\ s.pc = "writing" /\ s.offer = conn[c].offer
      /\ s.since = conn[c].since /\ s.frame = log[p] /\ s.written = conn[c].written
  <2>1. conn[c] \in SessionState /\ p + 1 \in Nat /\ log[p] \in Nat
    BY <1>2, SessionType, ServerAssumption DEF SessionState
  <2> QED
    BY <2>1 DEF SessionState
<1>4. News(conn[c], log[p]) /\ conn[c].offer = Token
  BY <1>1, <1>2, SessionType DEF Sound, Live
<1>5. ASSUME NEW i \in 1..Len(log), p + 1 <= i PROVE log[p] < log[i] /\ News(conn[c], log[i])
  <2>1. p \in Int /\ i \in Int /\ p < i /\ p <= i
    BY <1>2, <1>5
  <2>2. log[p] < log[i]
    BY <1>2, <2>1 DEF IInv, FeedOrdered
  <2>3. News(conn[c], log[i])
    BY <1>1, <2>1, SessionType DEF Sound, Live
  <2> QED
    BY <2>2, <2>3
<1> HIDE DEF s
<1>6. Sound(s)
  BY <1>1, <1>2, <1>3, <1>4, <1>5, SessionType, SMTT(40) DEF Sound, News, SessionState, Live
<1> QED
  BY <1>1, <1>3, <1>6, StayStep DEF Live

LEMMA WriteDoneStep ==
  ASSUME IInv, NEW c \in Conn, WriteDone(c)
  PROVE  IInv'
<1> DEFINE w == IF conn[c].frame = Beat THEN conn[c].written ELSE conn[c].frame
           s == [conn[c] EXCEPT !.pc = "streaming", !.frame = Beat,
                                !.written = IF conn[c].frame = Beat THEN @ ELSE conn[c].frame]
<1>1. conn[c].pc = "writing" /\ Stay(c, s)
  BY DEF WriteDone, Pc
<1>2. /\ s \in SessionState /\ s.pos = conn[c].pos /\ s.pc = "streaming"
      /\ s.offer = conn[c].offer /\ s.since = conn[c].since /\ s.frame = 0 /\ s.written = w
  BY SessionType DEF SessionState, Beat
<1> HIDE DEF s
<1>3. Sound(s)
  <2>1. /\ conn[c].since \in Nat /\ conn[c].written \in Nat /\ conn[c].frame \in Nat
        /\ w \in Nat /\ done \in Nat /\ Sound(conn[c])
    BY SessionType DEF SessionState
  <2>2. \/ w = conn[c].written
        \/ w = conn[c].frame /\ conn[c].frame # 0
    BY DEF Beat
  <2>3. /\ w <= done /\ conn[c].written <= w
        /\ w > 0 => conn[c].since < w /\ conn[c].offer = Token
    BY <1>1, <2>1, <2>2 DEF Sound, Beat
  <2>4. /\ 1 <= s.pos /\ s.pos <= Len(log) + 1
        /\ \A i \in 1..Len(log) : s.pos <= i => News(conn[c], log[i])
    BY <1>1, <1>2, <2>1 DEF Sound, Live
  <2>5. ASSUME NEW i \in 1..Len(log), s.pos <= i PROVE News(s, log[i])
    <3>1. News(conn[c], log[i]) /\ log[i] \in Nat
      BY <2>4, <2>5, SessionType
    <3> QED
      BY <1>2, <2>1, <2>2, <3>1 DEF News
  <2>6. conn[c].offer = Token
    BY <1>1, <2>1 DEF Sound
  <2> HIDE DEF w
  <2> QED
    BY <1>2, <2>1, <2>3, <2>4, <2>5, <2>6 DEF Sound, Beat
<1> QED
  BY <1>1, <1>2, <1>3, StayStep DEF Live

\* Padding with zeros and comparing the lengths is comparing the bytes.
LEMMA ComparisonExact ==
  ASSUME NEW a \in Seq(Nat), NEW b \in Seq(Nat), ConstantTimeEq(a, b)
  PROVE  a = b
<1>1. Len(a) = Len(b) /\ Len(a) \in Nat
  BY DEF ConstantTimeEq
<1>2. \A i \in 1..Len(a) : ByteAt(a, i) = ByteAt(b, i)
  BY <1>1 DEF ConstantTimeEq, NoByteDiffers
<1>3. \A i \in 1..Len(a) : i \in DOMAIN a /\ i \in DOMAIN b
  BY <1>1
<1>4. \A i \in 1..Len(a) : a[i] = b[i]
  BY <1>2, <1>3 DEF ByteAt
<1> QED
  BY <1>1, <1>4

\* A Hello is answered with Welcome only if its token is the server's.
LEMMA HelloStep ==
  ASSUME IInv, NEW c \in Conn, HelloRead(c)
  PROVE  IInv'
<1>1. PICK t \in Offers :
        Stay(c, [conn[c] EXCEPT !.offer = t,
                                !.pc = IF ConstantTimeEq(Token, t) THEN "welcoming"
                                       ELSE "refusing"])
  BY DEF HelloRead
<1> DEFINE s == [conn[c] EXCEPT !.offer = t,
                                !.pc = IF ConstantTimeEq(Token, t) THEN "welcoming"
                                       ELSE "refusing"]
<1>2. conn[c].pc = "hello" /\ Stay(c, s)
  BY <1>1 DEF HelloRead, Pc
<1>3. /\ s \in SessionState /\ s.pos = conn[c].pos /\ s.offer = t
      /\ s.pc = IF ConstantTimeEq(Token, t) THEN "welcoming" ELSE "refusing"
      /\ s.since = conn[c].since /\ s.frame = conn[c].frame /\ s.written = conn[c].written
  BY SessionType DEF SessionState
<1>4. ConstantTimeEq(Token, t) => t = Token
  BY ComparisonExact, ServerAssumption
<1>5. conn[c].written = 0
  BY <1>2, SessionType DEF Sound
<1> HIDE DEF s
<1>6. Sound(s)
  BY <1>2, <1>3, <1>4, <1>5, SessionType DEF Sound, News, SessionState, Live
<1>7. s.pc \in Live
  BY <1>3 DEF Live
<1> QED
  BY <1>2, <1>3, <1>6, <1>7, StayStep DEF Live

\* The remaining steps of a session that goes on.
LEMMA QuietStep ==
  ASSUME IInv, NEW c \in Conn, TlsDone(c) \/ WelcomeDone(c) \/ Heartbeat(c)
  PROVE  IInv'
<1>1. CASE TlsDone(c)
  <2> DEFINE s == [conn[c] EXCEPT !.pc = "hello"]
  <2>1. conn[c].pc = "tls" /\ Stay(c, s)
    BY <1>1 DEF TlsDone, Pc
  <2>2. /\ s \in SessionState /\ s.pos = conn[c].pos /\ s.pc = "hello" /\ s.offer = conn[c].offer
        /\ s.since = conn[c].since /\ s.frame = conn[c].frame /\ s.written = conn[c].written
    BY SessionType DEF SessionState
  <2> HIDE DEF s
  <2>3. Sound(s)
    BY <2>1, <2>2, SessionType DEF Sound, News, SessionState, Live
  <2> QED
    BY <2>1, <2>2, <2>3, StayStep DEF Live
<1>2. CASE WelcomeDone(c)
  <2> DEFINE s == [conn[c] EXCEPT !.pc = "streaming"]
  <2>1. conn[c].pc = "welcoming" /\ Stay(c, s)
    BY <1>2 DEF WelcomeDone, Pc
  <2>2. /\ s \in SessionState /\ s.pos = conn[c].pos /\ s.pc = "streaming"
        /\ s.offer = conn[c].offer
        /\ s.since = conn[c].since /\ s.frame = conn[c].frame /\ s.written = conn[c].written
    BY SessionType DEF SessionState
  <2> HIDE DEF s
  <2>3. Sound(s)
    BY <2>1, <2>2, SessionType DEF Sound, News, SessionState, Live
  <2> QED
    BY <2>1, <2>2, <2>3, StayStep DEF Live
<1>3. CASE Heartbeat(c)
  <2> DEFINE s == [conn[c] EXCEPT !.pc = "writing", !.frame = Beat]
  <2>1. conn[c].pc = "streaming" /\ Stay(c, s)
    BY <1>3 DEF Heartbeat, Pc
  <2>2. /\ s \in SessionState /\ s.pos = conn[c].pos /\ s.pc = "writing" /\ s.offer = conn[c].offer
        /\ s.since = conn[c].since /\ s.frame = 0 /\ s.written = conn[c].written
    BY SessionType DEF SessionState, Beat
  <2> HIDE DEF s
  <2>3. Sound(s)
    <3>1. /\ conn[c].since \in Nat /\ conn[c].written \in Nat /\ conn[c].frame \in Nat
          /\ done \in Nat /\ Sound(conn[c])
      BY SessionType DEF SessionState
    <3>2. ASSUME NEW i \in 1..Len(log), s.pos <= i PROVE News(s, log[i])
      <4>1. News(conn[c], log[i]) /\ log[i] \in Nat
        BY <2>1, <2>2, <3>1, <3>2, SessionType DEF Sound, Live
      <4> QED
        BY <2>2, <3>1, <4>1 DEF News
    <3> QED
      BY <2>1, <2>2, <3>1, <3>2 DEF Sound, Beat, Live
  <2> QED
    BY <2>1, <2>2, <2>3, StayStep DEF Live
<1> QED
  BY <1>1, <1>2, <1>3

-----------------------------------------------------------------------------
(* The inductive invariant.                                                *)

LEMMA InvInit == Init => IInv
<1> SUFFICES ASSUME Init PROVE IInv
  OBVIOUS
<1>1. \A c \in Conn : conn[c] = Idle("new")
  BY DEF Init
<1>2. Idle("new") \in SessionState /\ Sound(Idle("new"))
  BY DEF SessionState, Idle, Beat, Init, Sound, Live
<1>3. TypeOK
  <2>1. conn \in [Conn -> SessionState]
    BY <1>2 DEF Init
  <2>2. stalled \in [Conn -> BOOLEAN] /\ permits \in 0..MaxClients /\ taken \in 0..MaxSnapshots
        /\ hand \in 0..MaxSnapshots /\ done \in 0..MaxSnapshots
    BY ServerAssumption DEF Init, Nothing
  <2>3. log \in Seq(1..MaxSnapshots) /\ queue \in Seq(1..MaxSnapshots)
    BY DEF Init
  <2>4. accepting = TRUE /\ relaying = TRUE /\ collectorOpen = TRUE /\ cancelled = FALSE
    BY DEF Init
  <2> QED
    BY <2>1, <2>2, <2>3, <2>4 DEF TypeOK
<1>4. Sessions = {}
  <2>1. Idle("new").pc = "new"
    BY DEF Idle
  <2> QED
    BY <1>1, <2>1 DEF Sessions, InSession, Pc
<1>5. PermitsAccounted
  <2>1. Cardinality(Sessions) = 0 /\ permits = MaxClients
    BY <1>4, FS_EmptySet DEF Init
  <2> QED
    BY <2>1, ServerAssumption DEF PermitsAccounted, Sessions
<1>6. FeedOrdered
  BY DEF Init, FeedOrdered, Nothing
<1> QED
  BY <1>1, <1>2, <1>3, <1>5, <1>6 DEF IInv

\* Steps that touch neither the log, the permits nor a connection.
LEMMA ElsewhereStep ==
  ASSUME IInv, UNCHANGED <<taken, queue, hand, done, log, permits, conn>>, accepting' \in BOOLEAN,
         relaying' \in BOOLEAN, collectorOpen' \in BOOLEAN, cancelled' \in BOOLEAN,
         stalled' \in [Conn -> BOOLEAN]
  PROVE  IInv'
<1>1. TypeOK'
  BY DEF IInv, TypeOK
<1>2. PermitsAccounted' /\ FeedOrdered'
  BY DEF IInv, PermitsAccounted, InSession, Pc, FeedOrdered
<1>3. \A c \in Conn : Sound(conn[c])'
  BY DEF IInv, Sound, News
<1> QED
  BY <1>1, <1>2, <1>3 DEF IInv

LEMMA InvStep ==
  ASSUME IInv, [Next]_vars
  PROVE  IInv'
<1>0. /\ accepting \in BOOLEAN /\ relaying \in BOOLEAN /\ collectorOpen \in BOOLEAN
      /\ cancelled \in BOOLEAN /\ stalled \in [Conn -> BOOLEAN]
  BY DEF IInv, TypeOK
<1>1. CASE UNCHANGED vars
  BY <1>0, <1>1, ElsewhereStep DEF vars
<1>2. CASE CollectorSends \/ Relay
  BY <1>2, CollectorStep, ReceiveStep, SendStep, StopStep DEF Relay
<1>3. CASE CollectorEnds \/ AcceptFails \/ StopAccepting \/ Cancel
  BY <1>0, <1>3, ElsewhereStep
  DEF CollectorEnds, AcceptFails, StopAccepting, Cancel, feed
<1>4. ASSUME NEW c \in Conn, RateLimited(c) \/ NoPermit(c) PROVE IInv'
  BY <1>4, DropStep DEF RateLimited, NoPermit
<1>5. ASSUME NEW c \in Conn, Accept(c) PROVE IInv'
  BY <1>5, AcceptStep
<1>6. ASSUME NEW c \in Conn, TlsDone(c) \/ HelloRead(c) \/ WelcomeDone(c) \/ Heartbeat(c)
      PROVE  IInv'
  BY <1>6, HelloStep, QuietStep
<1>7. ASSUME NEW c \in Conn,
             \/ TlsFails(c) \/ HelloFails(c) \/ RefusalDone(c) \/ RecvClosed(c)
             \/ SessionCancelled(c) \/ WriteFails(c)
      PROVE  IInv'
  BY <1>7, EndStep
  DEF TlsFails, HelloFails, RefusalDone, RecvClosed, SessionCancelled, WriteFails, Writing,
      InSession
<1>8. ASSUME NEW c \in Conn, Lagged(c) \/ Recv(c) \/ WriteDone(c) PROVE IInv'
  BY <1>8, LaggedStep, RecvStep, WriteDoneStep
<1>9. ASSUME NEW c \in Conn, PeerStalls(c) PROVE IInv'
  BY <1>0, <1>9, ElsewhereStep DEF PeerStalls, feed
<1> QED
  BY <1>1, <1>2, <1>3, <1>4, <1>5, <1>6, <1>7, <1>8, <1>9 DEF Next, Handshake, Session

LEMMA Invariance == Spec => []IInv
BY InvInit, InvStep, PTL DEF Spec

\* The server's state keeps its shape; that the number of free permits stays
\* between 0 and max_clients needs every path of a session to return its own.
THEOREM TypeCorrect == Spec => []TypeOK
<1>1. IInv => TypeOK
  BY DEF IInv
<1> QED
  BY <1>1, Invariance, PTL

\* For any number of connections, on every path through accept, handshake,
\* stream and error, permits are neither leaked nor returned twice (server.rs:
\* the permit is taken before TLS and dropped with the task).
THEOREM PermitsBalance == Spec => []PermitsAccounted
<1>1. IInv => PermitsAccounted
  BY DEF IInv
<1> QED
  BY <1>1, Invariance, PTL

\* Nothing is streamed, and no Welcome written, to a peer whose Hello did not
\* carry the token: for tokens and Hellos of any bytes and lengths, a comparison
\* that pads with zeros lets no other sequence of bytes through.
THEOREM StreamsAuthorised == Spec => []OnlyAuthorised
<1>1. IInv => OnlyAuthorised
  BY DEF IInv, OnlyAuthorised, Sound, Pc
<1> QED
  BY <1>1, Invariance, PTL

\* A client is sent nothing the relay was done with when the client was accepted,
\* although receiving and broadcasting are two steps, and the receiver was
\* subscribed before the handshake, between any two of them, and may have lagged
\* since.  What was on its way then, in the channel or in the relay's hands, it
\* may be sent.
THEOREM StreamsFresh == Spec => []NothingStale
<1>1. IInv => NothingStale
  <2> SUFFICES ASSUME IInv, NEW c \in Conn, conn[c].written > 0
               PROVE  conn[c].written > conn[c].since
    BY DEF NothingStale
  <2> QED
    BY SessionType DEF Sound, SessionState
<1> QED
  BY <1>1, Invariance, PTL

\* A client is sent snapshots in the order they were taken and none twice, for
\* any lag and any capacity of the broadcast channel.
THEOREM StreamsInOrder == Spec => InOrder
<1> DEFINE Advances(c) == (Pc(c) = "writing" /\ Pc(c)' = "streaming" /\ conn[c].frame # Beat)
                            => conn[c].written < conn'[c].written
<1>1. ASSUME IInv, [Next]_vars, NEW c \in Conn PROVE Advances(c)
  <2> SUFFICES ASSUME conn[c].pc = "writing", conn'[c].pc = "streaming", conn[c].frame # Beat
               PROVE  conn[c].written < conn'[c].written
    BY DEF Pc
  <2>1. conn[c] \in SessionState /\ conn[c].written < conn[c].frame
    BY <1>1, SessionType DEF Sound
  <2>2. ASSUME NEW d \in Conn, NEW s, conn' = [conn EXCEPT ![d] = s], d # c PROVE FALSE
    BY <1>1, <2>2 DEF IInv, TypeOK
  <2>3. ASSUME UNCHANGED conn PROVE FALSE
    BY <2>3
  <2>4. PICK d \in Conn : \/ RateLimited(d) \/ NoPermit(d) \/ Accept(d)
                          \/ Handshake(d) \/ Session(d)
    BY <1>1, <2>3 DEF Next, vars, Relay, CollectorSends, RelayReceive, RelaySend, RelayStops,
                CollectorEnds, AcceptFails, StopAccepting, Cancel, PeerStalls
  <2>5. d = c
    BY <2>2, <2>4
    DEF RateLimited, NoPermit, DropTcp, Accept, Handshake, TlsDone, TlsFails, HelloRead, HelloFails,
        WelcomeDone, RefusalDone, Session, Lagged, Recv, RecvClosed, Heartbeat, SessionCancelled,
        WriteDone, WriteFails, Stay, End
  <2>6. WriteDone(c) \/ WriteFails(c)
    BY <2>4, <2>5
    DEF RateLimited, NoPermit, Accept, Handshake, TlsDone, TlsFails, HelloRead, HelloFails,
        WelcomeDone, RefusalDone, Session, Lagged, Recv, RecvClosed, Heartbeat, SessionCancelled, Pc
  <2>7. CASE WriteFails(c)
    BY <1>1, <2>7 DEF WriteFails, End, Idle, IInv, TypeOK
  <2>8. CASE WriteDone(c)
    <3>1. conn'[c].written = conn[c].frame
      BY <1>1, <2>1, <2>8 DEF WriteDone, Stay, IInv, TypeOK, SessionState
    <3> QED
      BY <2>1, <3>1
  <2> QED
    BY <2>6, <2>7, <2>8
<1>2. IInv /\ [Next]_vars => [\A c \in Conn : Advances(c)]_vars
  BY <1>1
<1> QED
  BY <1>2, Invariance, PTL DEF Spec, InOrder
=============================================================================

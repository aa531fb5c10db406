------------------------------- MODULE Server -------------------------------
(***************************************************************************)
(* crates/muxtop-server/src/server.rs and client.rs: the accept loop, the  *)
(* relay task that broadcasts the collector's snapshots, and one detached  *)
(* task per client that shakes hands and streams.                          *)
(*                                                                         *)
(* A connection is one TCP stream, used once.  A snapshot is its number:   *)
(* it waits in the collector's mpsc channel, passes through the relay's    *)
(* hands and enters the broadcast channel, the log of the numbers sent, of *)
(* which a receiver can still read the last BroadcastCap.  A token is its  *)
(* bytes.  Peers, the network and the collector are the environment.       *)
(***************************************************************************)
EXTENDS Integers, Sequences, FiniteSets

CONSTANTS Conn,          \* connections that may arrive
          MaxClients,    \* permits of the semaphore
          Token,         \* the server's token
          Offers,        \* what Hellos may carry; one without a token counts as empty
          QueueCap,      \* capacity of the collector's mpsc channel (4)
          BroadcastCap,  \* capacity of the broadcast channel (16)
          MaxSnapshots   \* bound: snapshots the collector takes

ASSUME ServerAssumption ==
  /\ IsFiniteSet(Conn)
  /\ MaxClients \in Nat
  /\ Token \in Seq(Nat)
  /\ Offers \subseteq Seq(Nat)
  /\ QueueCap \in Nat \ {0}
  /\ BroadcastCap \in Nat \ {0}
  /\ MaxSnapshots \in Nat

VARIABLES accepting,      \* the accept loop runs, and holds broadcast_tx
          relaying,       \* the relay task runs, and holds relay_tx
          collectorOpen,  \* the collector holds the sender of its mpsc channel
          taken,          \* snapshots the collector has taken
          queue,          \* the mpsc channel
          hand,           \* the snapshot the relay holds encoded, or none
          done,           \* the last snapshot the relay was done with
          log,            \* snapshots sent to the broadcast channel
          permits,        \* semaphore permits left
          conn,           \* each connection's task
          stalled,        \* environment: the peer has stopped reading
          cancelled       \* the CancellationToken

vars == <<accepting, relaying, collectorOpen, taken, queue, hand, done, log, permits, conn,
          stalled, cancelled>>
feed == <<relaying, collectorOpen, taken, queue, hand, done, log>>

\* A frame being written: a snapshot's number, or 0 for a heartbeat.
Beat == 0
Nothing == 0

\* A connection outside its session.
Idle(pc) == [pc |-> pc, offer |-> <<>>, pos |-> 0, since |-> 0, frame |-> Beat, written |-> 0]

Init ==
  /\ accepting = TRUE /\ relaying = TRUE /\ collectorOpen = TRUE
  /\ taken = 0 /\ queue = <<>> /\ hand = Nothing /\ done = 0 /\ log = <<>>
  /\ permits = MaxClients
  /\ conn = [c \in Conn |-> Idle("new")]
  /\ stalled = [c \in Conn |-> FALSE]
  /\ cancelled = FALSE

Pc(c) == conn[c].pc

\* A task holds its permit and its broadcast receiver from accept to its end.
InSession(c) ==
  Pc(c) \in {"tls", "hello", "welcoming", "refusing", "streaming", "writing"}

\* The task is in a write_frame, which has no timeout and does not look at the
\* token of cancellation: it waits for as long as the peer does not read.
Writing(c) == Pc(c) \in {"welcoming", "refusing", "writing"}

-----------------------------------------------------------------------------
(* The collector's channel and the relay task.                             *)

\* The collector offers a snapshot without waiting: a full channel drops it.
CollectorSends ==
  /\ collectorOpen /\ relaying
  /\ taken < MaxSnapshots
  /\ taken' = taken + 1
  /\ queue' = IF Len(queue) < QueueCap THEN Append(queue, taken + 1) ELSE queue
  /\ UNCHANGED <<accepting, relaying, collectorOpen, hand, done, log, permits, conn, stalled,
                 cancelled>>

\* The relay receives a snapshot and counts the receivers.  It drops the snapshot
\* when there is none, or when it does not encode; otherwise it is yet to be sent.
RelayReceive ==
  /\ relaying /\ hand = Nothing
  /\ queue # <<>>
  /\ queue' = Tail(queue)
  /\ \/ (\E c \in Conn : InSession(c)) /\ hand' = Head(queue) /\ UNCHANGED done
     \/ done' = Head(queue) /\ UNCHANGED hand
  /\ UNCHANGED <<accepting, relaying, collectorOpen, taken, log, permits, conn, stalled,
                 cancelled>>

\* It is broadcast to whoever has subscribed by now.
RelaySend ==
  /\ hand # Nothing
  /\ log' = Append(log, hand)
  /\ hand' = Nothing /\ done' = hand
  /\ UNCHANGED <<accepting, relaying, collectorOpen, taken, queue, permits, conn, stalled,
                 cancelled>>

\* The collector is gone and its channel drained, or the server shuts down.
RelayStops ==
  /\ relaying /\ hand = Nothing
  /\ (~collectorOpen /\ queue = <<>>) \/ cancelled
  /\ relaying' = FALSE /\ queue' = <<>>
  /\ UNCHANGED <<accepting, collectorOpen, taken, hand, done, log, permits, conn, stalled,
                 cancelled>>

CollectorEnds ==
  /\ collectorOpen
  /\ collectorOpen' = FALSE
  /\ UNCHANGED <<accepting, relaying, taken, queue, hand, done, log, permits, conn, stalled,
                 cancelled>>

-----------------------------------------------------------------------------
(* The accept loop.                                                        *)

DropTcp(c) ==
  /\ conn' = [conn EXCEPT ![c] = Idle("closed")]
  /\ UNCHANGED <<accepting, feed, permits, stalled, cancelled>>

\* The rate limiter (module RateLimiter) turns the source away, for reasons of
\* its own.
RateLimited(c) == accepting /\ Pc(c) = "new" /\ DropTcp(c)

\* try_acquire_owned finds no permit.
NoPermit(c) == accepting /\ Pc(c) = "new" /\ permits = 0 /\ DropTcp(c)

\* Mutant: the receiver replays what the channel still holds.
ReplayFrom == IF Len(log) > BroadcastCap THEN Len(log) - BroadcastCap + 1 ELSE 1

\* subscribe(): the receiver starts at the next snapshot to be sent.
SubscribeAt == Len(log) + 1

\* A permit is taken and the broadcast subscribed before the TLS handshake.
Accept(c) ==
  /\ accepting /\ Pc(c) = "new"
  /\ permits > 0
  /\ permits' = permits - 1
  /\ conn' = [conn EXCEPT ![c] = [Idle("tls") EXCEPT !.pos = SubscribeAt, !.since = done]]
  /\ UNCHANGED <<accepting, feed, stalled, cancelled>>

\* listener.accept() fails and run returns the error, or the token fires.
AcceptFails ==
  /\ accepting
  /\ accepting' = FALSE
  /\ UNCHANGED <<feed, permits, conn, stalled, cancelled>>

StopAccepting ==
  /\ accepting /\ cancelled
  /\ accepting' = FALSE
  /\ UNCHANGED <<feed, permits, conn, stalled, cancelled>>

-----------------------------------------------------------------------------
(* A client's task.  Until it streams it does not look at the token of     *)
(* cancellation.                                                           *)

\* Mutant: the error path forgets the permit.
EndLeaking(c) ==
  /\ conn' = [conn EXCEPT ![c] = Idle("closed")]
  /\ UNCHANGED <<accepting, feed, permits, stalled, cancelled>>

\* The task returns: its permit, its receiver and the stream are dropped.
End(c) ==
  /\ conn' = [conn EXCEPT ![c] = Idle("closed")]
  /\ permits' = permits + 1
  /\ stalled' = [stalled EXCEPT ![c] = FALSE]
  /\ UNCHANGED <<accepting, feed, cancelled>>

\* A step of the task that changes nothing but its own state.
Stay(c, state) ==
  /\ conn' = [conn EXCEPT ![c] = state]
  /\ UNCHANGED <<accepting, feed, permits, stalled, cancelled>>

TlsDone(c) == Pc(c) = "tls" /\ Stay(c, [conn[c] EXCEPT !.pc = "hello"])

\* The handshake fails, or TLS_HANDSHAKE_TIMEOUT passes.
TlsFails(c) == Pc(c) = "tls" /\ End(c)

\* Byte i of a token, 0 past its end.
ByteAt(s, i) == IF i \in DOMAIN s THEN s[i] ELSE 0

\* The differences of all bytes, or-ed, are 0.
NoByteDiffers(a, b) ==
  \A i \in 1..(IF Len(a) >= Len(b) THEN Len(a) ELSE Len(b)) : ByteAt(a, i) = ByteAt(b, i)

\* Mutant: the lengths are not compared.
PaddedEq(a, b) == NoByteDiffers(a, b)

ConstantTimeEq(a, b) == NoByteDiffers(a, b) /\ Len(a) = Len(b)

\* A Hello arrives.  Its token is compared with the server's, and Welcome or
\* Error 401 is about to be written.
HelloRead(c) ==
  /\ Pc(c) = "hello"
  /\ \E t \in Offers :
       Stay(c, [conn[c] EXCEPT !.offer = t,
                               !.pc = IF ConstantTimeEq(Token, t) THEN "welcoming"
                                      ELSE "refusing"])

\* Mutant: a Hello is waited for without a timeout.
HelloAwaited(c) == Pc(c) = "hello" /\ FALSE /\ End(c)

\* HANDSHAKE_TIMEOUT, EOF, an oversized or malformed frame, another message.
HelloFails(c) == Pc(c) = "hello" /\ End(c)

\* Welcome is written.
WelcomeDone(c) ==
  /\ Pc(c) = "welcoming"
  /\ ~stalled[c]
  /\ Stay(c, [conn[c] EXCEPT !.pc = "streaming"])

\* Error 401 is written.
RefusalDone(c) == Pc(c) = "refusing" /\ ~stalled[c] /\ End(c)

\* The oldest snapshot the channel still holds.
Oldest == IF Len(log) > BroadcastCap THEN Len(log) - BroadcastCap + 1 ELSE 1

\* Mutant: a lagging receiver restarts from the beginning of the log.
LagToStart(c) ==
  /\ Pc(c) = "streaming"
  /\ conn[c].pos < Oldest
  /\ Stay(c, [conn[c] EXCEPT !.pos = 1])

\* RecvError::Lagged: the receiver jumps to the oldest snapshot held.
Lagged(c) ==
  /\ Pc(c) = "streaming"
  /\ conn[c].pos < Oldest
  /\ Stay(c, [conn[c] EXCEPT !.pos = Oldest])

Recv(c) ==
  /\ Pc(c) = "streaming"
  /\ conn[c].pos \in Oldest..Len(log)
  /\ Stay(c, [conn[c] EXCEPT !.pc = "writing", !.frame = log[conn[c].pos], !.pos = @ + 1])

\* RecvError::Closed: every sender is gone and the receiver has drained.
RecvClosed(c) ==
  /\ Pc(c) = "streaming"
  /\ conn[c].pos > Len(log)
  /\ ~accepting /\ ~relaying
  /\ End(c)

\* Nothing was sent for HEARTBEAT_INTERVAL.
Heartbeat(c) == Pc(c) = "streaming" /\ Stay(c, [conn[c] EXCEPT !.pc = "writing", !.frame = Beat])

SessionCancelled(c) == Pc(c) = "streaming" /\ cancelled /\ End(c)

\* The frame is written.
WriteDone(c) ==
  /\ Pc(c) = "writing"
  /\ ~stalled[c]
  /\ Stay(c, [conn[c] EXCEPT !.pc = "streaming", !.frame = Beat,
                             !.written = IF conn[c].frame = Beat THEN @ ELSE conn[c].frame])

\* The peer is gone; the server never reads, so a write is what finds out.
WriteFails(c) == Writing(c) /\ End(c)

-----------------------------------------------------------------------------
(* The outside.                                                            *)

\* A peer stops reading what it is sent, or starts again.
PeerStalls(c) ==
  /\ InSession(c) /\ Pc(c) \notin {"tls", "hello"}
  /\ stalled' = [stalled EXCEPT ![c] = ~@]
  /\ UNCHANGED <<accepting, feed, permits, conn, cancelled>>

\* SIGINT.
Cancel ==
  /\ ~cancelled
  /\ cancelled' = TRUE
  /\ UNCHANGED <<accepting, feed, permits, conn, stalled>>

-----------------------------------------------------------------------------

Relay == RelayReceive \/ RelaySend \/ RelayStops

Handshake(c) ==
  \/ TlsDone(c) \/ TlsFails(c) \/ HelloRead(c) \/ HelloFails(c)
  \/ WelcomeDone(c) \/ RefusalDone(c)

Session(c) ==
  \/ Lagged(c) \/ Recv(c) \/ RecvClosed(c) \/ Heartbeat(c) \/ SessionCancelled(c)
  \/ WriteDone(c) \/ WriteFails(c)

Next ==
  \/ CollectorSends \/ CollectorEnds \/ Relay \/ AcceptFails \/ StopAccepting \/ Cancel
  \/ \E c \in Conn : \/ RateLimited(c) \/ NoPermit(c) \/ Accept(c)
                     \/ Handshake(c) \/ Session(c) \/ PeerStalls(c)

Spec == Init /\ [][Next]_vars

\* Tasks that can run are polled.  A handshake that does nothing fails: TLS and
\* the wait for Hello have timeouts.  A write has none: it completes while its
\* peer reads.  select! picks at random among its ready arms, so an arm that is
\* ready again and again is taken.  Nothing obliges peers to connect or read,
\* the collector to send, nor anyone to cancel.
Fairness ==
  /\ WF_vars(RelaySend) /\ WF_vars(RelayStops) /\ WF_vars(StopAccepting)
  /\ \A c \in Conn : /\ WF_vars(TlsFails(c)) /\ WF_vars(HelloFails(c))
                     /\ WF_vars(WelcomeDone(c)) /\ WF_vars(RefusalDone(c))
                     /\ SF_vars(Lagged(c)) /\ SF_vars(Recv(c))
                     /\ SF_vars(RecvClosed(c)) /\ SF_vars(SessionCancelled(c))
                     /\ WF_vars(WriteDone(c))

FairSpec == Spec /\ Fairness

-----------------------------------------------------------------------------

SessionState ==
  [pc : {"new", "tls", "hello", "welcoming", "refusing", "streaming", "writing", "closed"},
   offer : {<<>>} \cup Offers, pos : Nat, since : Nat, frame : Nat, written : Nat]

\* Type invariant.
TypeOK ==
  /\ accepting \in BOOLEAN /\ relaying \in BOOLEAN /\ collectorOpen \in BOOLEAN
  /\ taken \in 0..MaxSnapshots
  /\ queue \in Seq(1..MaxSnapshots)
  /\ hand \in 0..MaxSnapshots /\ done \in 0..MaxSnapshots
  /\ log \in Seq(1..MaxSnapshots)
  /\ permits \in 0..MaxClients
  /\ conn \in [Conn -> SessionState]
  /\ stalled \in [Conn -> BOOLEAN]
  /\ cancelled \in BOOLEAN

\* Every permit is either free or held by exactly one live task, on every path
\* through the handshake, the stream and the errors: none leaks, none is
\* returned twice, and no more than max_clients sessions exist.
PermitsAccounted == permits + Cardinality({c \in Conn : InSession(c)}) = MaxClients

\* No Welcome, and no snapshot, goes to a peer whose Hello carried anything but
\* the server's token to the last byte, although the comparison pads the shorter
\* of the two with zeros (client.rs, constant_time_eq).
OnlyAuthorised ==
  \A c \in Conn : (Pc(c) \in {"welcoming", "streaming", "writing"} \/ conn[c].written > 0)
                    => conn[c].offer = Token

\* A client is sent snapshots in the order they were taken and none twice,
\* however far it lags and whatever the channel overwrites.
InOrder ==
  [][\A c \in Conn : (Pc(c) = "writing" /\ Pc(c)' = "streaming" /\ conn[c].frame # Beat)
                        => conn[c].written < conn'[c].written]_vars

\* A client never sees a snapshot the relay was done with when the client was
\* accepted, broadcast or dropped: its receiver replays nothing.  It may see
\* some that are older than its connection, as snapshots wait in the
\* collector's channel (QueueCap of them) and one in the relay's hands.
NothingStale == \A c \in Conn : conn[c].written > 0 => conn[c].written > conn[c].since

\* A connection sits in the handshake, holding a permit, for ever only if its
\* peer stops reading while Welcome or Error 401 is written, for which the code
\* has no timeout; TLS and the wait for Hello do end.
HandshakeEnds ==
  \A c \in Conn : Pc(c) \in {"tls", "hello", "welcoming", "refusing"}
                    ~> \/ Pc(c) \in {"streaming", "closed"}
                       \/ Pc(c) \in {"welcoming", "refusing"} /\ stalled[c]

\* After SIGINT every session ends, unless its peer has stopped reading.
ShutdownEnds == \A c \in Conn : (cancelled /\ InSession(c)) ~> (Pc(c) = "closed" \/ stalled[c])

\* A client that keeps reading catches up with what was broadcast.
CatchesUp ==
  \A c \in Conn : (InSession(c) /\ conn[c].pos <= Len(log))
                    ~> (conn[c].pos > Len(log) \/ ~InSession(c) \/ stalled[c])
=============================================================================

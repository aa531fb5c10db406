-------------------------- MODULE RemoteCollector --------------------------
(***************************************************************************)
(* crates/muxtop-proto/src/remote.rs: the client side of remote            *)
(* monitoring.  One task connects, shakes hands, streams snapshots into    *)
(* the TUI's channel, and reconnects with exponential backoff.             *)
(*                                                                         *)
(* The server and the network are the environment: each answer they can    *)
(* give at a point where the task waits is a disjunct of the step that     *)
(* receives it.  Durations are in seconds.                                 *)
(***************************************************************************)
EXTENDS Integers

CONSTANTS InitialBackoff,  \* INITIAL_BACKOFF
          MaxBackoff,      \* MAX_BACKOFF
          ChannelCap       \* capacity of the TUI's snapshot channel

ASSUME RemoteAssumption ==
  /\ InitialBackoff \in Nat \ {0}
  /\ MaxBackoff \in Nat /\ InitialBackoff <= MaxBackoff
  /\ ChannelCap \in Nat \ {0}

VARIABLES pc,          \* where the task waits
          backoff,     \* the delay before the next attempt
          error,       \* the RemoteError that ended the last attempt, or "none"
          queued,      \* snapshots waiting in the channel
          rxOpen,      \* the TUI still holds the receiver
          cancelled,   \* the CancellationToken
          welcomed     \* history: the last attempt got as far as streaming

vars == <<pc, backoff, error, queued, rxOpen, cancelled, welcomed>>
tui  == <<queued, rxOpen, cancelled>>

Init ==
  /\ pc = "top"
  /\ backoff = InitialBackoff
  /\ error = "none"
  /\ queued = 0 /\ rxOpen = TRUE /\ cancelled = FALSE
  /\ welcomed = FALSE

-----------------------------------------------------------------------------
(* connect_and_stream.  An attempt ends in Finish (Ok) or Fail (Err).      *)

Finish ==
  /\ pc' = "done"
  /\ UNCHANGED <<backoff, error, tui, welcomed>>

\* Err: Disconnected is reported and the task goes to sleep.
Fail(e) ==
  /\ pc' = "sleeping"
  /\ error' = e
  /\ UNCHANGED <<backoff, tui, welcomed>>

Goto(here, there) ==
  /\ pc = here
  /\ pc' = there
  /\ UNCHANGED <<backoff, error, tui, welcomed>>

\* The top of the loop: cancelled ends it, otherwise an attempt starts.
LoopTop ==
  /\ pc = "top"
  /\ pc' = IF cancelled THEN "done" ELSE "connecting"
  /\ welcomed' = FALSE
  /\ UNCHANGED <<backoff, error, tui>>

\* TcpStream::connect and the TLS handshake are raced against cancel.
Connect ==
  \/ Goto("connecting", "tls")
  \/ pc = "connecting" /\ Fail("io")
  \/ pc = "connecting" /\ cancelled /\ Finish

TlsHandshake ==
  \/ Goto("tls", "hello")
  \/ pc = "tls" /\ Fail("protocol")
  \/ pc = "tls" /\ cancelled /\ Finish

\* Hello is written: neither raced against cancel nor given a timeout, so it waits
\* for as long as the server does not read.
SendHello == Goto("hello", "welcome")

HelloFails == pc \in {"hello", "blocked"} /\ Fail("protocol")

ServerStalls == Goto("hello", "blocked")
ServerReads  == Goto("blocked", "hello")

\* Reading Welcome is not raced against cancel either, but has a timeout.
ReadWelcome ==
  \/ /\ pc = "welcome"
     /\ pc' = "streaming" /\ welcomed' = TRUE
     /\ UNCHANGED <<backoff, error, tui>>
  \/ /\ pc = "welcome"
     /\ \E e \in {"handshake_timeout", "protocol", "connection_closed", "server_error"} : Fail(e)

\* A Snapshot is offered to the TUI with try_send: dropped when the channel is
\* full.
OfferSnapshot ==
  /\ queued' = IF queued < ChannelCap THEN queued + 1 ELSE queued
  /\ UNCHANGED <<pc, backoff, error, rxOpen, cancelled, welcomed>>

ReadSnapshot ==
  /\ pc = "streaming"
  /\ IF rxOpen THEN OfferSnapshot ELSE Finish

\* A Heartbeat, or a message the protocol does not expect here, changes nothing.
ReadOther ==
  /\ pc = "streaming"
  /\ UNCHANGED vars

\* The stream ends: EOF, a read or decode error, or an Error message.
StreamEnds ==
  /\ pc = "streaming"
  /\ \E e \in {"connection_closed", "protocol", "server_error"} : Fail(e)

StreamCancelled ==
  /\ pc = "streaming"
  /\ cancelled
  /\ Finish

-----------------------------------------------------------------------------
(* run: the sleep between two attempts, and the next delay.                *)

\* The delay starts over after an EOF, and doubles up to the cap after any other
\* error, wherever in the attempt it came.
NextDelay(e) ==
  IF e = "connection_closed" THEN InitialBackoff
  ELSE IF backoff * 2 <= MaxBackoff THEN backoff * 2 ELSE MaxBackoff

\* The delay in force is slept before the next one is computed.
WakeUp ==
  /\ pc = "sleeping"
  /\ pc' = "top"
  /\ backoff' = NextDelay(error)
  /\ UNCHANGED <<error, welcomed, tui>>

CancelSleep ==
  /\ pc = "sleeping"
  /\ cancelled
  /\ Finish

-----------------------------------------------------------------------------
(* The TUI.                                                                *)

Consume ==
  /\ rxOpen /\ queued > 0
  /\ queued' = queued - 1
  /\ UNCHANGED <<pc, backoff, error, rxOpen, cancelled, welcomed>>

DropReceiver ==
  /\ rxOpen
  /\ rxOpen' = FALSE /\ queued' = 0
  /\ UNCHANGED <<pc, backoff, error, cancelled, welcomed>>

Cancel ==
  /\ ~cancelled
  /\ cancelled' = TRUE
  /\ UNCHANGED <<pc, backoff, error, queued, rxOpen, welcomed>>

-----------------------------------------------------------------------------

Attempt == Connect \/ TlsHandshake \/ SendHello \/ HelloFails \/ ReadWelcome

Stream == ReadSnapshot \/ ReadOther \/ StreamEnds \/ StreamCancelled

Next ==
  \/ LoopTop \/ Attempt \/ Stream \/ WakeUp \/ CancelSleep
  \/ ServerStalls \/ ServerReads \/ Consume \/ DropReceiver \/ Cancel

Spec == Init /\ [][Next]_vars

\* The task is polled whenever it can progress.  Connecting, the TLS handshake
\* and the wait for Welcome end: the kernel, and the two timeouts, see to it.
\* Hello is written if the server reads, again and again if need be.  A stream
\* need never end by itself: the client has no read timeout.
Fairness ==
  /\ WF_vars(LoopTop)
  /\ WF_vars(Connect) /\ WF_vars(TlsHandshake) /\ SF_vars(SendHello) /\ WF_vars(ReadWelcome)
  /\ WF_vars(StreamCancelled)
  /\ WF_vars(WakeUp \/ CancelSleep)

FairSpec == Spec /\ Fairness

-----------------------------------------------------------------------------

\* "Only grow backoff for consecutive failures", "Reset backoff on successful
\* connection": the failure that ends a session is the first of its row, so the
\* delay has grown once at most, from INITIAL_BACKOFF (run, connect_and_stream).
BackoffResets == pc = "top" /\ welcomed => backoff <= 2 * InitialBackoff

=============================================================================

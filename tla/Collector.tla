----------------------------- MODULE Collector -----------------------------
(***************************************************************************)
(* crates/muxtop-core/src/collector.rs: the collector.  A system loop      *)
(* emits a snapshot per tick into a bounded channel; one loop per attached *)
(* engine polls it and leaves the outcome in a shared slot the system loop *)
(* reads, each slot under a lock of its own.                               *)
(*                                                                         *)
(* The three engine loops have one shape, so the set of engines and the    *)
(* order in which the system loop reads and later joins them are           *)
(* parameters.  A snapshot is the function from engines to what their slot *)
(* said; the system figures themselves carry no control.  Two of the       *)
(* engines are not like the others: the cluster engine answers from a      *)
(* cache, and a GPU driver's call has no timeout.                          *)
(***************************************************************************)
EXTENDS Integers, Sequences, SequencesExt, FiniteSets

CONSTANTS Order,      \* the engines, in the order they are read and joined
          Seeded,     \* engines whose slot is seeded when they are not attached
          Cached,     \* engines that answer from a cache, whatever their source does
          Untimed,    \* engines whose calls have no timeout
          TxCapacity  \* capacity of the snapshot channel

Engines == Range(Order)

ASSUME CollectorAssumption ==
  /\ Order \in Seq(STRING) /\ Order # <<>>
  /\ Seeded \subseteq Engines /\ Cached \subseteq Engines /\ Untimed \subseteq Engines
  /\ TxCapacity \in Nat \ {0}

Nothing     == "None"         \* the Option is None
Unavailable == "unavailable"  \* Some(unavailable())
Live        == "live"         \* Some(snapshot)

VARIABLES attached,   \* engines the collector was built with
          slot,       \* last_containers, last_kube, last_gpu
          loop,       \* where each engine's loop is
          up,         \* environment: what each engine has to answer, figures or a failure
          system,     \* the system loop: "waiting", "reading", "joining", "done"
          draft,      \* the slots read so far in this tick
          at,         \* index in Order of the next slot to read, or loop to join
          channel,    \* the mpsc channel
          txOpen,     \* the receiver is alive
          received,   \* the last snapshot the consumer took
          stopping   \* the shared CancellationToken

collectorVars == <<attached, slot, loop, up, system, draft, at, channel, txOpen, received, stopping>>

\* The slots before the first poll.  An engine that is not there is reported
\* at once for kube and GPU, so that the tab does not wait for ever.
InitialSlot(e, att) == IF e \in att \/ e \notin Seeded THEN Nothing ELSE Unavailable

CollectorInit ==
  /\ attached \in SUBSET Engines
  /\ slot = [e \in Engines |-> InitialSlot(e, attached)]
  /\ loop = [e \in Engines |-> IF e \in attached THEN "waiting" ELSE "stopped"]
  /\ up \in {u \in [Engines -> BOOLEAN] : \A e \in Engines \ attached : ~u[e]}
  /\ system = "waiting"
  /\ draft = [e \in Engines |-> Nothing]
  /\ at = 1
  /\ channel = <<>>
  /\ txOpen = TRUE
  /\ received = [e \in Engines |-> Nothing]
  /\ stopping = FALSE

-----------------------------------------------------------------------------
(* The engine loops: spawn_container_loop, spawn_cluster_loop,             *)
(* spawn_gpu_loop.                                                         *)

\* A tick: the engine is asked, and cancellation is not looked at meanwhile.
StartPoll(e) ==
  /\ loop[e] = "waiting"
  /\ loop' = [loop EXCEPT ![e] = "polling"]
  /\ UNCHANGED <<attached, slot, up, system, draft, at, channel, txOpen, received, stopping>>

\* Mutant: a failed poll keeps the last good sample.
KeepOnFailure(old, ok) == IF ok THEN Live ELSE old

\* A failed poll publishes unavailable() over whatever was there.
PollOutcome(old, ok) == IF ok THEN Live ELSE Unavailable

FinishPoll(e) ==
  /\ loop[e] = "polling"
  /\ slot' = [slot EXCEPT ![e] = PollOutcome(@, up[e])]
  /\ loop' = [loop EXCEPT ![e] = "waiting"]
  /\ UNCHANGED <<attached, up, system, draft, at, channel, txOpen, received, stopping>>

\* The call sits in a driver (spawn_blocking, awaited without a timeout) until the
\* driver answers, if it ever does.
CallHangs(e) ==
  /\ e \in Untimed /\ loop[e] = "polling"
  /\ loop' = [loop EXCEPT ![e] = "hung"]
  /\ UNCHANGED <<attached, slot, up, system, draft, at, channel, txOpen, received, stopping>>

CallReturns(e) ==
  /\ loop[e] = "hung"
  /\ loop' = [loop EXCEPT ![e] = "polling"]
  /\ UNCHANGED <<attached, slot, up, system, draft, at, channel, txOpen, received, stopping>>

\* Mutant: only the first loop listens to the token.
StopFirstLoopOnly(e) ==
  /\ stopping
  /\ e = Order[1]
  /\ loop[e] = "waiting"
  /\ loop' = [loop EXCEPT ![e] = "stopped"]
  /\ UNCHANGED <<attached, slot, up, system, draft, at, channel, txOpen, received, stopping>>

StopLoop(e) ==
  /\ stopping
  /\ loop[e] = "waiting"
  /\ loop' = [loop EXCEPT ![e] = "stopped"]
  /\ UNCHANGED <<attached, slot, up, system, draft, at, channel, txOpen, received, stopping>>

-----------------------------------------------------------------------------
(* The system loop: Collector::run.                                        *)

Tick ==
  /\ system = "waiting"
  /\ system' = "reading"
  /\ at' = 1
  /\ UNCHANGED <<attached, slot, loop, up, draft, channel, txOpen, received, stopping>>

ReadSlot ==
  /\ system = "reading"
  /\ at <= Len(Order)
  /\ draft' = [draft EXCEPT ![Order[at]] = slot[Order[at]]]
  /\ at' = at + 1
  /\ UNCHANGED <<attached, slot, loop, up, system, channel, txOpen, received, stopping>>

Emit ==
  /\ system = "reading"
  /\ at > Len(Order)
  /\ draft' = [e \in Engines |-> Nothing]
  /\ at' = 1
  /\ \/ /\ txOpen /\ Len(channel) < TxCapacity
        /\ channel' = Append(channel, draft)
        /\ system' = "waiting"
     \/ /\ txOpen /\ Len(channel) = TxCapacity
        /\ system' = "waiting"
        /\ UNCHANGED channel
     \/ /\ ~txOpen
        /\ system' = "joining"
        /\ UNCHANGED channel
  /\ UNCHANGED <<attached, slot, loop, up, txOpen, received, stopping>>

StopSystem ==
  /\ stopping
  /\ system = "waiting"
  /\ system' = "joining"
  /\ UNCHANGED <<attached, slot, loop, up, draft, at, channel, txOpen, received, stopping>>

\* Mutant: the handles are dropped instead of awaited.
DetachLoops ==
  /\ system = "joining"
  /\ system' = "done"
  /\ UNCHANGED <<attached, slot, loop, up, draft, at, channel, txOpen, received, stopping>>

\* The handles are awaited one after the other; tx goes when run returns.
Join ==
  /\ system = "joining"
  /\ IF at <= Len(Order)
       THEN loop[Order[at]] = "stopped" /\ at' = at + 1 /\ UNCHANGED system
       ELSE system' = "done" /\ UNCHANGED at
  /\ UNCHANGED <<attached, slot, loop, up, draft, channel, txOpen, received, stopping>>

-----------------------------------------------------------------------------
(* The consumer (the TUI, or the server's relay task) and the outside.     *)

Receive ==
  /\ txOpen /\ channel # <<>>
  /\ received' = Head(channel)
  /\ channel' = Tail(channel)
  /\ UNCHANGED <<attached, slot, loop, up, system, draft, at, txOpen, stopping>>

\* The TUI thread returns and drops its receiver; main cancels afterwards.
CloseChannel ==
  /\ txOpen
  /\ txOpen' = FALSE
  /\ channel' = <<>>
  /\ UNCHANGED <<attached, slot, loop, up, system, draft, at, received, stopping>>

CancelToken ==
  /\ ~stopping
  /\ stopping' = TRUE
  /\ UNCHANGED <<attached, slot, loop, up, system, draft, at, channel, txOpen, received>>

\* A daemon or a driver goes away or comes back.  A cluster is there from the first
\* list that succeeds; when it is lost the cache goes on answering.
EngineFlips(e) ==
  /\ e \in attached
  /\ e \in Cached => ~up[e]
  /\ up' = [up EXCEPT ![e] = ~@]
  /\ UNCHANGED <<attached, slot, loop, system, draft, at, channel, txOpen, received, stopping>>

-----------------------------------------------------------------------------

EngineLoop(e) == StartPoll(e) \/ FinishPoll(e) \/ StopLoop(e) \/ CallHangs(e) \/ CallReturns(e)

SystemLoop == Tick \/ ReadSlot \/ Emit \/ StopSystem \/ Join

CollectorNext ==
  \/ SystemLoop
  \/ \E e \in Engines : EngineLoop(e) \/ EngineFlips(e)
  \/ Receive \/ CloseChannel \/ CancelToken

CollectorSpec == CollectorInit /\ [][CollectorNext]_collectorVars

\* Every task that can run is polled.  A select! offered both the tick and the
\* cancelled token picks one at random, so each arm that stays ready is taken
\* in the end.  A call that is not stuck in a driver is answered: the daemon's and
\* the cluster's within their timeouts.  Nothing makes a driver answer.
CollectorFairness ==
  /\ WF_collectorVars(Tick) /\ WF_collectorVars(ReadSlot) /\ WF_collectorVars(Emit) /\ WF_collectorVars(Join)
  /\ SF_collectorVars(StopSystem)
  /\ \A e \in Engines : /\ WF_collectorVars(StartPoll(e)) /\ SF_collectorVars(FinishPoll(e))
                        /\ SF_collectorVars(StopLoop(e))
  /\ WF_collectorVars(Receive)

CollectorFairSpec == CollectorSpec /\ CollectorFairness

-----------------------------------------------------------------------------

\* "so the JoinHandle reflects total shutdown": when the handle completes, no
\* loop of the collector is left running.
HandleMeansStopped == system = "done" => \A e \in Engines : loop[e] = "stopped"

\* A cancelled collector shuts down, however its loops were occupied, unless a
\* driver never answers: its loop does not look at the token, and the handle waits
\* for it (spawn_gpu_loop, run).
CancelEnds == (\A e \in Engines : []<>(loop[e] # "hung")) => (stopping ~> system = "done")

\* "rather than freezing on the last good sample": when an engine has only failures
\* left to answer, the consumer ends up being told so.  For a cluster that is one
\* none of whose lists ever succeeded; a driver has to answer at all.
DownIsShown ==
  \A e \in Engines :
    (<>[](~up[e]) /\ []<>(loop[e] # "hung") /\ [](txOpen /\ ~stopping)) => <>[](received[e] # Live)

=============================================================================

---------------------------- MODULE KubeEngine -----------------------------
(***************************************************************************)
(* crates/muxtop-core/src/kube_engine.rs: the Kubernetes engine.  Two poll *)
(* loops fill two caches behind RwLocks, `A` presses in the TUI each spawn *)
(* a task that flips the namespace scope (AppState::toggle_kube_scope),    *)
(* and the collector's cluster loop takes snapshots.  All of them run as   *)
(* tasks of one multi-threaded runtime and interleave at every .await.     *)
(*                                                                         *)
(* A list of rows is abstracted to the scope it was listed under, or Empty *)
(* when nothing is cached: that is what tells an out-of-scope row from     *)
(* one that belongs on screen.  Pod metrics are joined to the rows by      *)
(* name, so which scope they were fetched under makes no difference, and   *)
(* they are abstracted to whether there are any.                           *)
(***************************************************************************)
EXTENDS Integers

CONSTANTS Togglers   \* toggle tasks that may be in flight at the same time

All   == "all"       \* KubeScope::AllNamespaces
Ns    == "ns"        \* KubeScope::Namespace(scoped_namespace)
Empty == "empty"

Scopes == {All, Ns}
Rows   == Scopes \cup {Empty}

VARIABLES scope,      \* KubeEngine.scope
          resources,  \* ResourceCache: pods, deployments, nodes, updated (last_update_ms > 0)
          metrics,    \* MetricsCache: available, and whether it holds any numbers
          resLoop,    \* the resource loop: where it is, and the scope its requests use
          metLoop,    \* where the metrics loop is
          toggler,    \* each toggle task: where it is, and the scope it will set
          reader,     \* the snapshot being taken, guards held while "reading"
          shown,      \* the last KubeSnapshot handed out, its pod rows standing for all
          shutdown,   \* the TUI's shutdown token
          cancelled,  \* KubeEngine.cancel
          raced       \* history: a poll was in flight when the scope last changed

caches == <<resources, metrics>>
loops  == <<resLoop, metLoop>>
reads  == <<reader, shown>>
ends   == <<shutdown, cancelled>>
vars   == <<scope, caches, loops, toggler, reads, ends, raced>>

NoSnapshot == [label |-> All, reachable |-> FALSE, pods |-> Empty]

\* Where a loop or a task is, between two uses of its local scope.
At(pc) == [pc |-> pc, scope |-> All]

Init ==
  /\ scope \in Scopes
  /\ resources = [pods |-> Empty, deployments |-> Empty, nodes |-> Empty, updated |-> FALSE]
  /\ metrics = [available |-> FALSE, numbers |-> FALSE]
  /\ resLoop = At("waiting")
  /\ metLoop = "waiting"
  /\ toggler = [t \in Togglers |-> At("idle")]
  /\ reader = [pc |-> "idle", snap |-> NoSnapshot]
  /\ shown = NoSnapshot
  /\ shutdown = FALSE /\ cancelled = FALSE
  /\ raced = FALSE

\* snapshot() holds the read guards of both caches: no cache write meanwhile.
CachesWritable == reader.pc = "idle"

-----------------------------------------------------------------------------
(* The resource loop: spawn_resource_loop and tick_resources.              *)

\* Mutant: the Apis are built once and for all, cluster-wide.
StartListUnscoped ==
  /\ resLoop.pc = "waiting"
  /\ resLoop' = At("listing")
  /\ UNCHANGED <<scope, caches, metLoop, toggler, reads, ends, raced>>

\* A tick: the three Apis are built for the scope in force now.
StartList ==
  /\ resLoop.pc = "waiting"
  /\ resLoop' = [pc |-> "listing", scope |-> scope]
  /\ UNCHANGED <<scope, caches, metLoop, toggler, reads, ends, raced>>

\* list_or_warn: None on error or timeout keeps what the cache holds.
StoreListed(ok, listed, cached) == IF ok THEN listed ELSE cached

\* All three lists are answered or timed out, and the cache is written once.
FinishList ==
  \E podsOk, nodesOk, deploymentsOk \in BOOLEAN :
    /\ resLoop.pc = "listing"
    /\ CachesWritable
    /\ resources' =
         [pods        |-> StoreListed(podsOk, resLoop.scope, resources.pods),
          nodes       |-> StoreListed(nodesOk, All, resources.nodes),
          deployments |-> StoreListed(deploymentsOk, resLoop.scope, resources.deployments),
          updated     |-> TRUE]
    /\ resLoop' = At("waiting")
    /\ UNCHANGED <<scope, metrics, metLoop, toggler, reads, ends, raced>>

\* cancel wins either select!, dropping the requests in flight.
StopList ==
  /\ cancelled
  /\ resLoop.pc \in {"waiting", "listing"}
  /\ resLoop' = At("stopped")
  /\ UNCHANGED <<scope, caches, metLoop, toggler, reads, ends, raced>>

-----------------------------------------------------------------------------
(* The metrics loop: spawn_metrics_loop and tick_metrics.                  *)

StartMetrics ==
  /\ metLoop = "waiting"
  /\ metLoop' = "fetching"
  /\ UNCHANGED <<scope, caches, resLoop, toggler, reads, ends, raced>>

\* Mutant: an unavailable metrics-server leaves the old numbers in place.
MetricsLostKeep(m) == [m EXCEPT !.available = FALSE]

\* Both fetches failed: the numbers go, so the columns show a dash.
MetricsLost(m) == [available |-> FALSE, numbers |-> FALSE]

\* fetch_metrics_text and the JSON walk: no answer, an unreadable one, or rows.
Answers == {"none", "garbled", "rows"}

FinishMetrics ==
  \E podAnswer, nodeAnswer \in Answers :
    /\ metLoop = "fetching"
    /\ CachesWritable
    /\ metrics' =
         IF podAnswer = "none" /\ nodeAnswer = "none" THEN MetricsLost(metrics)
         ELSE [available |-> TRUE, numbers |-> "rows" \in {podAnswer, nodeAnswer}]
    /\ metLoop' = "waiting"
    /\ UNCHANGED <<scope, resources, resLoop, toggler, reads, ends, raced>>

StopMetrics ==
  /\ cancelled
  /\ metLoop \in {"waiting", "fetching"}
  /\ metLoop' = "stopped"
  /\ UNCHANGED <<scope, caches, resLoop, toggler, reads, ends, raced>>

-----------------------------------------------------------------------------
(* toggle_scope: read the scope, write the other one, clear the rows.  Each *)
(* access takes its lock separately.                                        *)

Flip(s) == IF s = All THEN Ns ELSE All

\* `A`: a task is spawned and reads the scope.
ToggleRead(t) ==
  /\ ~shutdown
  /\ toggler[t].pc = "idle"
  /\ toggler' = [toggler EXCEPT ![t] = [pc |-> "read", scope |-> Flip(scope)]]
  /\ UNCHANGED <<scope, caches, loops, reads, ends, raced>>

SetScope(t) ==
  /\ toggler[t].pc = "read"
  /\ scope' = toggler[t].scope
  /\ toggler' = [toggler EXCEPT ![t] = At("set")]
  /\ raced' = (resLoop.pc = "listing")
  /\ UNCHANGED <<caches, loops, reads, ends>>

\* Mutant: the rows are kept until the next poll.
NothingCleared(r) == r

\* set_scope clears the namespaced rows; nodes are cluster-scoped and stay.
Cleared(r) == [r EXCEPT !.pods = Empty, !.deployments = Empty]

ClearRows(t) ==
  /\ toggler[t].pc = "set"
  /\ CachesWritable
  /\ resources' = Cleared(resources)
  /\ toggler' = [toggler EXCEPT ![t] = At("idle")]
  /\ UNCHANGED <<scope, metrics, loops, reads, ends, raced>>

\* The TUI's shutdown token drops a toggle wherever it waits.
AbandonToggle(t) ==
  /\ shutdown
  /\ toggler[t].pc # "idle"
  /\ toggler' = [toggler EXCEPT ![t] = At("idle")]
  /\ UNCHANGED <<scope, caches, loops, reads, ends, raced>>

-----------------------------------------------------------------------------
(* snapshot(): rows and metrics under both read guards, the label last.    *)

ReadCaches ==
  /\ ~cancelled
  /\ reader.pc = "idle"
  /\ reader' = [pc |-> "reading",
                snap |-> [label |-> All,
                          reachable |-> resources.updated,
                          pods |-> resources.pods]]
  /\ UNCHANGED <<scope, caches, loops, toggler, shown, ends, raced>>

LabelSnapshot ==
  /\ reader.pc = "reading"
  /\ shown' = [reader.snap EXCEPT !.label = scope]
  /\ reader' = [pc |-> "idle", snap |-> NoSnapshot]
  /\ UNCHANGED <<scope, caches, loops, toggler, ends, raced>>

\* The TUI ends.
Shutdown ==
  /\ ~shutdown
  /\ shutdown' = TRUE
  /\ UNCHANGED <<scope, caches, loops, toggler, reads, cancelled, raced>>

\* Drop: the last Arc goes, so nobody is inside a method of the engine.
DropEngine ==
  /\ shutdown /\ ~cancelled
  /\ reader.pc = "idle"
  /\ \A t \in Togglers : toggler[t].pc = "idle"
  /\ cancelled' = TRUE
  /\ UNCHANGED <<scope, caches, loops, toggler, reads, shutdown, raced>>

-----------------------------------------------------------------------------

Loops == StartList \/ FinishList \/ StopList \/ StartMetrics \/ FinishMetrics \/ StopMetrics

Toggle(t) == ToggleRead(t) \/ SetScope(t) \/ ClearRows(t) \/ AbandonToggle(t)

Next == Loops \/ (\E t \in Togglers : Toggle(t)) \/ ReadCaches \/ LabelSnapshot
          \/ Shutdown \/ DropEngine

Spec == Init /\ [][Next]_vars

\* The runtime polls every task that can make progress: a poll loop's next step
\* is taken, a toggle or a snapshot that was started is finished.  Nobody is
\* obliged to press `A`, to take a snapshot or to drop the engine.
Fairness ==
  /\ WF_vars(StartList) /\ WF_vars(FinishList) /\ WF_vars(StopList)
  /\ WF_vars(StartMetrics) /\ WF_vars(FinishMetrics) /\ WF_vars(StopMetrics)
  /\ WF_vars(LabelSnapshot)
  /\ \A t \in Togglers : WF_vars(SetScope(t) \/ ClearRows(t))

FairSpec == Spec /\ Fairness

-----------------------------------------------------------------------------

PhaseOf(pcs) == [pc : pcs, scope : Scopes]

Snapshot == [label : Scopes, reachable : BOOLEAN, pods : Rows]

\* Type invariant.
TypeOK ==
  /\ scope \in Scopes
  /\ resources \in [pods : Rows, deployments : Rows, nodes : Rows, updated : BOOLEAN]
  /\ metrics \in [available : BOOLEAN, numbers : BOOLEAN]
  /\ resLoop \in PhaseOf({"waiting", "listing", "stopped"})
  /\ metLoop \in {"waiting", "fetching", "stopped"}
  /\ toggler \in [Togglers -> PhaseOf({"idle", "read", "set"})]
  /\ reader \in [pc : {"idle", "reading"}, snap : Snapshot]
  /\ shown \in Snapshot
  /\ shutdown \in BOOLEAN /\ cancelled \in BOOLEAN /\ raced \in BOOLEAN

InScope == resources.pods \in {Empty, scope} /\ resources.deployments \in {Empty, scope}

\* A toggle has changed the scope and is about to clear the old rows.
Clearing == \E t \in Togglers : toggler[t].pc = "set"

\* Out-of-scope rows are cached only for the moment between the two halves of
\* set_scope, or because a poll was in flight when the scope changed: that
\* window is the only one, whatever toggles and polls overlap.
OutOfScopeOnlyIfRaced == ~InScope => Clearing \/ raced \/ shutdown

\* A metrics-server that is reported unavailable has left no numbers behind.
NoStaleNumbers == metrics.numbers => metrics.available

\* Neither a failed list nor a rescoping blanks the Nodes view ("per-resource
\* failure must not wipe the other two").
NodesNeverBlank == [][resources.nodes # Empty => resources'.nodes # Empty]_vars

\* A cluster once shown as reachable is not shown as unreachable again: a
\* toggle empties rows, it does not restart the engine.
ReachableSticks == [][shown.reachable => shown'.reachable]_vars

\* A poll that answers for the namespaced kinds.
ListsAnswered ==
  /\ FinishList
  /\ resources'.pods = resLoop.scope /\ resources'.deployments = resLoop.scope

\* The race heals: once nobody toggles, lists are answered and snapshots are
\* taken, the cache settles on rows of the scope in force, and what is shown
\* settles on rows that agree with its label.
ViewSettles ==
  (/\ <>[](\A t \in Togglers : toggler[t].pc = "idle")
   /\ []<><<ListsAnswered>>_vars
   /\ []<><<LabelSnapshot>>_vars)
    => <>[](InScope /\ shown.pods \in {Empty, shown.label})

\* The promise of set_scope: once the rows are cleared, a scope-down leaves no
\* row of the wider scope for a snapshot to show.
ScopeDownLeavesNoRow ==
  (scope = Ns /\ ~Clearing /\ ~shutdown) => resources.pods # All /\ resources.deployments # All
=============================================================================

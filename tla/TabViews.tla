------------------------------ MODULE TabViews ------------------------------
(***************************************************************************)
(* What a tab says when it has no rows to show, and what the tab bar and   *)
(* the dashboard say about it: ui/{processes,network,containers,kube,gpu,  *)
(* general,chrome}.rs and ui/widgets/empty.rs.  Pure functions.            *)
(*                                                                         *)
(* status is what the last snapshot holds for the tab: "no snapshot" yet,  *)
(* "none" (the slot is None), "down" (daemon_up, reachable or available is *)
(* false) or "up".  total is the number of rows the table draws, filtered  *)
(* whether the tab's filter has a text.                                    *)
(***************************************************************************)
EXTENDS Integers, Sequences

\* EmptyState: what happened and how bad it is.
Placeholder(says, level) == [says |-> says, level |-> level]

NoMatch == Placeholder("no match", "neutral")
Waiting == Placeholder("waiting", "info")
Empty   == Placeholder("empty", "neutral")

\* No placeholder: the rows are drawn.
RowsDrawn == Placeholder("rows", "none")

\* Spec.empty and table::draw.
TableOr(placeholder, total) == IF total > 0 THEN RowsDrawn ELSE placeholder

\* What a table without rows says.
NothingToShow(filtered) == IF filtered THEN NoMatch ELSE Empty

\* draw_processes_tab
ProcessesView(status, total, filtered) ==
  IF status = "no snapshot" THEN Waiting ELSE TableOr(NothingToShow(filtered), total)

\* draw_network_tab
NetworkView(status, total, filtered) ==
  IF status = "no snapshot" THEN Waiting ELSE TableOr(NothingToShow(filtered), total)

\* draw_containers_tab
ContainersView(status, total, filtered) ==
  CASE status = "no snapshot" -> Waiting
    [] status = "none" -> Placeholder("no engine", "neutral")
    [] status = "down" -> Placeholder("unavailable", "error")
    [] status = "up"   -> TableOr(NothingToShow(filtered), total)

\* draw_pods, draw_deployments
PodsView(total, filtered) == TableOr(NothingToShow(filtered), total)
DeploymentsView(total, filtered) == TableOr(NothingToShow(filtered), total)

\* draw_nodes: without cluster-wide access an empty list of nodes is no empty cluster.
NodesView(total, filtered, scoped) ==
  TableOr(IF scoped /\ ~filtered THEN Placeholder("not permitted", "error")
          ELSE NothingToShow(filtered), total)

\* draw_kube_tab
KubeView(status, total, filtered, sub, scoped) ==
  CASE status \in {"no snapshot", "none"} -> Waiting
    [] status = "down" -> Placeholder("unavailable", "error")
    [] status = "up" ->
         CASE sub = 0 -> PodsView(total, filtered)
           [] sub = 1 -> NodesView(total, filtered, scoped)
           [] sub = 2 -> DeploymentsView(total, filtered)

\* draw_devices
DevicesView(total, filtered) == TableOr(NothingToShow(filtered), total)

\* draw_procs: a driver that counts no processes does not say that there are none.
ProcsView(total, filtered, listed, counts) ==
  IF listed = 0 /\ ~counts THEN Placeholder("not counted", "neutral")
  ELSE TableOr(NothingToShow(filtered), total)

\* draw_gpu_tab
GpuView(status, total, filtered, sub, listed, counts) ==
  CASE status \in {"no snapshot", "none"} -> Waiting
    [] status = "down" -> Placeholder("unavailable", "neutral")
    [] status = "up" -> IF sub = 0 THEN DevicesView(total, filtered)
                        ELSE ProcsView(total, filtered, listed, counts)

-----------------------------------------------------------------------------
(* chrome.rs                                                               *)

\* tab_available
TabAvailable(tab, status) == tab \in {"containers", "kube", "gpu"} => status = "up"

\* tab_count: NoCount where a zero would read as "nothing to see here".
NoCount == -1

TabCount(tab, status, count) ==
  IF status # "no snapshot" /\ TabAvailable(tab, status) THEN count ELSE NoCount

-----------------------------------------------------------------------------
(* general.rs                                                              *)

\* draw_workloads, once there is a snapshot; device_level for a GPU.  failing
\* says that a pod is in CrashLoop or Failed, busy how loaded the busiest GPU is.
Card(tab, status, failing, devices, busy) ==
  CASE tab = "containers" /\ status = "none" -> Placeholder("no engine", "neutral")
    [] tab = "containers" /\ status = "down" -> Placeholder("unavailable", "error")
    [] tab = "kube" /\ status = "none" -> Placeholder("not configured", "neutral")
    [] tab = "kube" /\ status = "down" -> Placeholder("unavailable", "error")
    [] tab = "kube" /\ status = "up" /\ failing -> Placeholder("rows", "error")
    [] tab = "gpu" /\ status = "none" -> Placeholder("not probed", "neutral")
    [] tab = "gpu" /\ (status = "down" \/ (status = "up" /\ devices = 0)) -> Placeholder("unavailable", "neutral")
    [] tab = "gpu" /\ status = "up" /\ devices > 0 ->
         Placeholder("rows", CASE busy >= 80 -> "error" [] busy \in 50..79 -> "warning"
                               [] busy \in 0..49 -> "success" [] busy < 0 -> "neutral")
    [] OTHER -> Placeholder("rows", "success")
=============================================================================

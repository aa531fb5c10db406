------------------------------ MODULE KubeData ------------------------------
(***************************************************************************)
(* crates/muxtop-core/src/kube_engine.rs, conversions: what the engine     *)
(* makes of the objects in its caches.  The pods and the nodes are listed  *)
(* apart, and either list may be refused, time out or be older than the    *)
(* other: a pod may name a node that no list has.  The metrics server      *)
(* reports what the nodes use.  A snapshot can be taken in any state; it   *)
(* is a function of the state.                                             *)
(***************************************************************************)
EXTENDS Integers, Sequences, FiniteSets, FiniteSetsExt

CONSTANTS Pod, Node,     \* names
          PodContainers, \* the lists of container statuses a pod may report
          Capacities,    \* the quantities of CPU and memory a node may report
          Usages,        \* the CPU quantities the metrics server may report
          MaxU8,         \* u8::MAX
          MaxU32,        \* u32::MAX
          MaxU64         \* u64::MAX

\* A pod that is not scheduled names no node.
Unscheduled == "none"

ASSUME KubeDataAssumption ==
  /\ MaxU8 \in Nat /\ MaxU32 \in Nat /\ MaxU64 \in Nat
  /\ IsFiniteSet(Pod) /\ IsFiniteSet(Node) /\ Unscheduled \notin Node
  /\ \A cs \in PodContainers : cs \in Seq(Range(cs))
  /\ \A c \in Capacities : c.cpu.tenths \in Nat /\ c.mem.tenths \in Nat
  /\ \A u \in Usages : u.tenths \in Nat

VARIABLES pods,      \* pod -> [phase, deleting, containers, node]
          nodeList,  \* the nodes of the last list that came back: ResourceCache::nodes
          nodes      \* node -> [cordoned, ready, cpu, mem, used]; the last three are quantities

kubeDataVars == <<pods, nodeList, nodes>>

ApiPhases == {"Pending", "Running", "Succeeded", "Failed", "other"}
Zero     == [tenths |-> 0, suffix |-> ""]
NoSample == [tenths |-> 0, suffix |-> "none"]
NotSampled == -1

NewPod == [phase |-> "Pending", deleting |-> FALSE, containers |-> <<>>, node |-> Unscheduled]

NewNode == [cordoned |-> FALSE, ready |-> "absent", cpu |-> Zero, mem |-> Zero, used |-> NoSample]

KubeDataInit ==
  /\ pods = [p \in Pod |-> NewPod]
  /\ nodeList = {}
  /\ nodes = [n \in Node |-> NewNode]

-----------------------------------------------------------------------------
(* The cluster, and the lists of it.                                       *)

Reports(p, phase, containers) ==
  /\ pods[p].node # Unscheduled
  /\ pods' = [pods EXCEPT ![p].phase = phase, ![p].containers = containers]
  /\ UNCHANGED <<nodeList, nodes>>

\* The pods' list may know a pod's node before the nodes' list does.
Schedule(p, n) ==
  /\ pods[p].node = Unscheduled
  /\ pods' = [pods EXCEPT ![p].node = n]
  /\ UNCHANGED <<nodeList, nodes>>

DeletePod(p) ==
  /\ pods' = [pods EXCEPT ![p] = IF @.deleting THEN NewPod ELSE [@ EXCEPT !.deleting = TRUE]]
  /\ UNCHANGED <<nodeList, nodes>>

\* A list of the nodes that came back replaces the one before; one that is
\* refused or late keeps it, and until the first there is none.
ListNodes(ns) ==
  /\ nodeList' = ns
  /\ UNCHANGED <<pods, nodes>>

NodeChanges(n, cordon, status) ==
  /\ n \in nodeList
  /\ nodes' = [nodes EXCEPT ![n].cordoned = cordon, ![n].ready = status]
  /\ UNCHANGED <<pods, nodeList>>

\* The kubelet's capacity and the metrics server's figure.
NodeReports(n, capacity, used) ==
  /\ n \in nodeList
  /\ nodes' = [nodes EXCEPT ![n].cpu = capacity.cpu, ![n].mem = capacity.mem, ![n].used = used]
  /\ UNCHANGED <<pods, nodeList>>

KubeDataNext ==
  \/ \E p \in Pod, phase \in ApiPhases, cs \in PodContainers : Reports(p, phase, cs)
  \/ \E p \in Pod, n \in Node : Schedule(p, n)
  \/ \E p \in Pod : DeletePod(p)
  \/ \E ns \in SUBSET Node : ListNodes(ns)
  \/ \E n \in Node, c \in BOOLEAN, status \in {"True", "False", "absent"} : NodeChanges(n, c, status)
  \/ \E n \in Node, c \in Capacities, used \in Usages : NodeReports(n, c, used)

-----------------------------------------------------------------------------
(* Quantities: a decimal number of tenths and a suffix.                    *)

Saturate(n, max) == IF n > max THEN max ELSE n

\* parse_quantity_to_millis, with 5 millis to the core: whole cores, decimal
\* cores rounded to the nearest milli (half a milli up), or millis.  A number that
\* is not whole cannot carry a suffix.
ParseMillis(q) ==
  LET whole == q.tenths % 10 = 0
      n     == q.tenths \div 10
  IN  CASE q.suffix = "m" -> IF whole /\ n <= MaxU32 THEN n ELSE 0
        [] q.suffix = ""  -> Saturate(IF whole /\ n <= MaxU32 THEN n * 5 ELSE (q.tenths + 1) \div 2, MaxU32)
        [] OTHER          -> 0

\* parse_metrics_cpu_to_millis: n and u are cut down to millis, here by factors
\* of 4 and 2, and to 32 bits.
ParseMetricsCpu(q) ==
  LET whole == q.tenths % 10 = 0
      n     == q.tenths \div 10
  IN  CASE q.suffix = "n" -> IF whole THEN (n \div 4) % (MaxU32 + 1) ELSE 0
        [] q.suffix = "u" -> IF whole THEN (n \div 2) % (MaxU32 + 1) ELSE 0
        [] OTHER -> ParseMillis(q)

\* parse_quantity_to_bytes, with 4 bytes to the Ki and 3 to the K: only whole
\* numbers, and only the suffixes it knows, are read.
Multiplier == [Ki |-> 4, K |-> 3]

ParseBytes(q) ==
  LET n == q.tenths \div 10
  IN  IF q.tenths % 10 # 0 \/ n > MaxU64 THEN 0
      ELSE CASE q.suffix = ""                  -> n
             [] q.suffix \in DOMAIN Multiplier -> Saturate(n * Multiplier[q.suffix], MaxU64)
             [] OTHER                          -> 0

\* The same quantity in tenths of a byte.
TenthBytes(q) == q.tenths * (IF q.suffix \in DOMAIN Multiplier THEN Multiplier[q.suffix] ELSE 1)

\* The same quantity in quarter millis.
Quarters(q) ==
  CASE q.suffix = "n" -> q.tenths \div 10
    [] q.suffix = "u" -> (q.tenths \div 10) * 2
    [] q.suffix = "m" -> (q.tenths \div 10) * 4
    [] OTHER          -> q.tenths * 2

-----------------------------------------------------------------------------
(* The conversions.                                                        *)

\* pod_phase_synthetic: deletion wins over a crash loop, and that over the
\* phase the API reports.
PodPhase(pod) ==
  IF pod.deleting THEN "Terminating"
  ELSE IF \E k \in DOMAIN pod.containers : pod.containers[k].waiting = "CrashLoopBackOff" THEN "CrashLoop"
  ELSE IF pod.phase = "other" THEN "Unknown"
  ELSE pod.phase

\* pod_ready_ratio: each side is cut to a byte by itself.
PodReady(pod) ==
  <<Saturate(Cardinality({k \in DOMAIN pod.containers : pod.containers[k].ready}), MaxU8),
    Saturate(Len(pod.containers), MaxU8)>>

\* pod_restart_count: a negative count is none.
PodRestarts(pod) ==
  MapThenSumSet(LAMBDA k : IF pod.containers[k].restarts > 0 THEN pod.containers[k].restarts ELSE 0,
                DOMAIN pod.containers)

\* pod_to_snapshot
PodRow(p) ==
  [phase |-> PodPhase(pods[p]), ready |-> PodReady(pods[p]), restarts |-> PodRestarts(pods[p]),
   node |-> pods[p].node]

\* Mutant: finished pods are counted too.
CountsAll(row) == row.node # Unscheduled

\* pods_per_node leaves out what is not scheduled and what has finished.
Counts(row) == row.node # Unscheduled /\ row.phase \notin {"Succeeded", "Failed"}

PodsPerNode(n) == Cardinality({p \in Pod : Counts(PodRow(p)) /\ PodRow(p).node = n})

\* node_status_synthetic
NodeStatus(n) ==
  IF nodes[n].cordoned THEN "SchedulingDisabled"
  ELSE CASE nodes[n].ready = "True"  -> "Ready"
         [] nodes[n].ready = "False" -> "NotReady"
         [] OTHER                    -> "Unknown"

\* node_to_snapshot and the join in snapshot
NodeRow(n) ==
  [status              |-> NodeStatus(n),
   pod_count           |-> PodsPerNode(n),
   cpu_capacity_millis |-> ParseMillis(nodes[n].cpu),
   mem_capacity_bytes  |-> ParseBytes(nodes[n].mem),
   cpu_used_millis     |-> IF nodes[n].used = NoSample THEN NotSampled
                           ELSE ParseMetricsCpu(nodes[n].used)]

-----------------------------------------------------------------------------

\* The join of two lists taken apart counts nothing twice, and loses only the pods
\* of a node the nodes' list does not have: every other pod is on the row of its
\* node, or is shown as not scheduled or as finished.  A pod in a crash loop, or
\* being deleted, is never shown as running, and never more of its containers are
\* ready than it has.  A figure of memory is never above the quantity it was read
\* from, and one of CPU by no more than the half milli it is rounded by, however
\* the quantity was written; a figure nobody sampled is not a zero.
ClusterAddsUp ==
  /\ MapThenSumSet(LAMBDA n : NodeRow(n).pod_count, nodeList)
       + Cardinality({p \in Pod : Counts(PodRow(p)) /\ PodRow(p).node \notin nodeList})
       + Cardinality({p \in Pod : PodRow(p).node = Unscheduled})
       + Cardinality({p \in Pod : PodRow(p).node # Unscheduled
                                   /\ PodRow(p).phase \in {"Succeeded", "Failed"}})
     = Cardinality(Pod)
  /\ \A p \in Pod :
       /\ PodRow(p).ready[1] <= PodRow(p).ready[2]
       /\ PodRow(p).phase = "Running" =>
            ~pods[p].deleting /\ \A k \in DOMAIN pods[p].containers :
                                    pods[p].containers[k].waiting # "CrashLoopBackOff"
       /\ pods[p].deleting => PodRow(p).phase = "Terminating"
  /\ \A n \in nodeList :
       /\ NodeRow(n).cpu_capacity_millis * 4 <= Quarters(nodes[n].cpu) + 2
       /\ NodeRow(n).cpu_used_millis * 4 <= Quarters(nodes[n].used) + 2
       /\ NodeRow(n).mem_capacity_bytes * 10 <= TenthBytes(nodes[n].mem)
       /\ NodeRow(n).cpu_used_millis = NotSampled <=> nodes[n].used = NoSample
=============================================================================

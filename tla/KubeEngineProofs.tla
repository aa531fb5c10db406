-------------------------- MODULE KubeEngineProofs --------------------------
(***************************************************************************)
(* Theorems about KubeEngine, for any number of toggle tasks in flight,    *)
(* and about the conversions of KubeData, for a cluster of any size.       *)
(***************************************************************************)
EXTENDS KubeEngine, KubeData, FiniteSetTheorems, WellFoundedInduction, TLAPS

\* A poll whose requests use another scope than the one in force was in flight
\* when the scope changed.
PollScope == (resLoop.pc = "listing" /\ resLoop.scope # scope) => raced

\* Everything that says "reachable" was written after the first poll, and a
\* snapshot being taken is no older in this than the last one shown.
ReachableOrder ==
  /\ shown.reachable => resources.updated
  /\ reader.pc = "reading" => /\ reader.snap.reachable => resources.updated
                              /\ shown.reachable => reader.snap.reachable

IInv == TypeOK /\ NoStaleNumbers /\ PollScope /\ OutOfScopeOnlyIfRaced /\ ReachableOrder

-----------------------------------------------------------------------------
(* Type correctness.                                                       *)

LEMMA TypeInit == Init => TypeOK
<1> SUFFICES ASSUME Init PROVE TypeOK
  OBVIOUS
<1>1. NoSnapshot \in Snapshot
  BY DEF NoSnapshot, Snapshot, Scopes, Rows, All, Ns, Empty
<1>2. At("waiting") \in PhaseOf({"waiting", "listing", "stopped"})
  BY DEF At, PhaseOf, Scopes
<1>3. At("idle") \in PhaseOf({"idle", "read", "set"})
  BY DEF At, PhaseOf, Scopes
<1> QED
  BY <1>1, <1>2, <1>3 DEF Init, TypeOK, Rows

LEMMA LoopsType ==
  ASSUME TypeOK, Loops
  PROVE  TypeOK'
<1> USE DEF TypeOK, caches, reads, ends
<1>1. At("waiting") \in PhaseOf({"waiting", "listing", "stopped"})
  BY DEF At, PhaseOf, Scopes
<1>2. At("stopped") \in PhaseOf({"waiting", "listing", "stopped"})
  BY DEF At, PhaseOf, Scopes
<1>3. CASE StartList
  BY <1>3 DEF StartList, PhaseOf
<1>4. CASE FinishList
  <2>1. resLoop.scope \in Rows /\ All \in Rows
    BY DEF Rows, PhaseOf, Scopes
  <2>2. resources' \in [pods : Rows, deployments : Rows, nodes : Rows, updated : BOOLEAN]
    BY <1>4, <2>1 DEF FinishList, StoreListed
  <2> QED
    BY <1>1, <1>4, <2>2 DEF FinishList
<1>5. CASE StopList
  BY <1>2, <1>5 DEF StopList
<1>6. CASE StartMetrics
  BY <1>6 DEF StartMetrics
<1>7. CASE FinishMetrics
  <2>1. metrics' \in [available : BOOLEAN, numbers : BOOLEAN]
    BY <1>7 DEF FinishMetrics, MetricsLost
  <2> QED
    BY <1>7, <2>1 DEF FinishMetrics
<1>8. CASE StopMetrics
  BY <1>8 DEF StopMetrics
<1> QED
  BY <1>3, <1>4, <1>5, <1>6, <1>7, <1>8 DEF Loops

LEMMA ToggleType ==
  ASSUME TypeOK, NEW t \in Togglers, Toggle(t)
  PROVE  TypeOK'
<1> USE DEF TypeOK, caches, loops, reads, ends
<1>1. \A p \in {"idle", "set"} : At(p) \in PhaseOf({"idle", "read", "set"})
  BY DEF At, PhaseOf, Scopes
<1>2. CASE ToggleRead(t)
  <2>1. [pc |-> "read", scope |-> Flip(scope)] \in PhaseOf({"idle", "read", "set"})
    BY DEF Flip, PhaseOf, Scopes
  <2> QED
    BY <1>2, <2>1 DEF ToggleRead
<1>3. CASE SetScope(t)
  <2>1. toggler[t].scope \in Scopes
    BY DEF PhaseOf
  <2>2. raced' \in BOOLEAN
    BY <1>3 DEF SetScope
  <2> QED
    BY <1>1, <1>3, <2>1, <2>2 DEF SetScope
<1>4. CASE ClearRows(t)
  <2>1. Cleared(resources) \in [pods : Rows, deployments : Rows, nodes : Rows, updated : BOOLEAN]
    BY DEF Cleared, Rows
  <2> QED
    BY <1>1, <1>4, <2>1 DEF ClearRows
<1>5. CASE AbandonToggle(t)
  BY <1>1, <1>5 DEF AbandonToggle
<1> QED
  BY <1>2, <1>3, <1>4, <1>5 DEF Toggle

LEMMA TypeStep ==
  ASSUME TypeOK, [Next]_vars
  PROVE  TypeOK'
<1> USE DEF TypeOK, caches, loops, reads, ends
<1>1. CASE UNCHANGED vars
  BY <1>1 DEF vars
<1>2. CASE ReadCaches
  <2>1. [label |-> All, reachable |-> resources.updated, pods |-> resources.pods] \in Snapshot
    BY DEF Snapshot, Scopes
  <2> QED
    BY <1>2, <2>1 DEF ReadCaches
<1>3. CASE LabelSnapshot
  <2>1. [reader.snap EXCEPT !.label = scope] \in Snapshot
    BY DEF Snapshot
  <2>2. NoSnapshot \in Snapshot
    BY DEF NoSnapshot, Snapshot, Scopes, Rows
  <2> QED
    BY <1>3, <2>1, <2>2 DEF LabelSnapshot
<1>4. CASE Shutdown \/ DropEngine
  BY <1>4 DEF Shutdown, DropEngine
<1> QED
  BY <1>1, <1>2, <1>3, <1>4, LoopsType, ToggleType DEF Next

-----------------------------------------------------------------------------
(* The caches.                                                             *)

LEMMA NumbersStep ==
  ASSUME TypeOK, NoStaleNumbers, [Next]_vars
  PROVE  NoStaleNumbers'
<1>1. CASE UNCHANGED metrics
  BY <1>1 DEF NoStaleNumbers
<1>2. CASE FinishMetrics
  BY <1>2 DEF FinishMetrics, MetricsLost, NoStaleNumbers
<1> QED
  BY <1>1, <1>2
  DEF Next, vars, caches, Loops, StartList, FinishList, StopList, StartMetrics, StopMetrics,
      Toggle, ToggleRead, SetScope, ClearRows, AbandonToggle, ReadCaches, LabelSnapshot,
      Shutdown, DropEngine

\* Only a change of scope can part a poll in flight from the scope in force,
\* and it leaves its mark.
LEMMA PollScopeStep ==
  ASSUME TypeOK, PollScope, [Next]_vars
  PROVE  PollScope'
<1>1. CASE UNCHANGED <<resLoop, scope, raced>>
  BY <1>1 DEF PollScope
<1>2. CASE StartList
  BY <1>2 DEF StartList, PollScope
<1>3. CASE FinishList \/ StopList
  <2>1. resLoop'.pc # "listing"
    BY <1>3 DEF FinishList, StopList, At
  <2> QED
    BY <2>1 DEF PollScope
<1>4. ASSUME NEW t \in Togglers, SetScope(t) PROVE PollScope'
  BY <1>4 DEF SetScope, loops, PollScope
<1> QED
  BY <1>1, <1>2, <1>3, <1>4
  DEF Next, vars, loops, Loops, StartMetrics, FinishMetrics, StopMetrics, Toggle, ToggleRead,
      ClearRows, AbandonToggle, ReadCaches, LabelSnapshot, Shutdown, DropEngine

LEMMA ScopeStep ==
  ASSUME TypeOK, PollScope, OutOfScopeOnlyIfRaced, [Next]_vars
  PROVE  OutOfScopeOnlyIfRaced'
<1>1. CASE UNCHANGED <<resources, scope, raced, toggler>> /\ (shutdown => shutdown')
  BY <1>1 DEF OutOfScopeOnlyIfRaced, InScope, Clearing
<1>2. CASE FinishList
  <2>1. UNCHANGED <<scope, raced, toggler, shutdown>>
    BY <1>2 DEF FinishList, ends
  <2>2. CASE resLoop.scope = scope
    <3>1. InScope => InScope'
      BY <1>2, <2>1, <2>2 DEF FinishList, StoreListed, InScope
    <3> QED
      BY <2>1, <3>1 DEF OutOfScopeOnlyIfRaced, Clearing
  <2>3. CASE resLoop.scope # scope
    BY <1>2, <2>1, <2>3 DEF FinishList, PollScope, OutOfScopeOnlyIfRaced
  <2> QED
    BY <2>2, <2>3
<1>3. ASSUME NEW t \in Togglers, SetScope(t) PROVE OutOfScopeOnlyIfRaced'
  <2>1. toggler'[t].pc = "set"
    BY <1>3 DEF SetScope, TypeOK, At
  <2> QED
    BY <2>1 DEF OutOfScopeOnlyIfRaced, Clearing
<1>4. ASSUME NEW t \in Togglers, ClearRows(t) PROVE OutOfScopeOnlyIfRaced'
  <2>1. resources'.pods = Empty /\ resources'.deployments = Empty
    BY <1>4 DEF ClearRows, Cleared, TypeOK
  <2> QED
    BY <2>1 DEF OutOfScopeOnlyIfRaced, InScope
<1>5. ASSUME NEW t \in Togglers, ToggleRead(t) PROVE OutOfScopeOnlyIfRaced'
  <2>1. ASSUME NEW u \in Togglers, toggler[u].pc = "set" PROVE toggler'[u].pc = "set"
    BY <1>5, <2>1 DEF ToggleRead, TypeOK
  <2>2. UNCHANGED <<resources, scope, raced, shutdown>>
    BY <1>5 DEF ToggleRead, caches, ends
  <2> QED
    BY <2>1, <2>2 DEF OutOfScopeOnlyIfRaced, InScope, Clearing
<1>6. ASSUME NEW t \in Togglers, AbandonToggle(t) PROVE OutOfScopeOnlyIfRaced'
  BY <1>6 DEF AbandonToggle, ends, OutOfScopeOnlyIfRaced
<1> QED
  BY <1>1, <1>2, <1>3, <1>4, <1>5, <1>6
  DEF Next, vars, caches, ends, Loops, StartList, StopList, StartMetrics, FinishMetrics,
      StopMetrics, Toggle, ReadCaches, LabelSnapshot, Shutdown, DropEngine

\* No step takes "updated" back.
LEMMA UpdatedSticks ==
  ASSUME TypeOK, [Next]_vars
  PROVE  resources.updated => resources'.updated
<1>1. CASE UNCHANGED resources
  BY <1>1
<1>2. CASE FinishList
  BY <1>2 DEF FinishList
<1>3. ASSUME NEW t \in Togglers, ClearRows(t) PROVE resources.updated => resources'.updated
  BY <1>3 DEF ClearRows, Cleared, TypeOK
<1> QED
  BY <1>1, <1>2, <1>3
  DEF Next, vars, caches, Loops, StartList, StopList, StartMetrics, FinishMetrics, StopMetrics,
      Toggle, ToggleRead, SetScope, AbandonToggle, ReadCaches, LabelSnapshot, Shutdown, DropEngine

\* While a snapshot is being taken its rows and the last one shown are fixed.
LEMMA ReachableStep ==
  ASSUME TypeOK, ReachableOrder, [Next]_vars
  PROVE  ReachableOrder' /\ (shown.reachable => shown'.reachable)
<1>0. resources.updated => resources'.updated
  BY UpdatedSticks
<1>1. CASE UNCHANGED <<reader, shown>>
  BY <1>0, <1>1 DEF ReachableOrder
<1>2. CASE ReadCaches
  <2>1. /\ reader'.snap.reachable = resources.updated
        /\ UNCHANGED <<resources, shown>>
    BY <1>2 DEF ReadCaches, caches
  <2> QED
    BY <2>1 DEF ReachableOrder
<1>3. CASE LabelSnapshot
  <2>1. /\ shown'.reachable = reader.snap.reachable
        /\ reader.pc = "reading" /\ reader'.pc = "idle"
        /\ UNCHANGED resources
    BY <1>3 DEF LabelSnapshot, caches, TypeOK, Snapshot
  <2> QED
    BY <2>1 DEF ReachableOrder
<1> QED
  BY <1>1, <1>2, <1>3
  DEF Next, vars, reads, Loops, StartList, FinishList, StopList, StartMetrics, FinishMetrics,
      StopMetrics, Toggle, ToggleRead, SetScope, ClearRows, AbandonToggle, Shutdown, DropEngine

-----------------------------------------------------------------------------
(* The theorems.                                                           *)

LEMMA Invariance == Spec => []IInv
<1>1. Init => IInv
  <2> SUFFICES ASSUME Init PROVE IInv
    OBVIOUS
  <2>1. TypeOK
    BY TypeInit
  <2>2. NoStaleNumbers /\ PollScope /\ ReachableOrder
    BY DEF Init, NoStaleNumbers, PollScope, ReachableOrder, At, NoSnapshot
  <2>3. OutOfScopeOnlyIfRaced
    BY DEF Init, OutOfScopeOnlyIfRaced, InScope
  <2> QED
    BY <2>1, <2>2, <2>3 DEF IInv
<1>2. IInv /\ [Next]_vars => IInv'
  BY TypeStep, NumbersStep, PollScopeStep, ScopeStep, ReachableStep DEF IInv
<1> QED
  BY <1>1, <1>2, PTL DEF Spec

\* The engine's state keeps its shape: in particular the scope in force is always
\* one of the two KubeScope values, whatever toggles overlap.
THEOREM TypeCorrect == Spec => []TypeOK
<1>1. IInv => TypeOK
  BY DEF IInv
<1> QED
  BY <1>1, Invariance, PTL

\* However many toggles are in flight, out-of-scope rows have one cause only: a
\* poll that was in flight when set_scope changed the scope.
THEOREM OneCauseOfStrayRows == Spec => []OutOfScopeOnlyIfRaced
<1>1. IInv => OutOfScopeOnlyIfRaced
  BY DEF IInv
<1> QED
  BY <1>1, Invariance, PTL

\* tick_metrics leaves no numbers behind when it reports metrics unavailable.
THEOREM NumbersGoTogether == Spec => []NoStaleNumbers
<1>1. IInv => NoStaleNumbers
  BY DEF IInv
<1> QED
  BY <1>1, Invariance, PTL

\* Snapshots never take back that the cluster was reached, although taking one
\* interleaves with polls and toggles.
THEOREM ReachedForGood == Spec => ReachableSticks
<1>1. IInv /\ [Next]_vars => [shown.reachable => shown'.reachable]_vars
  BY ReachableStep DEF IInv
<1> QED
  BY <1>1, Invariance, PTL DEF Spec, ReachableSticks

\* No failed list and no change of scope empties the nodes once listed.
THEOREM NodesKept == Spec => NodesNeverBlank
<1>1. ASSUME TypeOK, [Next]_vars
      PROVE  resources.nodes # Empty => resources'.nodes # Empty
  <2>1. CASE UNCHANGED resources
    BY <2>1
  <2>2. CASE FinishList
    BY <2>2 DEF FinishList, StoreListed, All, Empty
  <2>3. ASSUME NEW t \in Togglers, ClearRows(t) PROVE resources'.nodes = resources.nodes
    BY <1>1, <2>3 DEF ClearRows, Cleared, TypeOK
  <2> QED
    BY <1>1, <2>1, <2>2, <2>3
    DEF Next, vars, caches, Loops, StartList, StopList, StartMetrics, FinishMetrics, StopMetrics,
        Toggle, ToggleRead, SetScope, AbandonToggle, ReadCaches, LabelSnapshot, Shutdown, DropEngine
<1>2. TypeOK /\ [Next]_vars => [resources.nodes # Empty => resources'.nodes # Empty]_vars
  BY <1>1
<1> QED
  BY <1>2, TypeCorrect, PTL DEF Spec, NodesNeverBlank

-----------------------------------------------------------------------------
(* KubeData.                                                               *)

\* A set that holds 0 and with every number the next holds all of them.
LEMMA CountingUp ==
  ASSUME NEW S, 0 \in S, \A n \in Nat : n \in S => n + 1 \in S
  PROVE  \A n \in Nat : n \in S
<1> DEFINE R == {ss \in Nat \X Nat : ss[1] < ss[2]}
           T == Nat \ S
<1>1. IsWellFoundedOn(R, Nat)
  BY NatLessThanWellFounded DEF OpToRel
<1> SUFFICES ASSUME T # {} PROVE FALSE
  OBVIOUS
<1>2. PICK x \in T : \A y \in T : ~(<<y, x>> \in R)
  <2> HIDE DEF R
  <2>1. T \subseteq Nat
    OBVIOUS
  <2> HIDE DEF T
  <2> QED
    BY <1>1, <2>1, WFMin
<1>3. x # 0 /\ x \in Nat /\ x - 1 \in Nat
  OBVIOUS
<1>4. <<x - 1, x>> \in R
  BY <1>3
<1>5. x - 1 \in S
  BY <1>2, <1>3, <1>4
<1> QED
  BY <1>3, <1>5

\* Every quantity a node may carry.
Quantities == {Zero, NoSample} \cup Usages \cup {c.cpu : c \in Capacities} \cup {c.mem : c \in Capacities}

PodEntries == [phase : ApiPhases, deleting : BOOLEAN, containers : PodContainers \cup {<<>>},
               node : Node \cup {Unscheduled}]

NodeEntries == [cordoned : BOOLEAN, ready : {"True", "False", "absent"},
                cpu : Quantities, mem : Quantities, used : Quantities]

KubeDataType ==
  pods \in [Pod -> PodEntries] /\ nodeList \in SUBSET Node /\ nodes \in [Node -> NodeEntries]

\* The type invariant is inductive by itself.
LEMMA KubeDataTyped == KubeDataInit /\ [][KubeDataNext]_kubeDataVars => []KubeDataType
<1>1. KubeDataInit => KubeDataType
  BY DEF KubeDataInit, KubeDataType, NewPod, NewNode, PodEntries, NodeEntries, Quantities, ApiPhases
<1>2. KubeDataType /\ [KubeDataNext]_kubeDataVars => KubeDataType'
  <2> SUFFICES ASSUME KubeDataType, [KubeDataNext]_kubeDataVars PROVE KubeDataType'
    OBVIOUS
  <2>1. ASSUME NEW p \in Pod, NEW phase \in ApiPhases, NEW cs \in PodContainers, Reports(p, phase, cs)
        PROVE  KubeDataType'
    BY <2>1 DEF Reports, KubeDataType, PodEntries
  <2>2. ASSUME NEW p \in Pod, NEW n \in Node, Schedule(p, n) PROVE KubeDataType'
    BY <2>2 DEF Schedule, KubeDataType, PodEntries
  <2>3. ASSUME NEW p \in Pod, DeletePod(p) PROVE KubeDataType'
    <3>1. NewPod \in PodEntries
      BY DEF NewPod, PodEntries, ApiPhases
    <3>2. [pods[p] EXCEPT !.deleting = TRUE] \in PodEntries
      BY DEF KubeDataType, PodEntries
    <3> QED
      BY <2>3, <3>1, <3>2 DEF DeletePod, KubeDataType
  <2>4. ASSUME NEW n \in Node, NEW c \in BOOLEAN, NEW status \in {"True", "False", "absent"},
               NodeChanges(n, c, status)
        PROVE  KubeDataType'
    BY ZenonT(60), <2>4 DEF NodeChanges, KubeDataType, NodeEntries
  <2>5. ASSUME NEW n \in Node, NEW c \in Capacities, NEW used \in Usages, NodeReports(n, c, used)
        PROVE  KubeDataType'
    <3>1. c.cpu \in Quantities /\ c.mem \in Quantities /\ used \in Quantities
      BY DEF Quantities
    <3> QED
      BY ZenonT(60), <2>5, <3>1 DEF NodeReports, KubeDataType, NodeEntries
  <2>6. ASSUME NEW ns \in SUBSET Node, ListNodes(ns) PROVE KubeDataType'
    BY <2>6 DEF ListNodes, KubeDataType
  <2>7. CASE UNCHANGED kubeDataVars
    BY <2>7 DEF kubeDataVars, KubeDataType
  <2> QED
    BY <2>1, <2>2, <2>3, <2>4, <2>5, <2>6, <2>7 DEF KubeDataNext
<1> QED
  BY <1>1, <1>2, PTL

-----------------------------------------------------------------------------

\* The pods counted on some of the nodes.
On(s) == {p \in Pod : Counts(PodRow(p)) /\ PodRow(p).node \in s}

\* it is the recursion of the sum over the listed nodes.
Sums(it) ==
  it = [s \in SUBSET nodeList |-> IF s = {} THEN 0
                         ELSE LET x == CHOOSE x \in s : TRUE IN NodeRow(x).pod_count + it[s \ {x}]]

\* One node more: its pods are on no other.
LEMMA OneNode ==
  ASSUME NEW s \in SUBSET Node, NEW x \in s
  PROVE  /\ NodeRow(x).pod_count \in Nat /\ Cardinality(On(s \ {x})) \in Nat
         /\ Cardinality(On(s)) = NodeRow(x).pod_count + Cardinality(On(s \ {x}))
<1>1. NodeRow(x).pod_count = Cardinality(On({x}))
  BY DEF NodeRow, PodsPerNode, On
<1>2. IsFiniteSet(On({x})) /\ IsFiniteSet(On(s \ {x}))
  <2>1. On({x}) \subseteq Pod /\ On(s \ {x}) \subseteq Pod
    BY DEF On
  <2> QED
    BY <2>1, FS_Subset, KubeDataAssumption
<1>3. On(s) = On({x}) \cup On(s \ {x}) /\ On({x}) \cap On(s \ {x}) = {}
  BY DEF On
<1>4. Cardinality(On(s)) = Cardinality(On({x})) + Cardinality(On(s \ {x}))
                             - Cardinality(On({x}) \cap On(s \ {x}))
  BY <1>2, <1>3, FS_Union
<1>5. Cardinality(On({x}) \cap On(s \ {x})) = 0
  BY <1>3, FS_EmptySet
<1>6. Cardinality(On({x})) \in Nat /\ Cardinality(On(s \ {x})) \in Nat
  BY <1>2, FS_CardinalityType
<1> QED
  BY <1>1, <1>4, <1>5, <1>6

\* The sum over the nodes is the number of pods counted on any.
LEMMA SumOfNodes ==
  ASSUME nodeList \in SUBSET Node
  PROVE  MapThenSumSet(LAMBDA n : NodeRow(n).pod_count, nodeList) = Cardinality(On(nodeList))
<1> DEFINE Count(s) == Cardinality(On(s))
           c == [s \in SUBSET nodeList |-> Count(s)]
           it == CHOOSE f : Sums(f)
<1>1. On({}) = {} /\ Count({}) = 0
  BY FS_EmptySet DEF On
<1>2. Sums(c)
  <2>1. ASSUME NEW s \in SUBSET nodeList
        PROVE  c[s] = IF s = {} THEN 0
                      ELSE LET x == CHOOSE x \in s : TRUE IN NodeRow(x).pod_count + c[s \ {x}]
    <3>1. CASE s = {}
      BY <1>1, <3>1
    <3>2. CASE s # {}
      <4>1. PICK x \in s : x = CHOOSE y \in s : TRUE
        BY <3>2
      <4>2. s \ {x} \in SUBSET nodeList
        OBVIOUS
      <4>3. c[s] = Count(s) /\ c[s \ {x}] = Count(s \ {x})
        BY <4>2
      <4>4. Count(s) = NodeRow(x).pod_count + Count(s \ {x})
        BY OneNode
      <4> QED
        BY <3>2, <4>1, <4>3, <4>4
    <3> QED
      BY <3>1, <3>2
  <2>2. c = [s \in SUBSET nodeList |-> c[s]]
    OBVIOUS
  <2> HIDE DEF c
  <2> QED
    BY <2>1, <2>2 DEF Sums
<1>3. Sums(it)
  BY <1>2
<1>4. MapThenSumSet(LAMBDA n : NodeRow(n).pod_count, nodeList) = it[nodeList]
  BY DEF MapThenSumSet, MapThenFoldSet, Sums
<1> HIDE DEF it, c
<1>5. \A s \in SUBSET nodeList :
        it[s] = IF s = {} THEN 0
                ELSE LET x == CHOOSE x \in s : TRUE IN NodeRow(x).pod_count + it[s \ {x}]
  BY <1>3 DEF Sums
<1> DEFINE S == {n \in Nat : \A s \in SUBSET nodeList : Cardinality(s) = n => it[s] = Count(s)}
<1>6. \A s \in SUBSET nodeList : IsFiniteSet(s) /\ Cardinality(s) \in Nat
  BY FS_Subset, FS_CardinalityType, KubeDataAssumption
<1>7. 0 \in S
  <2> SUFFICES ASSUME NEW s \in SUBSET nodeList, Cardinality(s) = 0 PROVE it[s] = Count(s)
    OBVIOUS
  <2>1. s = {}
    BY <1>6, FS_EmptySet
  <2> QED
    BY <1>1, <1>5, <2>1
<1>8. ASSUME NEW n \in Nat, n \in S PROVE n + 1 \in S
  <2> SUFFICES ASSUME NEW s \in SUBSET nodeList, Cardinality(s) = n + 1 PROVE it[s] = Count(s)
    OBVIOUS
  <2>1. s # {}
    BY FS_EmptySet
  <2>2. PICK x \in s : x = CHOOSE y \in s : TRUE
    BY <2>1
  <2>3. s \ {x} \in SUBSET nodeList /\ Cardinality(s \ {x}) = n
    <3>1. IsFiniteSet(s) /\ x \in s
      BY <1>6
    <3>2. Cardinality(s \ {x}) = Cardinality(s) - 1
      BY <3>1, FS_RemoveElement
    <3> QED
      BY <3>2
  <2>4. it[s \ {x}] = Count(s \ {x})
    BY <1>8, <2>3
  <2>5. it[s] = NodeRow(x).pod_count + it[s \ {x}]
    BY <1>5, <2>1, <2>2
  <2> QED
    BY <2>4, <2>5, OneNode
<1> HIDE DEF S
<1>9. \A n \in Nat : n \in S
  BY <1>7, <1>8, CountingUp
<1>10. it[nodeList] = Count(nodeList)
  BY <1>6, <1>9 DEF S
<1> QED
  BY <1>4, <1>10

\* Every pod is counted on a listed node, or its node is not listed, or it is not
\* scheduled, or finished.
LEMMA PodsAddUp ==
  ASSUME KubeDataType
  PROVE  MapThenSumSet(LAMBDA n : NodeRow(n).pod_count, nodeList)
           + Cardinality({p \in Pod : Counts(PodRow(p)) /\ PodRow(p).node \notin nodeList})
           + Cardinality({p \in Pod : PodRow(p).node = Unscheduled})
           + Cardinality({p \in Pod : PodRow(p).node # Unscheduled
                                       /\ PodRow(p).phase \in {"Succeeded", "Failed"}})
         = Cardinality(Pod)
<1> DEFINE A == On(nodeList)
           D == {p \in Pod : Counts(PodRow(p)) /\ PodRow(p).node \notin nodeList}
           B == {p \in Pod : PodRow(p).node = Unscheduled}
           C == {p \in Pod : PodRow(p).node # Unscheduled /\ PodRow(p).phase \in {"Succeeded", "Failed"}}
<1>1. nodeList \in SUBSET Node
  BY DEF KubeDataType
<1>2. /\ A \cup D \cup B \cup C = Pod
      /\ A \cap D = {} /\ (A \cup D) \cap B = {} /\ ((A \cup D) \cup B) \cap C = {}
  BY <1>1, KubeDataAssumption DEF On, Counts
<1>3. /\ IsFiniteSet(A) /\ IsFiniteSet(D) /\ IsFiniteSet(B) /\ IsFiniteSet(C)
      /\ IsFiniteSet(A \cup D) /\ IsFiniteSet((A \cup D) \cup B)
  <2>1. A \subseteq Pod /\ D \subseteq Pod /\ B \subseteq Pod /\ C \subseteq Pod
    BY <1>2
  <2> HIDE DEF A, D, B, C
  <2>2. A \cup D \subseteq Pod /\ (A \cup D) \cup B \subseteq Pod
    BY <2>1
  <2> QED
    BY <2>1, <2>2, FS_Subset, KubeDataAssumption
<1> HIDE DEF A, B, C, D
<1>4. Cardinality(A \cup D) = Cardinality(A) + Cardinality(D) - Cardinality(A \cap D)
  BY <1>3, FS_Union
<1>5. Cardinality((A \cup D) \cup B) = Cardinality(A \cup D) + Cardinality(B)
                                         - Cardinality((A \cup D) \cap B)
  BY <1>3, FS_Union
<1>6. Cardinality(Pod) = Cardinality((A \cup D) \cup B) + Cardinality(C)
                           - Cardinality(((A \cup D) \cup B) \cap C)
  BY <1>2, <1>3, FS_Union
<1>7. /\ Cardinality(A \cap D) = 0 /\ Cardinality((A \cup D) \cap B) = 0
      /\ Cardinality(((A \cup D) \cup B) \cap C) = 0
  BY <1>2, FS_EmptySet
<1>8. Cardinality(A) \in Nat /\ Cardinality(B) \in Nat /\ Cardinality(C) \in Nat /\ Cardinality(D) \in Nat
  BY <1>3, FS_CardinalityType
<1>9. Cardinality(A) + Cardinality(D) + Cardinality(B) + Cardinality(C) = Cardinality(Pod)
  BY <1>4, <1>5, <1>6, <1>7, <1>8
<1> QED
  BY <1>1, <1>9, SumOfNodes DEF A, B, C, D

\* Never more containers are ready than there are.
LEMMA ReadyFits ==
  ASSUME KubeDataType, NEW p \in Pod
  PROVE  PodRow(p).ready[1] <= PodRow(p).ready[2]
<1> DEFINE cs == pods[p].containers
           ready == {k \in DOMAIN cs : cs[k].ready}
<1>1. cs \in PodContainers \/ cs = <<>>
  BY DEF KubeDataType, PodEntries
<1>2. Len(cs) \in Nat /\ DOMAIN cs = 1..Len(cs)
  BY <1>1, KubeDataAssumption
<1>3. IsFiniteSet(1..Len(cs)) /\ Cardinality(1..Len(cs)) = Len(cs)
  <2>1. 1 \in Int /\ Len(cs) \in Int
    BY <1>2
  <2>2. Cardinality(1..Len(cs)) = IF 1 > Len(cs) THEN 0 ELSE Len(cs) - 1 + 1
    BY <2>1, FS_Interval
  <2> QED
    BY <1>2, <2>1, <2>2, FS_Interval
<1>4. Cardinality(ready) <= Len(cs) /\ Cardinality(ready) \in Nat
  <2>1. ready \subseteq 1..Len(cs)
    BY <1>2
  <2> HIDE DEF ready
  <2> QED
    BY <1>3, <2>1, FS_Subset, FS_CardinalityType
<1>5. PodRow(p).ready = <<Saturate(Cardinality(ready), MaxU8), Saturate(Len(cs), MaxU8)>>
  BY DEF PodRow, PodReady
<1> HIDE DEF ready, cs
<1>6. Saturate(Cardinality(ready), MaxU8) <= Saturate(Len(cs), MaxU8)
  BY <1>2, <1>4, KubeDataAssumption DEF Saturate
<1> QED
  BY <1>5, <1>6

\* What a pod is shown as.
LEMMA PhaseHonest ==
  ASSUME KubeDataType, NEW p \in Pod
  PROVE  /\ PodRow(p).phase = "Running" =>
              ~pods[p].deleting /\ \A k \in DOMAIN pods[p].containers :
                                      pods[p].containers[k].waiting # "CrashLoopBackOff"
         /\ pods[p].deleting => PodRow(p).phase = "Terminating"
  BY DEF PodRow, PodPhase

\* A figure cut to its width is no larger.
LEMMA Saturated ==
  ASSUME NEW n \in Nat, NEW max \in Nat
  PROVE  Saturate(n, max) \in Nat /\ Saturate(n, max) <= n
  BY DEF Saturate

\* Ten tenths.
LEMMA Tenths ==
  ASSUME NEW t \in Nat
  PROVE  /\ t \div 10 \in Nat /\ (t \div 10) * 10 <= t
         /\ ((t % 10) = 0) => (t \div 10) * 10 = t
<1>1. t = 10 * (t \div 10) + (t % 10) /\ (t % 10) \in 0..9 /\ t \div 10 \in Int
  OBVIOUS
<1> QED
  BY <1>1

\* The metrics server's units: dividing, and cutting to 32 bits, never make more of it.
LEMMA CutDown ==
  ASSUME NEW n \in Nat, NEW by \in {2, 4}
  PROVE  /\ n \div by \in Nat /\ (n \div by) * by <= n
         /\ ((n \div by) % (MaxU32 + 1)) \in Nat /\ ((n \div by) % (MaxU32 + 1)) * by <= n
<1>1. PICK q \in Nat : q = n \div by
  OBVIOUS
<1>2. q * by <= n
  BY <1>1
<1>3. PICK w \in Nat \ {0} : w = MaxU32 + 1
  BY KubeDataAssumption
<1>4. (q % w) \in Nat /\ (q % w) <= q
  <2>1. (q % w) \in 0..(w - 1)
    OBVIOUS
  <2>2. q = w * (q \div w) + (q % w) /\ q \div w \in Nat
    OBVIOUS
  <2>3. w * (q \div w) >= 0
    BY <2>2
  <2> QED
    BY <2>1, <2>2, <2>3
<1>5. (q % w) * by <= n
  BY <1>2, <1>4
<1> QED
  BY <1>1, <1>2, <1>3, <1>4, <1>5

\* parse_quantity_to_millis and parse_metrics_cpu_to_millis read half a milli more than
\* was written at most, and parse_quantity_to_bytes never more.
LEMMA MillisBelow ==
  ASSUME NEW q, q.tenths \in Nat
  PROVE  ParseMillis(q) \in Nat /\ ParseMillis(q) * 4 <= Quarters(q) + 2
<1> DEFINE n == q.tenths \div 10
<1>1. PICK t \in Nat : t = q.tenths
  OBVIOUS
<1>2. /\ n \in Nat /\ n * 10 <= t /\ n * 10 \in Nat /\ MaxU32 \in Nat
  BY <1>1, Tenths, KubeDataAssumption
<1>3. CASE q.suffix = "m"
  <2>1. ParseMillis(q) = n \/ ParseMillis(q) = 0
    BY <1>3 DEF ParseMillis
  <2>2. Quarters(q) = n * 4
    BY <1>3 DEF Quarters
  <2> HIDE DEF n
  <2> QED
    BY <1>2, <2>1, <2>2
<1>4. CASE q.suffix = ""
  <2>1. ParseMillis(q) = Saturate(n * 5, MaxU32) \/ ParseMillis(q) = Saturate((t + 1) \div 2, MaxU32)
    BY <1>1, <1>4 DEF ParseMillis
  <2>2. Quarters(q) = t * 2
    BY <1>1, <1>4 DEF Quarters
  <2> HIDE DEF n
  <2>3. ParseMillis(q) \in Nat /\ ParseMillis(q) * 2 <= t + 1
    <3>1. n * 5 \in Nat /\ (n * 5) * 2 <= t + 1
      BY <1>2
    <3>2. Saturate(n * 5, MaxU32) \in Nat /\ Saturate(n * 5, MaxU32) <= n * 5
      BY <1>2, <3>1, Saturated
    <3>3. PICK h \in Nat : h = (t + 1) \div 2 /\ h * 2 <= t + 1
      OBVIOUS
    <3>4. Saturate(h, MaxU32) \in Nat /\ Saturate(h, MaxU32) <= h
      BY <1>2, Saturated
    <3>5. CASE ParseMillis(q) = Saturate(n * 5, MaxU32)
      BY <1>2, <3>1, <3>2, <3>5
    <3>6. CASE ParseMillis(q) = Saturate((t + 1) \div 2, MaxU32)
      BY <3>3, <3>4, <3>6
    <3> QED
      BY <2>1, <3>5, <3>6
  <2> QED
    BY <2>2, <2>3
<1>5. CASE q.suffix \notin {"m", ""}
  <2>1. ParseMillis(q) = 0
    BY <1>5 DEF ParseMillis
  <2>2. Quarters(q) \in {n, n * 2, t * 2}
    BY <1>1, <1>5 DEF Quarters
  <2> HIDE DEF n
  <2> QED
    BY <1>2, <2>1, <2>2
<1> QED
  BY <1>3, <1>4, <1>5

\* The metrics server's spelling.
LEMMA UsedBelow ==
  ASSUME NEW q, q.tenths \in Nat
  PROVE  ParseMetricsCpu(q) \in Nat /\ ParseMetricsCpu(q) * 4 <= Quarters(q) + 2
<1> DEFINE n == q.tenths \div 10
           cut(by) == (n \div by) % (MaxU32 + 1)
<1>1. n \in Nat
  BY Tenths
<1>2. cut(2) \in Nat /\ cut(2) * 2 <= n /\ cut(4) \in Nat /\ cut(4) * 4 <= n
  BY <1>1, CutDown
<1>3. CASE q.suffix = "n"
  <2>1. ParseMetricsCpu(q) = cut(4) \/ ParseMetricsCpu(q) = 0
    BY <1>3 DEF ParseMetricsCpu
  <2>2. Quarters(q) = n
    BY <1>3 DEF Quarters
  <2> HIDE DEF n, cut
  <2> QED
    BY <1>1, <1>2, <2>1, <2>2
<1>4. CASE q.suffix = "u"
  <2>1. ParseMetricsCpu(q) = cut(2) \/ ParseMetricsCpu(q) = 0
    BY <1>4 DEF ParseMetricsCpu
  <2>2. Quarters(q) = n * 2
    BY <1>4 DEF Quarters
  <2> HIDE DEF n, cut
  <2> QED
    BY <1>1, <1>2, <2>1, <2>2
<1>5. CASE q.suffix \notin {"n", "u"}
  <2>1. ParseMetricsCpu(q) = ParseMillis(q)
    BY <1>5 DEF ParseMetricsCpu
  <2> QED
    BY <2>1, MillisBelow
<1> QED
  BY <1>3, <1>4, <1>5

\* Memory.
LEMMA BytesBelow ==
  ASSUME NEW q, q.tenths \in Nat
  PROVE  ParseBytes(q) * 10 <= TenthBytes(q)
<1> DEFINE n == q.tenths \div 10
<1>1. PICK t \in Nat : t = q.tenths
  OBVIOUS
<1>2. n \in Nat /\ n * 10 <= t /\ MaxU64 \in Nat
  BY <1>1, Tenths, KubeDataAssumption
<1>3. /\ DOMAIN Multiplier = {"Ki", "K"} /\ Multiplier["Ki"] = 4 /\ Multiplier["K"] = 3
  BY DEF Multiplier
<1>4. CASE q.suffix = ""
  <2>1. ParseBytes(q) = n \/ ParseBytes(q) = 0
    BY <1>4 DEF ParseBytes, Multiplier
  <2>2. TenthBytes(q) = t
    <3>1. TenthBytes(q) = t * 1
      BY <1>1, <1>3, <1>4 DEF TenthBytes
    <3> QED
      BY <3>1
  <2> HIDE DEF n
  <2> QED
    BY <1>2, <2>1, <2>2
<1>5. CASE q.suffix \in {"Ki", "K"}
  <2>1. PICK m \in {3, 4} : m = Multiplier[q.suffix]
    BY <1>3, <1>5
  <2>2. ParseBytes(q) = Saturate(n * m, MaxU64) \/ ParseBytes(q) = 0
    BY <1>3, <1>5, <2>1 DEF ParseBytes
  <2>3. TenthBytes(q) = t * m
    BY <1>1, <1>3, <1>5, <2>1 DEF TenthBytes
  <2> HIDE DEF n
  <2>4. Saturate(n * m, MaxU64) \in Nat /\ Saturate(n * m, MaxU64) <= n * m
    <3>1. n * m \in Nat
      BY <1>2
    <3> QED
      BY <1>2, <3>1, Saturated
  <2>5. (n * m) * 10 <= t * m
    BY <1>2
  <2>6. t * m >= 0 /\ t * m \in Nat /\ n * m \in Nat
    BY <1>2
  <2> QED
    BY <2>2, <2>3, <2>4, <2>5, <2>6
<1>6. CASE q.suffix \notin {"", "Ki", "K"}
  <2>1. ParseBytes(q) = 0
    BY <1>3, <1>6 DEF ParseBytes
  <2>2. TenthBytes(q) = t
    <3>1. TenthBytes(q) = t * 1
      BY <1>1, <1>3, <1>6 DEF TenthBytes
    <3> QED
      BY <3>1
  <2> QED
    BY <2>1, <2>2
<1> QED
  BY <1>4, <1>5, <1>6

\* The figures of a node's row.
LEMMA NodeHonest ==
  ASSUME KubeDataType, NEW n \in Node
  PROVE  /\ NodeRow(n).cpu_capacity_millis * 4 <= Quarters(nodes[n].cpu) + 2
         /\ NodeRow(n).cpu_used_millis * 4 <= Quarters(nodes[n].used) + 2
         /\ NodeRow(n).mem_capacity_bytes * 10 <= TenthBytes(nodes[n].mem)
         /\ NodeRow(n).cpu_used_millis = NotSampled <=> nodes[n].used = NoSample
<1>1. \A q \in Quantities : q.tenths \in Nat
  <2>1. Zero.tenths \in Nat /\ NoSample.tenths \in Nat
    BY DEF Zero, NoSample
  <2>2. \A c \in Capacities : c.cpu.tenths \in Nat /\ c.mem.tenths \in Nat
    BY KubeDataAssumption
  <2>3. \A u \in Usages : u.tenths \in Nat
    BY KubeDataAssumption
  <2> QED
    BY <2>1, <2>2, <2>3 DEF Quantities
<1>2. nodes[n].cpu.tenths \in Nat /\ nodes[n].mem.tenths \in Nat /\ nodes[n].used.tenths \in Nat
  BY <1>1 DEF KubeDataType, NodeEntries
<1>3. NodeRow(n).cpu_capacity_millis * 4 <= Quarters(nodes[n].cpu) + 2
  BY <1>2, MillisBelow DEF NodeRow
<1>4. NodeRow(n).mem_capacity_bytes * 10 <= TenthBytes(nodes[n].mem)
  BY <1>2, BytesBelow DEF NodeRow
<1>5. CASE nodes[n].used = NoSample
  <2>1. NodeRow(n).cpu_used_millis = -1 /\ NotSampled = -1
    BY <1>5 DEF NodeRow, NotSampled
  <2>2. Quarters(nodes[n].used) = 0
    BY <1>5 DEF Quarters, NoSample
  <2> QED
    BY <1>3, <1>4, <1>5, <2>1, <2>2
<1>6. CASE nodes[n].used # NoSample
  <2>1. NodeRow(n).cpu_used_millis = ParseMetricsCpu(nodes[n].used)
    BY <1>6 DEF NodeRow
  <2>2. ParseMetricsCpu(nodes[n].used) \in Nat
        /\ ParseMetricsCpu(nodes[n].used) * 4 <= Quarters(nodes[n].used) + 2
    BY <1>2, UsedBelow
  <2>3. NotSampled = -1
    BY DEF NotSampled
  <2> QED
    BY <1>3, <1>4, <1>6, <2>1, <2>2, <2>3
<1> QED
  BY <1>5, <1>6

\* The tables of a cluster of any size add up, whatever its pods and nodes report and
\* whichever nodes were listed: every pod is on the row of its node once the node is
\* listed, or is shown as unscheduled or finished, no phase hides a crash loop or a
\* deletion, no figure of memory exceeds the quantity it was read from and none of CPU
\* by more than the half milli of its rounding, and a figure nobody sampled is not a zero.
THEOREM ClusterAddsUpForAll == KubeDataInit /\ [][KubeDataNext]_kubeDataVars => []ClusterAddsUp
<1>1. KubeDataType => ClusterAddsUp
  <2> SUFFICES ASSUME KubeDataType PROVE ClusterAddsUp
    OBVIOUS
  <2>1. nodeList \subseteq Node
    BY DEF KubeDataType
  <2> QED
    BY <2>1, PodsAddUp, ReadyFits, PhaseHonest, NodeHonest DEF ClusterAddsUp
<1> QED
  BY <1>1, KubeDataTyped, PTL
=============================================================================

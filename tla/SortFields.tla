----------------------------- MODULE SortFields -----------------------------
(***************************************************************************)
(* Which column a table is sorted by, and what the screen says about it:   *)
(* the sort-field enums of tui/src/app.rs with the five ways to change     *)
(* them, the rows and headers of ui/{processes,network,containers,kube,    *)
(* gpu}.rs and the sort chip of ui/chrome.rs.                              *)
(*                                                                         *)
(* The sub-views of a tab share one field of a union type, so a field is a *)
(* pair: the table it belongs to and its name.                             *)
(***************************************************************************)
EXTENDS Integers, Sequences

VARIABLES inFront,       \* the table in front
          fieldOf,       \* its sort field
          processField,  \* the sort field of the process table
          told           \* what the last `sort <field>` said: <<verdict, the field it names>>

sortVars == <<inFront, fieldOf, processField, told>>

TabOf == [pods |-> "kube", nodes |-> "kube", deployments |-> "kube", devices |-> "gpu", procs |-> "gpu",
               processes |-> "processes", network |-> "network", containers |-> "containers"]

SortTables == DOMAIN TabOf

Field(t, name) == <<t, name>>
NotAsked == <<"nothing", Field("none", "none")>>

-----------------------------------------------------------------------------
(* The cells of a row: process_row, interface_row, container_row, pod_row, *)
(* node_row, deploy_row, device_row and proc_row.  A cell is named for the *)
(* figure it shows.                                                        *)

ProcessRow    == <<"pid", "user", "status", "cpu", "mem share", "mem", "command">>
InterfaceRow  == <<"name", "up", "rx rate", "tx rate", "rx", "tx", "errors">>
ContainerRow  == <<"name", "image", "state", "cpu", "mem", "rx", "tx", "uptime">>
PodRowCells   == <<"namespace", "name", "phase", "ready", "restarts", "cpu", "mem", "age">>
NodeRowCells  == <<"name", "status", "roles", "cpu share", "mem share", "pods", "version", "age">>
DeployRow     == <<"namespace", "name", "ready", "updated", "available", "strategy", "age">>
DeviceRow     == <<"index", "name", "vendor", "util", "mem", "temp", "power", "clock", "fan", "codec">>
ProcRow       == <<"pid", "device", "name", "kind", "mem">>

CellsOf ==
  [processes |-> ProcessRow, network |-> InterfaceRow, containers |-> ContainerRow, pods |-> PodRowCells,
   nodes |-> NodeRowCells, deployments |-> DeployRow, devices |-> DeviceRow, procs |-> ProcRow]

-----------------------------------------------------------------------------
(* next_sort_field, next_net_sort_field, next_container_sort_field,        *)
(* next_kube_sort_field and next_gpu_sort_field: a round over the fields   *)
(* of one table, beginning with its default.                               *)

Cycle ==
  [processes   |-> <<"Cpu", "Mem", "Pid", "Name", "User">>,
   network     |-> <<"RxRate", "TxRate", "Name", "Errors", "TotalRx", "TotalTx">>,
   containers  |-> <<"Cpu", "Mem", "Name", "NetRx", "NetTx", "Uptime">>,
   pods        |-> <<"Cpu", "Mem", "Name", "Restarts", "Age", "Phase">>,
   nodes       |-> <<"CpuPct", "MemPct", "Name", "PodCount", "Age">>,
   deployments |-> <<"Name", "ReadyRatio", "Namespace", "Age">>,
   devices     |-> <<"Index", "Util", "Mem", "Temp", "Power", "Name">>,
   procs       |-> <<"Mem", "Pid", "Name", "Device">>]

FieldsOf(t) == {Field(t, Cycle[t][k]) : k \in DOMAIN Cycle[t]}

\* default_for, and the #[default] of the enums.
DefaultFor(t) == Field(t, Cycle[t][1])

\* A field of another sub-view recovers to the default.
NextSortField(f, t) ==
  IF f \notin FieldsOf(t) THEN DefaultFor(t)
  ELSE LET k == CHOOSE i \in DOMAIN Cycle[t] : Cycle[t][i] = f[2]
       IN  Field(t, Cycle[t][1 + (k % Len(Cycle[t]))])

\* sort_column and its kin: the number of the column that gets the arrow.
ProcessSortColumn   == [Pid |-> 0, User |-> 1, Cpu |-> 3, Mem |-> 4, Name |-> 6]
InterfaceSortColumn == [Name |-> 0, RxRate |-> 2, TxRate |-> 3, TotalRx |-> 4, TotalTx |-> 5, Errors |-> 6]
ContainerSortColumn == [Name |-> 0, Cpu |-> 3, Mem |-> 4, NetRx |-> 5, NetTx |-> 6, Uptime |-> 7]
PodSortColumn       == [Name |-> 1, Phase |-> 2, Restarts |-> 4, Cpu |-> 5, Mem |-> 6, Age |-> 7]
NodeSortColumn      == [Name |-> 0, CpuPct |-> 3, MemPct |-> 4, PodCount |-> 5, Age |-> 7]
DeploySortColumn    == [Namespace |-> 0, Name |-> 1, ReadyRatio |-> 2, Age |-> 6]
DeviceSortColumn    == [Index |-> 0, Name |-> 1, Util |-> 3, Mem |-> 4, Temp |-> 5, Power |-> 6]
ProcSortColumn      == [Pid |-> 0, Device |-> 1, Name |-> 2, Mem |-> 4]

SortColumn ==
  [processes |-> ProcessSortColumn, network |-> InterfaceSortColumn, containers |-> ContainerSortColumn,
   pods |-> PodSortColumn, nodes |-> NodeSortColumn, deployments |-> DeploySortColumn,
   devices |-> DeviceSortColumn, procs |-> ProcSortColumn]

NoColumn == -1

Arrow(t, f) == IF f[1] = t THEN SortColumn[t][f[2]] ELSE NoColumn

\* sort_label: what the status bar calls the field.
Labels ==
  [processes   |-> [Cpu |-> "cpu", Mem |-> "mem", Pid |-> "pid", Name |-> "name", User |-> "user"],
   network     |-> [RxRate |-> "rx", TxRate |-> "tx", Name |-> "name", Errors |-> "errors",
                    TotalRx |-> "total rx", TotalTx |-> "total tx"],
   containers  |-> [Cpu |-> "cpu", Mem |-> "mem", Name |-> "name", NetRx |-> "rx", NetTx |-> "tx",
                    Uptime |-> "uptime"],
   pods        |-> [Cpu |-> "cpu", Mem |-> "mem", Name |-> "name", Restarts |-> "restarts", Age |-> "age",
                    Phase |-> "phase"],
   nodes       |-> [CpuPct |-> "cpu", MemPct |-> "mem", Name |-> "name", PodCount |-> "pods", Age |-> "age"],
   deployments |-> [Name |-> "name", ReadyRatio |-> "ready", Namespace |-> "namespace", Age |-> "age"],
   devices     |-> [Index |-> "index", Util |-> "util", Mem |-> "vram", Temp |-> "temp", Power |-> "power",
                    Name |-> "name"],
   procs       |-> [Mem |-> "vram", Pid |-> "pid", Name |-> "name", Device |-> "device"]]

SortLabel(f) == Labels[f[1]][f[2]]

\* What the rows are compared by: sort_processes, sorted_interfaces,
\* recompute_containers_view, sort_pods, sort_nodes, sort_deployments,
\* sort_devices, sort_procs.
Keys ==
  [processes   |-> [Cpu |-> "cpu", Mem |-> "mem", Pid |-> "pid", Name |-> "name", User |-> "user"],
   network     |-> [RxRate |-> "rx rate", TxRate |-> "tx rate", Name |-> "name", Errors |-> "errors",
                    TotalRx |-> "rx", TotalTx |-> "tx"],
   containers  |-> [Cpu |-> "cpu", Mem |-> "mem", Name |-> "name", NetRx |-> "rx", NetTx |-> "tx",
                    Uptime |-> "started"],
   pods        |-> [Cpu |-> "cpu", Mem |-> "mem", Name |-> "name", Restarts |-> "restarts", Age |-> "age",
                    Phase |-> "phase"],
   nodes       |-> [CpuPct |-> "cpu", MemPct |-> "mem", Name |-> "name", PodCount |-> "pods", Age |-> "age"],
   deployments |-> [Name |-> "name", ReadyRatio |-> "ready", Namespace |-> "namespace", Age |-> "age"],
   devices     |-> [Index |-> "index", Util |-> "util", Mem |-> "mem", Temp |-> "temp", Power |-> "power",
                    Name |-> "name"],
   procs       |-> [Mem |-> "mem", Pid |-> "pid", Name |-> "name", Device |-> "device"]]

SortKey(f) == Keys[f[1]][f[2]]

-----------------------------------------------------------------------------

SortInit ==
  /\ inFront \in SortTables
  /\ fieldOf = DefaultFor(inFront)
  /\ processField = DefaultFor("processes")
  /\ told = NotAsked

\* Only the process table's field is kept twice here, to be one and the same.
Sets(f) ==
  /\ fieldOf' = f
  /\ processField' = IF inFront = "processes" THEN f ELSE processField

SortCycle ==
  /\ Sets(NextSortField(fieldOf, inFront))
  /\ told' = NotAsked /\ UNCHANGED inFront

\* switch_kube_subview, switch_gpu_subview
SwitchTable(t) ==
  /\ TabOf[t] = TabOf[inFront] /\ TabOf[t] \in {"kube", "gpu"}
  /\ inFront' = t
  /\ fieldOf' = DefaultFor(t)
  /\ told' = NotAsked /\ UNCHANGED processField

\* The commands "Sort by ..." of the palette: set_process_sort from any tab, the
\* network's and the containers' own where those are in front.
SortCommand(f) ==
  /\ f[1] = "processes" \/ (f[1] = inFront /\ f[2] \in {"RxRate", "TxRate", "Name", "Errors", "Cpu", "Mem", "NetRx"})
  /\ IF f[1] = inFront THEN Sets(f) ELSE processField' = f /\ UNCHANGED fieldOf
  /\ told' = NotAsked /\ UNCHANGED inFront

\* What sort_by_name accepts on a tab.
Sortable(tab) ==
  CASE tab = "network" -> {Field("network", n) : n \in {"Name", "RxRate", "TxRate", "Errors"}}
    [] tab = "containers" -> FieldsOf("containers")
    [] tab = "kube" -> {}
    [] tab \in {"processes", "gpu"} -> FieldsOf("processes")

\* sort_by_name, for a text that names some field of the table in front, of the
\* process table, or none.
SortByName(f) ==
  /\ f \in FieldsOf(inFront) \cup FieldsOf("processes")
  /\ UNCHANGED inFront
  /\ LET f2 == {g \in Sortable(TabOf[inFront]) : g[2] = f[2]}
     IN  \/ \E g \in f2 : /\ told' = <<"sorted", g>>
                          /\ IF g[1] = inFront THEN Sets(g) ELSE processField' = g /\ UNCHANGED fieldOf
         \/ f2 = {} /\ told' = <<"refused", f>> /\ UNCHANGED <<fieldOf, processField>>

SortNext ==
  \/ SortCycle
  \/ \E t \in SortTables : SwitchTable(t)
  \/ \E f \in UNION {FieldsOf(t) : t \in SortTables} : SortCommand(f) \/ SortByName(f)

-----------------------------------------------------------------------------

\* Cells that show something else than the key of their column: a share of the
\* machine's memory for bytes, the command line for the process name, the time since
\* the start; and for nodes the share of each node's own capacity, although the rows
\* are ordered by absolute use, so that the shares need not run in order.
ShowsKey(t, cell, key) ==
  \/ cell = key
  \/ t = "processes" /\ <<cell, key>> \in {<<"mem share", "mem">>, <<"command", "name">>}
  \/ t = "nodes" /\ <<cell, key>> \in {<<"cpu share", "cpu">>, <<"mem share", "mem">>}
  \/ t = "containers" /\ <<cell, key>> = <<"uptime", "started">>

\* Whatever the way there, the field in force belongs to the table in front: its
\* header has an arrow, on the column that shows what the rows are ordered by,
\* and the status bar has a name for it that no other field of the table has;
\* `s` reaches every field and comes back.  When `sort <field>` says it sorted, the
\* field it names is in force: in the table in front, but on the GPU tab in the
\* process table, whose columns are not the ones on the screen.
ArrowTrue ==
  /\ fieldOf \in FieldsOf(inFront)
  /\ Arrow(inFront, fieldOf) \in 0..(Len(CellsOf[inFront]) - 1)
  /\ ShowsKey(inFront, CellsOf[inFront][Arrow(inFront, fieldOf) + 1], SortKey(fieldOf))
  /\ \A f \in FieldsOf(inFront) : SortLabel(f) = SortLabel(fieldOf) => f = fieldOf
  /\ \A reached \in SUBSET FieldsOf(inFront) :
       fieldOf \in reached /\ (\A f \in reached : NextSortField(f, inFront) \in reached)
         => reached = FieldsOf(inFront)
  /\ told[1] = "sorted" => told[2] = IF TabOf[inFront] = "gpu" THEN processField ELSE fieldOf
=============================================================================

----------------------------- MODULE TableOrder -----------------------------
(***************************************************************************)
(* Which rows a table shows and in which order: core/src/process.rs        *)
(* (sort_processes, filter_processes), tui/src/app.rs (the containers      *)
(* view) and tui/src/ui/{network,kube,gpu}.rs.                             *)
(*                                                                         *)
(* AppTable says when a view is computed; this is what is computed.  A row *)
(* has a name, a second text the filter reads as well (the command of a    *)
(* process, the image of a container, the namespace of a cluster object;   *)
(* empty where there is none) and one figure per column, which may be      *)
(* Missing.  Rows come in any order and any number of figures can tie.  A  *)
(* view is the positions in the snapshot of the rows it shows, as          *)
(* compute_view_indices has it; the other tables copy the rows.            *)
(***************************************************************************)
EXTENDS Integers, Sequences, SequencesExt, FiniteSets, StableSort, SortFields

CONSTANTS RowSet,     \* the rows a snapshot may hold
          MaxListed,  \* bound: rows of a snapshot
          MaxTyped    \* bound: characters of the filter

Missing == -1

\* A character is a letter and its form: lower, upper, or a compatibility form
\* outside ASCII whose lower case is the ASCII letter.
Char(letter, form) == [letter |-> letter, form |-> form]

Forms == {"lower", "upper", "wide"}
Chars == [letter : Nat, form : Forms]

ASSUME TableOrderAssumption ==
  /\ \A r \in RowSet : r.name \in Seq(Chars) /\ r.also \in Seq(Chars) /\ r.figure \in Nat \cup {Missing}
  /\ MaxListed \in Nat /\ MaxTyped \in Nat

VARIABLES listed,   \* the rows of the snapshot
          order,    \* the SortOrder
          typed     \* the filter

orderVars == <<listed, order, typed>>

TableOrderInit == listed = <<>> /\ order = "Desc" /\ typed = <<>>

-----------------------------------------------------------------------------
(* The filter.                                                             *)

IsAscii(text) == \A k \in DOMAIN text : text[k].form # "wide"

Lower(text) == [k \in DOMAIN text |-> Char(text[k].letter, "lower")]

\* slice::windows
Windows(text, n) == {[i \in 1..n |-> text[k + i]] : k \in 0..(Len(text) - n)}

\* contains_ignore_case: byte windows when both are ASCII, lower case otherwise.
\* The needle is in lower case already.
ContainsIgnoreCase(haystack, needle) ==
  IF needle = <<>> THEN TRUE
  ELSE IF IsAscii(needle) /\ IsAscii(haystack)
  THEN \E w \in Windows(haystack, Len(needle)) : \A k \in DOMAIN needle : w[k].letter = needle[k].letter
  ELSE needle \in Windows(Lower(haystack), Len(needle))

\* filter_processes, and the filters of the other tables.
Filtered ==
  {i \in DOMAIN listed : \/ typed = <<>>
                         \/ ContainsIgnoreCase(listed[i].name, Lower(typed))
                         \/ ContainsIgnoreCase(listed[i].also, Lower(typed))}

-----------------------------------------------------------------------------
(* Orders.                                                                 *)

ReversedIf(at, b) == IF b THEN [k \in DOMAIN at |-> at[Len(at) + 1 - k]] ELSE at

\* str::cmp of names of at most two characters: upper case, lower case, the rest.
Code(c) == c.letter + IF c.form = "upper" THEN 0 ELSE IF c.form = "lower" THEN 10 ELSE 20

TextKey(n) ==
  (IF Len(n) > 0 THEN 100 * Code(n[1]) ELSE 0) + (IF Len(n) > 1 THEN Code(n[2]) ELSE 0)

NameKey(r) == TextKey(r.name)

\* The pair (namespace, name).
PlaceKey(r) == 10000 * TextKey(r.also) + NameKey(r)

\* The key of sort_by_cached_key for the process table.
LowerKey(r) == TextKey(Lower(r.name))

ZeroIfMissing(v) == IF v = Missing THEN 0 ELSE v

\* sort_processes: ascending, then reversed.  (Ties of figures, where the sort is
\* not stable, may come in another order.)
SortProcesses(shown, field) ==
  ReversedIf(Ranked([i \in shown |-> IF field = "name" THEN LowerKey(listed[i]) ELSE listed[i].figure]),
             order = "Desc")

\* The other tables sort by a key that rises for some columns and falls for the
\* rest, and reverse the result for the direction that is not the column's own:
\* descending, but for the columns in own.
DirectedKey(r, field, rising) ==
  IF field = "name" THEN NameKey(r) ELSE IF field = "place" THEN PlaceKey(r)
  ELSE IF field \in rising THEN ZeroIfMissing(r.figure) ELSE -ZeroIfMissing(r.figure)

Directed(shown, field, rising, own) ==
  ReversedIf(Ranked([i \in shown |-> DirectedKey(listed[i], field, rising)]),
             (order = "Asc") # (field \in own))

\* sorted_interfaces
SortInterfaces(shown, field) == Directed(shown, field, {"name"}, {"name"})

\* recompute_containers_view; uptimes are sorted by when the container started.
SortContainers(shown, field) == Directed(shown, field, {"name", "started"}, {"name", "started"})

\* sort_pods (phase_rank puts what is broken first), sort_nodes, sort_deployments
\* (ratio): descending is every column's own direction, that of names included.  Pods
\* are sorted by name within their namespace, deployments by either.
SortPods(shown, field) == Directed(shown, IF field = "name" THEN "place" ELSE field, {"phase"}, {})

SortNodes(shown, field) == Directed(shown, field, {"name"}, {})

SortDeployments(shown, field) ==
  Directed(shown, IF field = "namespace" THEN "place" ELSE field, {"name", "ready"}, {})

\* metric_missing
Unreported(shown, field) == {i \in shown : field = "figure" /\ listed[i].figure = Missing}

\* Mutant: a figure that is missing is the smallest.
SortDevicesAll(shown, field) == Directed(shown, field, {"name", "index"}, {"name", "index"})

\* sort_devices: rows without the figure stay at the end, in the order they came.
SortDevices(shown, field) ==
  LET parked == Unreported(shown, field)
  IN  Directed(shown \ parked, field, {"name", "index"}, {"name", "index"})
        \o Ranked([i \in parked |-> i])

\* sort_procs: the same, with a PID for the index.
SortProcs(shown, field) ==
  LET parked == Unreported(shown, field)
  IN  Directed(shown \ parked, field, {"name", "pid", "device"}, {"name", "pid", "device"})
        \o Ranked([i \in parked |-> i])

-----------------------------------------------------------------------------

Arrive(r) ==
  /\ Len(listed) < MaxListed
  /\ \E k \in 1..(Len(listed) + 1) : listed' = InsertAt(listed, k, r)
  /\ UNCHANGED <<order, typed>>

ReverseOrder ==
  /\ order' = IF order = "Asc" THEN "Desc" ELSE "Asc"
  /\ UNCHANGED <<listed, typed>>

Type(c) ==
  /\ Len(typed) < MaxTyped
  /\ typed' = Append(typed, c)
  /\ UNCHANGED <<listed, order>>

TableOrderNext ==
  \/ \E r \in RowSet : Arrive(r)
  \/ ReverseOrder
  \/ \E letter \in 1..2, form \in Forms : Type(Char(letter, form))

-----------------------------------------------------------------------------

\* The keys of the rows in a view never step against the direction.
Monotone(at, key, up) ==
  \A j, k \in DOMAIN at : j < k => IF up THEN key[at[j]] <= key[at[k]] ELSE key[at[j]] >= key[at[k]]

\* Rows without the figure come last, as they came; the others are in order.
Parked(at, key, up) ==
  \A j, k \in DOMAIN at : j < k =>
    /\ listed[at[j]].figure = Missing => listed[at[k]].figure = Missing /\ at[j] < at[k]
    /\ listed[at[k]].figure # Missing => IF up THEN key[at[j]] <= key[at[k]] ELSE key[at[j]] >= key[at[k]]

\* Every row of shown once and no other.
ShowsOnce(at, shown) ==
  /\ {at[k] : k \in DOMAIN at} = shown
  /\ \A j, k \in DOMAIN at : at[j] = at[k] => j = k

NameOf   == [i \in DOMAIN listed |-> NameKey(listed[i])]
PlaceOf  == [i \in DOMAIN listed |-> PlaceKey(listed[i])]
LowerOf  == [i \in DOMAIN listed |-> LowerKey(listed[i])]
FigureOf == [i \in DOMAIN listed |-> ZeroIfMissing(listed[i].figure)]
RawOf    == [i \in DOMAIN listed |-> listed[i].figure]

OrderKept ==
  listed # <<>> =>
    LET up == order = "Asc"
        shown == Filtered
        holds(text) == Lower(typed) \in Windows(Lower(text), Len(typed))
    IN  /\ \A i \in DOMAIN listed :
             i \in shown <=> (typed = <<>> \/ holds(listed[i].name) \/ holds(listed[i].also))
        /\ \A f \in {"name", "namespace", "figure", "started", "phase", "ready", "index", "pid", "device"} :
             \A at \in {SortProcesses(shown, f), SortInterfaces(shown, f), SortContainers(shown, f),
                        SortPods(shown, f), SortNodes(shown, f), SortDeployments(shown, f),
                        SortDevices(shown, f), SortProcs(shown, f)} : ShowsOnce(at, shown)
        /\ Monotone(SortProcesses(shown, "name"), LowerOf, up)
        /\ Monotone(SortProcesses(shown, "figure"), RawOf, up)
        /\ \A at \in {SortInterfaces(shown, "name"), SortContainers(shown, "name"), SortDevices(shown, "name"),
                      SortProcs(shown, "name")} : Monotone(at, NameOf, up)
        /\ \A at \in {SortInterfaces(shown, "figure"), SortContainers(shown, "figure"), SortPods(shown, "figure"),
                      SortNodes(shown, "figure"), SortDeployments(shown, "figure"), SortDevices(shown, "index"),
                      SortProcs(shown, "pid"), SortProcs(shown, "device"), SortContainers(shown, "started")} :
             Monotone(at, FigureOf, up)
        /\ \A at \in {SortPods(shown, "name"), SortDeployments(shown, "namespace")} : Monotone(at, PlaceOf, ~up)
        /\ \A at \in {SortNodes(shown, "name"), SortDeployments(shown, "name")} : Monotone(at, NameOf, ~up)
        /\ \A at \in {SortPods(shown, "phase"), SortDeployments(shown, "ready")} : Monotone(at, FigureOf, ~up)
        /\ \A at \in {SortDevices(shown, "figure"), SortProcs(shown, "figure")} : Parked(at, FigureOf, up)

\* Every table shows exactly the rows with the filter in one of their texts, in
\* whatever case, none twice and none lost.  Whatever the rows, each column runs in
\* one direction per order, and turning the order turns it over.  That direction is
\* not always the arrow's: under a down arrow the names, namespaces, phases and
\* ratios of cluster objects run up, and containers the last started come first.
\* A figure a GPU does not report never looks like the smallest, or the largest: its
\* row stays last either way.  And the column with the arrow is the one the rows are
\* ordered by, as far as ArrowTrue says.
RowsInOrder == OrderKept /\ ArrowTrue
=============================================================================

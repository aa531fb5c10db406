------------------------------ MODULE AppTable ------------------------------
(***************************************************************************)
(* One table of the TUI (crates/muxtop-tui/src/app.rs): its rows, filter,  *)
(* sort, sub-view, cursor and the view derived from them.  The five tables *)
(* share only the snapshot they are cut from, the pause switch and which   *)
(* tab is in front, so one of them, chosen in Init, stands for each.       *)
(*                                                                         *)
(* A row is a number.  A filter is its length: row r matches the filters   *)
(* shorter than r, so that typing narrows and erasing widens.  The columns *)
(* are two that disagree about every pair of rows.                         *)
(***************************************************************************)
EXTENDS Integers, Sequences, FiniteSets

CONSTANTS Kinds,         \* the tables to check, among AllKinds
          Lists,         \* the row lists a snapshot may hold for a sub-view
          MaxFilterLen,  \* MAX_FILTER_LEN
          Deltas         \* rows moved by a cursor key, a page key or the wheel

AllKinds == {"processes", "network", "containers", "kube", "gpu"}

\* No list for any sub-view: no snapshot yet, or one without this part.  (An
\* engine that is down comes with empty lists.)
Absent == << >>

ASSUME TableAssumption ==
  /\ Kinds \subseteq AllKinds
  /\ \A l \in Lists : l \in Seq(Nat \ {0})
  /\ MaxFilterLen \in Nat \ {0}
  /\ Deltas \subseteq Int

VARIABLES kind,                \* which table this is
          front,               \* its tab is the active one
          paused,              \* AppState.paused
          part,                \* what last_snapshot holds for this table
          filter, editing,     \* *_filter_input, *_filter_active
          sort,                \* *_sort_field, *_sort_order
          sub,                 \* kube_subview, gpu_subview
          tree,                \* tree_mode
          last_filter_change,  \* "never", or how long ago against FILTER_DEBOUNCE
          cache,               \* visible_processes or visible_tree, or the cached view
          selected, scroll     \* *_selected, *_scroll_offset

table == <<part, filter, sort, sub, tree, last_filter_change>>
view == <<cache, selected, scroll>>
vars == <<kind, front, paused, editing, table, view>>

NoRow == 0

Subviews == CASE kind = "kube" -> 0..2 [] kind = "gpu" -> 0..1 [] OTHER -> {0}

DefaultSort == [field |-> "load", order |-> "desc"]

\* Tables whose rows are kept filtered and sorted; the others are projected
\* when they are drawn.
Cached == {"processes", "containers", "kube"}

Rows(p, sv) == IF p = Absent THEN << >> ELSE p[sv]

NameMatches(r, f) == r > f

\* The vendor of a GPU, or the PID of a process on it, contains the text.
OtherFieldMatches(r, f) == r = f

\* The rows at some of the positions, in the order they come.
Passing(rows, at) ==
  LET pick[n \in 0..Len(rows)] ==
        IF n = 0 THEN << >> ELSE IF n \in at THEN Append(pick[n - 1], rows[n]) ELSE pick[n - 1]
  IN  pick[Len(rows)]

Matching(p, f, sv) ==
  LET rows == Rows(p, sv) IN Passing(rows, {k \in DOMAIN rows : NameMatches(rows[k], f)})

\* A stable sort: a row comes after those that go before it and its equals on its left.
Ordered(rows, s) ==
  LET before(a, b) == IF (s.field = "load") = (s.order = "asc") THEN a < b ELSE a > b
      place(i) == Cardinality({j \in DOMAIN rows : before(rows[j], rows[i]) \/ (rows[j] = rows[i] /\ j <= i)})
  IN  [k \in DOMAIN rows |-> rows[CHOOSE i \in DOMAIN rows : place(i) = k]]

\* filter_processes, then the tree or sort_processes; recompute_containers_view;
\* compute_view_indices.  A tree lists the matching rows whatever the sort.
Project(p, f, s, sv, tr) ==
  CASE p = Absent -> << >>
    [] p # Absent /\ tr -> Matching(p, f, sv)
    [] p # Absent /\ ~tr -> Ordered(Matching(p, f, sv), s)

\* Rows drawn by the table's renderer, in that order.
Shown ==
  CASE kind \in Cached -> cache
    [] kind = "network" -> Project(part, filter, sort, sub, FALSE)
    [] kind = "gpu" ->
         LET rows == Rows(part, sub)
         IN  Ordered(Passing(rows, {k \in DOMAIN rows :
                                      \/ NameMatches(rows[k], filter)
                                      \/ sub = 0 /\ OtherFieldMatches(rows[k], filter)}),
                     sort)

\* Rows the inspector numbers by the cursor.
Inspectable == IF kind \in {"processes", "containers"} THEN cache ELSE Matching(part, filter, sub)

\* item_count: the rows the cursor may move over.
Count ==
  CASE kind \in {"processes", "kube"} -> Len(cache)
    [] kind \in {"network", "containers"} -> Len(Matching(part, filter, sub))
    [] kind = "gpu" ->
         LET rows == Rows(part, sub)
         IN  Len(Passing(rows, {k \in DOMAIN rows :
                                  NameMatches(rows[k], filter) \/ OtherFieldMatches(rows[k], filter)}))

Clamp(i, n) == IF n = 0 THEN 0 ELSE IF i < n THEN i ELSE n - 1

Within(i, n) == IF i < 0 THEN 0 ELSE Clamp(i, n)

At(rows, i) == IF i < Len(rows) THEN rows[i + 1] ELSE NoRow

-----------------------------------------------------------------------------

Init ==
  /\ kind \in Kinds
  /\ front = (kind = "processes")
  /\ paused = FALSE
  /\ part = Absent
  /\ filter \in IF kind = "processes" THEN 0..MaxFilterLen ELSE {0}
  /\ editing = FALSE
  /\ sort \in IF kind = "processes" THEN [field : {"load", "name"}, order : {"desc"}] ELSE {DefaultSort}
  /\ sub = 0
  /\ tree \in IF kind = "processes" THEN BOOLEAN ELSE {FALSE}
  /\ last_filter_change = "never"
  /\ cache = << >>
  /\ selected = 0
  /\ scroll = 0

\* recompute_visible, recompute_containers_view or recompute_kube_view, from a
\* cursor at sel and a viewport at off.  Only the first one clamps them.
Recompute(sel, off) ==
  /\ cache' = IF kind \in Cached THEN Project(part', filter', sort', sub', tree') ELSE << >>
  /\ selected' = IF kind = "processes" THEN Clamp(sel, Len(cache')) ELSE sel
  /\ scroll' = IF kind = "processes" THEN Clamp(off, Len(cache')) ELSE off

\* Mutant: a snapshot goes through the debounce as well.
ApplySnapshotDebounced(p) ==
  /\ ~paused
  /\ part' = p
  /\ UNCHANGED <<kind, front, paused, editing, filter, sort, sub, tree, last_filter_change>>
  /\ IF kind = "processes" /\ last_filter_change = "recent"
       THEN UNCHANGED view ELSE Recompute(selected, scroll)

\* apply_snapshot, for the part of the snapshot this table shows.
ApplySnapshot(p) ==
  /\ ~paused
  /\ part' = p
  /\ UNCHANGED <<kind, front, paused, editing, filter, sort, sub, tree, last_filter_change>>
  /\ Recompute(selected, scroll)

\* Processes and interfaces are in every snapshot; the other parts are optional.
NextPart == [Subviews -> Lists] \cup (IF kind \in {"processes", "network"} THEN {} ELSE {Absent})

Snapshot == \E p \in NextPart : ApplySnapshot(p)

\* Action::TogglePause; Action::Refresh also resumes.
TogglePause ==
  /\ ~editing
  /\ paused' = ~paused
  /\ UNCHANGED <<kind, front, editing, table, view>>

\* go_to_tab, away from this table and back.  No key reaches it while a filter
\* is being edited.
SwitchTab ==
  /\ ~editing
  /\ front' = ~front
  /\ UNCHANGED <<kind, paused, editing, table, view>>

-----------------------------------------------------------------------------
(* Filters.                                                                *)

OpenFilter ==
  /\ front /\ ~editing
  /\ editing' = TRUE
  /\ UNCHANGED <<kind, front, paused, table, view>>

\* Mutant: the kube arm is missing.
AfterFilterChangeNoKube(immediate) ==
  /\ last_filter_change' =
       IF kind # "processes" THEN last_filter_change ELSE IF immediate THEN "never" ELSE "recent"
  /\ cache' = IF kind = "kube" THEN cache ELSE
              IF kind = "processes" /\ ~immediate /\ last_filter_change = "recent"
                THEN cache ELSE IF kind \in Cached THEN Project(part, filter', sort, sub, tree) ELSE << >>
  /\ selected' = Clamp(selected, Count')
  /\ scroll' = 0

\* after_filter_change: the process view waits while keys come in a burst
\* (recompute_visible_debounced), the others follow at once; the cursor is
\* clamped to whatever the table now counts.
AfterFilterChange(immediate) ==
  /\ last_filter_change' =
       IF kind # "processes" THEN last_filter_change ELSE IF immediate THEN "never" ELSE "recent"
  /\ cache' = IF kind = "processes" /\ ~immediate /\ last_filter_change = "recent"
                THEN cache ELSE IF kind \in Cached THEN Project(part, filter', sort, sub, tree) ELSE << >>
  /\ selected' = Clamp(selected, Count')
  /\ scroll' = 0

FilterKey ==
  /\ editing
  /\ UNCHANGED <<kind, front, paused>>
  /\ \/ /\ editing' = FALSE                                  \* Esc
        /\ UNCHANGED <<table, view>>
     \/ /\ editing' = FALSE                                  \* Enter
        /\ UNCHANGED <<part, filter, sort, sub, tree>>
        /\ AfterFilterChange(TRUE)
     \/ /\ filter' = IF filter = 0 THEN 0 ELSE filter - 1    \* Backspace
        /\ UNCHANGED <<editing, part, sort, sub, tree>>
        /\ AfterFilterChange(FALSE)
     \/ /\ filter < MaxFilterLen                             \* a character
        /\ filter' = filter + 1
        /\ UNCHANGED <<editing, part, sort, sub, tree>>
        /\ AfterFilterChange(FALSE)

\* set_filter and, with nothing, clear_filter: the palette and Esc.
SetFilter(f) ==
  /\ front /\ ~editing
  /\ filter' = f
  /\ UNCHANGED <<kind, front, paused, editing, part, sort, sub, tree>>
  /\ AfterFilterChange(TRUE)

\* FILTER_DEBOUNCE has passed since the last key.
Clock ==
  /\ last_filter_change = "recent"
  /\ last_filter_change' = "old"
  /\ UNCHANGED <<kind, front, paused, editing, part, filter, sort, sub, tree, view>>

-----------------------------------------------------------------------------
(* Sorts and sub-views.                                                    *)

NextField(f) == IF f = "load" THEN "name" ELSE "load"

Flip(o) == IF o = "asc" THEN "desc" ELSE "asc"

\* cycle_sort; the Kube and GPU arms also send the cursor home.
CycleSort ==
  /\ front /\ ~editing
  /\ sort' = [sort EXCEPT !.field = NextField(@)]
  /\ UNCHANGED <<kind, front, paused, editing, part, filter, sub, tree, last_filter_change>>
  /\ IF kind \in {"kube", "gpu"} THEN Recompute(0, 0) ELSE Recompute(selected, scroll)

\* reverse_sort, and the palette's argument-free order toggle.
ReverseSort ==
  /\ front /\ ~editing
  /\ sort' = [sort EXCEPT !.order = Flip(@)]
  /\ UNCHANGED <<kind, front, paused, editing, part, filter, sub, tree, last_filter_change>>
  /\ Recompute(selected, scroll)

\* set_process_sort, set_container_sort, SortNetBy* and the `sort` verb: they
\* come from the palette and work on a table that is not in front, too.
SortBy(f) ==
  /\ ~editing
  /\ kind \in {"processes", "network", "containers"}
  /\ sort' = [sort EXCEPT !.field = f]
  /\ UNCHANGED <<kind, front, paused, editing, part, filter, sub, tree, last_filter_change>>
  /\ Recompute(selected, scroll)

\* switch_kube_subview and switch_gpu_subview start the new view afresh; the
\* palette's Kube commands bring the tab to the front first.
SwitchSubview(sv) ==
  /\ ~editing
  /\ kind \in {"kube", "gpu"} /\ (front \/ kind = "kube")
  /\ front' = TRUE
  /\ sub' = sv
  /\ sort' = DefaultSort
  /\ filter' = 0
  /\ UNCHANGED <<kind, paused, editing, part, tree, last_filter_change>>
  /\ Recompute(0, 0)

\* Action::ToggleTree, by key or after go_to_tab from the palette.
ToggleTree ==
  /\ ~editing
  /\ kind = "processes"
  /\ front' = TRUE
  /\ tree' = ~tree
  /\ UNCHANGED <<kind, paused, editing, part, filter, sort, sub, last_filter_change>>
  /\ Recompute(0, 0)

\* toggle_kube_scope: the rows are about to change, the cursor goes home; with
\* no engine attached there is only a warning.
ToggleKubeScope ==
  /\ ~editing
  /\ kind = "kube"
  /\ front' = TRUE
  /\ \/ selected' = 0 /\ scroll' = 0
     \/ UNCHANGED <<selected, scroll>>
  /\ UNCHANGED <<kind, paused, editing, table, cache>>

-----------------------------------------------------------------------------
(* The cursor.                                                             *)

\* move_selection
MoveSelection(d) ==
  /\ front /\ ~editing
  /\ Count > 0
  /\ selected' = Within(selected + d, Count)
  /\ UNCHANGED <<kind, front, paused, editing, table, cache, scroll>>

\* select_index, for the first row and the last.
SelectIndex(i) ==
  /\ front /\ ~editing
  /\ Count > 0
  /\ selected' = Clamp(i, Count)
  /\ UNCHANGED <<kind, front, paused, editing, table, cache, scroll>>

\* scroll_rows: the wheel, which works while a filter is edited as well.
ScrollRows(d) ==
  /\ front
  /\ Count > 0
  /\ scroll' = Within(scroll + d, Count)
  /\ selected' = Clamp(IF selected < scroll' THEN scroll' ELSE selected, Count)
  /\ UNCHANGED <<kind, front, paused, editing, table, cache>>

Next ==
  \/ Snapshot
  \/ TogglePause
  \/ SwitchTab
  \/ OpenFilter
  \/ FilterKey
  \/ \E f \in 0..MaxFilterLen : SetFilter(f)
  \/ Clock
  \/ CycleSort
  \/ ReverseSort
  \/ \E f \in {"load", "name"} : SortBy(f)
  \/ \E sv \in Subviews : SwitchSubview(sv)
  \/ ToggleTree
  \/ ToggleKubeScope
  \/ \E d \in Deltas : MoveSelection(d) \/ ScrollRows(d)
  \/ \E i \in {0, Count - 1} : SelectIndex(i)

\* Snapshots keep coming, and the event loop drains them before it reads keys.
Fairness == WF_vars(Snapshot)

FairSpec == Init /\ [][Next]_vars /\ Fairness

Spec == Init /\ [][Next]_vars

-----------------------------------------------------------------------------

\* The views of the containers and cluster tables are the projection of the
\* snapshot, filter, sort and sub-view in force.
CachesCurrent ==
  kind \in {"containers", "kube"} => cache = Project(part, filter, sort, sub, tree)

\* The debounce may hold back the filter of the process table and nothing else:
\* its rows, sort and tree mode are current, and it lags only behind typing.
OnlyFilterLags ==
  kind = "processes" /\ part # Absent =>
    /\ \E f \in 0..MaxFilterLen : cache = Project(part, f, sort, sub, tree)
    /\ last_filter_change = "never" => cache = Project(part, filter, sort, sub, tree)

\* "every mutation that can reorder or resize the Kube table must call it": what
\* render draws and actions read is current, whatever handler ran last, except
\* for a filter of the process table that is still being typed.
TablesCurrent == CachesCurrent /\ OnlyFilterLags

\* A filter left half applied by the debounce is applied by the next snapshot,
\* unless the user paused the view.
FilterSettles ==
  (kind = "processes" /\ part # Absent /\ cache # Project(part, filter, sort, sub, tree))
    ~> (paused \/ cache = Project(part, filter, sort, sub, tree))

\* "Build the detail rows for whatever is selected on the active tab"
\* (ui/inspector.rs): the inspector describes the highlighted row.
InspectsHighlighted ==
  front /\ At(Shown, selected) # NoRow => At(Inspectable, selected) = At(Shown, selected)
=============================================================================

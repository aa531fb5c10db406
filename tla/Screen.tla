------------------------------- MODULE Screen -------------------------------
(***************************************************************************)
(* The table of AppTable as it is drawn: ui/widgets/table.rs over the      *)
(* cursor and the viewport of app.rs, whatever the size of the terminal.   *)
(* Drawing changes no state (draw takes &AppState, and nobody stores the   *)
(* offset table::draw returns), so every frame is a function of the state. *)
(***************************************************************************)
EXTENDS AppTable, Widgets, TabViews

CONSTANTS MaxHeight,   \* bound: lines of a table, its header included
          Widths       \* terminal widths

ASSUME ScreenAssumption == MaxHeight \in Nat /\ Widths \subseteq Nat

\* The columns of the table in front.
Columns ==
  CASE kind = "processes"  -> ProcessColumns
    [] kind = "network"    -> NetworkColumns
    [] kind = "containers" -> ContainerColumns
    [] kind = "kube"       -> <<PodColumns, NodeColumns, DeploymentColumns>>[sub + 1]
    [] kind = "gpu"        -> <<DeviceColumns, GpuProcessColumns>>[sub + 1]

Drawn(height) == DrawnRows(Len(Shown), selected, scroll, height)

\* What the last snapshot may hold for the tab: an engine that is down comes with
\* empty lists.
Statuses ==
  CASE kind \in {"processes", "network"} -> {IF part = Absent THEN "no snapshot" ELSE "up"}
    [] kind \notin {"processes", "network"} /\ part = Absent -> {"no snapshot", "none"}
    [] kind \notin {"processes", "network"} /\ part # Absent ->
         {"up"} \cup (IF \A sv \in Subviews : part[sv] = << >> THEN {"down"} ELSE {})

\* Whether a tab's slot leaves open that its engine is not there.  Collector::run
\* fills the kube and GPU slots with "down" then; the containers slot stays None.
MayLackEngine(tab, status) ==
  status \in {"no snapshot", "down"} \/ (tab = "containers" /\ status = "none")

\* draw_content, for the tab in front.
View(status, scoped, counts) ==
  CASE kind = "processes" -> ProcessesView(status, Len(Shown), filter > 0)
    [] kind = "network" -> NetworkView(status, Len(Shown), filter > 0)
    [] kind = "containers" -> ContainersView(status, Len(Shown), filter > 0)
    [] kind = "kube" -> KubeView(status, Len(Shown), filter > 0, sub, scoped)
    [] kind = "gpu"  -> GpuView(status, Len(Shown), filter > 0, sub, Len(Rows(part, sub)), counts)

RowsOnScreen ==
  LET total == Len(Shown)
  IN  /\ kind # "gpu" => Count = total
      /\ \A height \in 2..MaxHeight :
        LET body  == height - 1
            first == ViewportOffset(selected, scroll, body)
            thumb == ScrollThumb(total, body, first, body)
        IN  /\ Drawn(height) \subseteq 0..(total - 1) /\ Cardinality(Drawn(height)) <= body
            /\ kind = "processes" /\ total > 0 => selected \in Drawn(height)
            /\ thumb.start + thumb.len <= body
            /\ thumb.len > 0 =>
                 /\ NeedsScrollbar(total, 5, height)
                 /\ 0 \in Drawn(height) => thumb.start = 0
                 /\ total - 1 \in Drawn(height) => thumb.start + thumb.len = body

\* The process table while the debounce holds its filter back.
Lags == kind = "processes" /\ cache # Project(part, filter, sort, sub, tree)

PlaceholderTrue ==
  \A status \in Statuses, scoped, counts \in BOOLEAN :
    LET v == View(status, scoped, counts)
    IN  /\ v = RowsDrawn <=> Shown # << >>
        /\ v = NoMatch => filter > 0 /\ (Lags \/ Matching(part, filter, sub) = << >>)
        /\ v = Empty => Lags \/ Rows(part, sub) = << >>
        /\ v = Waiting => part = Absent /\ (status = "no snapshot" \/ ~MayLackEngine(kind, status))
        /\ v.level = "error" => part # Absent /\ Rows(part, sub) = << >>
        /\ v \in {RowsDrawn, NoMatch, Empty} => TabAvailable(kind, status)
        /\ TabCount(kind, status, Len(Shown)) # NoCount <=>
             v.says \in {"rows", "no match", "empty", "not permitted", "not counted"}
        /\ status # "no snapshot" =>
             (Card(kind, status, FALSE, 0, -1).level = "error" => v.level = "error")

\* The rows on screen are rows of the table, one to a line, and the cursor keys
\* are bounded by their number (containers_count counts the snapshot again; on
\* the GPU tab gpu_count also matches PIDs, draw_procs does not); the process
\* cursor is always among them, however the table shrank and the viewport was scrolled;
\* and the scrollbar's thumb lies in its track, at an end of it exactly when the
\* first or the last row is on screen.  A tab without rows never calls a filtered
\* table empty, and reports an error only of an engine that has answered; it goes on
\* waiting, past the first snapshot, only for one that is attached ("so the UI hits
\* the actionable message immediately instead of Waiting forever"); the tab bar
\* counts the tables that are there, and the dashboard shows no error that the tab
\* does not.  Three texts are left out because they can be false: those of the
\* process table within the debounce (Lags), of the containers tab before the first
\* poll, and of the Kube tab before the first list.
TableDrawn == RowsOnScreen /\ PlaceholderTrue

\* resolve: "Drops the lowest-priority columns until the fixed part fits, then
\* hands the remainder to the flex column. Essential columns are kept".
LayoutFits(columns, width, skip) ==
  LET layout == ResolveScrolled(columns, width, skip)
      kept   == DOMAIN layout
      gone   == Scrolled(columns, skip) \ kept
  IN  /\ Essential(columns) \subseteq kept
      /\ TotalWidth(layout) <= width \/ kept = Essential(columns)
      /\ (\E i \in kept : columns[i].flex) => TotalWidth(layout) >= width
      /\ \A i \in gone, j \in kept :
           j \in Essential(columns) \/ columns[j].priority < columns[i].priority
             \/ (columns[j].priority = columns[i].priority /\ j < i)

MetersFit ==
  \A track \in 0..9, percent \in {0, 1, 12, 49, 50, 79, 80, 99, 100}, partials \in BOOLEAN :
    LET f == Fill(percent, track, partials)
    IN  /\ f.green + f.yellow + f.red + f.partial + f.empty = track
        /\ f.yellow > 0 => percent > 40 /\ f.green > 0
        /\ percent = 100 => f.empty = 0
        /\ percent = 0 => f.empty = track
        /\ BarWidth(3, 2, percent, track) = track

SparksFit ==
  \A width \in 0..3, data \in {<<>>, <<0>>, <<5, 0, 9>>, <<0, 0, 0>>, <<9, 1, 2, 3>>} :
    LET line == SparkLine(data, width)
    IN  /\ line.pad + Len(line.levels) = width
        /\ \A k \in DOMAIN line.levels : line.levels[k] \in 0..7
        /\ \A k \in DOMAIN line.levels :
             data[Len(data) - Len(line.levels) + k] = 0 => line.levels[k] = 0

CellsFit ==
  \A width \in 0..4, len \in 0..6, align \in {"left", "right"} :
    LET c == CellParts(len, width, align) IN c.pad + c.text + c.gap = width

OverlaysFit ==
  \A size, room \in 0..7 :
    LET o == Centered(size, room)
    IN  o.start + o.len <= room /\ o.start \in {(room - o.len) - o.start, (room - o.len) - o.start - 1}

\* "enough for its cores, but never more than half the screen".
PanelsFit ==
  \A cores \in 0..20, available \in {0, 6, 9, 12, 24, 50}, screen \in {59, 80, 100, 160} :
    LET two    == TwoColumn(screen, screen)
        height == CpuHeight(cores, available, two)
        width  == IF two THEN (screen * 3) \div 5 ELSE screen
    IN  /\ height <= Most(3, available \div 2)
        /\ CoreRows(cores, two) + 2 <= available \div 2 => CoresDrawn(cores, width, height) = cores
        /\ CoresDrawn(cores, width, height) <= cores

\* Scrolling reaches every line of the inspector and stops at the last one; a
\* panel beside the table is wide enough for keys and values.
InspectorFits ==
  /\ \A total \in 0..5, inner \in 2..4 :
       /\ \A line \in 1..total : \E k \in 0..total : line \in InspectorLines(total, k, inner)
       /\ \A k \in 0..9 : Cardinality(InspectorLines(total, k, inner)) = Least(total, inner - 1)
  /\ \A screen \in {59, 99, 100, 139, 200}, height \in {5, 6} :
       SidePanel(screen, screen, height) =>
         \A len \in {0, 1, 40, 300} :
           WrappedLines(len, PanelWidth(screen) - 2) * (PanelWidth(screen) - 2 - KEY_WIDTH) >= len

StatusFits ==
  \A width \in 0..30 :
    LET bar == StatusBar(<<6, 9, 5>>, <<3, 7, 5, 6>>, width)
    IN  /\ Sum(bar.states) + Sum(bar.hints) <= width
        /\ bar.states # << >> \/ width < 9

\* Evaluated once for every table: the widgets are functions of sizes alone.
TablesThatFit ==
  {c \in AllColumns :
     /\ \A width \in Widths, skip \in 0..MAX_COL_SCROLL : LayoutFits(c, width, skip)
     /\ MetersFit /\ SparksFit /\ CellsFit /\ OverlaysFit
     /\ PanelsFit /\ InspectorFits /\ StatusFits}

\* Whatever the width of the terminal and however far the columns are scrolled,
\* every widget fills exactly the cells it was given: the columns shed the least
\* useful one first and never the one that identifies the row, meters and
\* sparklines add up, cells are cut or padded, overlays stay inside.
WidgetsFit ==
  /\ Columns \in TablesThatFit
  /\ \A width \in {0, 4, 5, 60}, height \in 0..MaxHeight :
       /\ ContentWidth(Len(Shown), width, height) <= width
       /\ ContentHeight(width, height) <= Minus(height, 1)

\* widgets/mod.rs: "Compute the scroll offset that keeps `selected` on screen."
\* Whenever the table has rows, the row of the cursor is one of those drawn.
CursorOnScreen ==
  front /\ Shown # <<>> => \A height \in 2..MaxHeight : selected \in Drawn(height)
=============================================================================

------------------------------ MODULE Widgets ------------------------------
(***************************************************************************)
(* crates/muxtop-tui/src/ui/widgets: how a table, its scrollbar, a meter,  *)
(* a sparkline and an overlay are fitted into the cells there are.  Pure   *)
(* functions of sizes; a text is its length in cells, and indices start at *)
(* zero as in the code.                                                    *)
(***************************************************************************)
EXTENDS Integers, Sequences, SequencesExt, FiniteSets, FiniteSetsExt

Least(a, b)  == IF a < b THEN a ELSE b
Most(a, b)   == IF a > b THEN a ELSE b
Minus(a, b)  == IF a > b THEN a - b ELSE 0   \* saturating_sub
Round(a, b)  == (2 * a + b) \div (2 * b)     \* f64::round of a / b

-----------------------------------------------------------------------------
(* columns.rs                                                              *)

PRIO_ESSENTIAL == 0
PRIO_HIGH      == 1
PRIO_MEDIUM    == 2
PRIO_LOW       == 3

Fixed(w, priority)  == [min |-> w, flex |-> FALSE, priority |-> priority]
Flex(min, priority) == [min |-> min, flex |-> TRUE, priority |-> priority]

\* COLUMNS of the seven tables.
ProcessColumns ==
  <<Fixed(7, PRIO_ESSENTIAL), Fixed(10, PRIO_MEDIUM), Fixed(2, PRIO_HIGH), Fixed(7, PRIO_HIGH),
    Fixed(7, PRIO_HIGH), Fixed(8, PRIO_LOW), Flex(12, PRIO_ESSENTIAL)>>

NetworkColumns ==
  <<Flex(12, PRIO_ESSENTIAL), Fixed(2, PRIO_LOW), Fixed(12, PRIO_ESSENTIAL),
    Fixed(12, PRIO_ESSENTIAL), Fixed(10, PRIO_MEDIUM), Fixed(10, PRIO_MEDIUM), Fixed(7, PRIO_HIGH)>>

ContainerColumns ==
  <<Fixed(22, PRIO_ESSENTIAL), Flex(16, PRIO_MEDIUM), Fixed(13, PRIO_ESSENTIAL), Fixed(7, PRIO_HIGH),
    Fixed(18, PRIO_HIGH), Fixed(10, PRIO_LOW), Fixed(10, PRIO_LOW), Fixed(9, PRIO_LOW)>>

PodColumns ==
  <<Fixed(18, PRIO_MEDIUM), Flex(20, PRIO_ESSENTIAL), Fixed(15, PRIO_ESSENTIAL), Fixed(8, PRIO_HIGH),
    Fixed(10, PRIO_HIGH), Fixed(8, PRIO_LOW), Fixed(9, PRIO_LOW), Fixed(7, PRIO_MEDIUM)>>

NodeColumns ==
  <<Flex(20, PRIO_ESSENTIAL), Fixed(20, PRIO_ESSENTIAL), Fixed(16, PRIO_LOW), Fixed(9, PRIO_HIGH),
    Fixed(9, PRIO_HIGH), Fixed(9, PRIO_MEDIUM), Fixed(14, PRIO_LOW), Fixed(7, PRIO_MEDIUM)>>

DeploymentColumns ==
  <<Fixed(18, PRIO_MEDIUM), Flex(20, PRIO_ESSENTIAL), Fixed(9, PRIO_ESSENTIAL), Fixed(12, PRIO_HIGH),
    Fixed(11, PRIO_HIGH), Fixed(15, PRIO_LOW), Fixed(7, PRIO_MEDIUM)>>

DeviceColumns ==
  <<Fixed(4, PRIO_ESSENTIAL), Flex(18, PRIO_ESSENTIAL), Fixed(9, PRIO_LOW), Fixed(7, PRIO_ESSENTIAL),
    Fixed(18, PRIO_HIGH), Fixed(7, PRIO_HIGH), Fixed(12, PRIO_MEDIUM), Fixed(9, PRIO_LOW),
    Fixed(6, PRIO_LOW), Fixed(10, PRIO_LOW)>>

GpuProcessColumns ==
  <<Fixed(8, PRIO_ESSENTIAL), Fixed(5, PRIO_MEDIUM), Flex(18, PRIO_ESSENTIAL), Fixed(10, PRIO_LOW),
    Fixed(10, PRIO_ESSENTIAL)>>

AllColumns == {ProcessColumns, NetworkColumns, ContainerColumns, PodColumns, NodeColumns,
               DeploymentColumns, DeviceColumns, GpuProcessColumns}

MAX_COL_SCROLL == 8

Essential(columns) == {i \in DOMAIN columns : columns[i].priority = PRIO_ESSENTIAL}

\* min_width, summed
Required(columns, I) == MapThenSumSet(LAMBDA i : columns[i].min, I)

\* Mutant: leading columns are dropped before trailing ones, whatever they are.
DropOrderFromLeft(columns, I) ==
  SortSeq(SetToSeq(I \ Essential(columns)), LAMBDA i, j : i < j)

\* Least useful first, then from the right.
DropOrder(columns, I) ==
  SortSeq(SetToSeq(I \ Essential(columns)),
          LAMBDA i, j : \/ columns[i].priority > columns[j].priority
                        \/ columns[i].priority = columns[j].priority /\ i > j)

\* The columns ColumnLayout::resolve keeps of I.
Kept(columns, I, width) ==
  LET order   == DropOrder(columns, I)
      left(k) == I \ {order[j] : j \in 1..k}
      enough  == {k \in 0..Len(order) : Required(columns, left(k)) <= width}
  IN  left(IF enough = {} THEN Len(order) ELSE Min(enough))

\* The width of a kept column: the first flexible one takes the slack.
WidthOf(columns, kept, width, i) ==
  LET flexible == {j \in kept : columns[j].flex}
  IN  columns[i].min + IF flexible # {} /\ i = Min(flexible)
                       THEN Minus(width, Required(columns, kept)) ELSE 0

\* resolve_scrolled: the first skip columns that are not essential stay out.
Scrolled(columns, skip) ==
  {i \in DOMAIN columns :
     i \in Essential(columns) \/ Cardinality((1..i) \ Essential(columns)) > skip}

ResolveScrolled(columns, width, skip) ==
  LET kept == Kept(columns, Scrolled(columns, skip), width)
  IN  [i \in kept |-> WidthOf(columns, kept, width, i)]

TotalWidth(layout) == MapThenSumSet(LAMBDA i : layout[i], DOMAIN layout)

\* truncate and cell: the padding, the text and the gap of a cell.
Truncate(len, width) == Least(len, width)

CellParts(len, width, align) ==
  LET inner == IF align = "right" THEN Most(Minus(width, 1), 1) ELSE width
      text  == Truncate(len, inner)
  IN  IF width = 0 THEN [pad |-> 0, text |-> 0, gap |-> 0]
      ELSE [pad |-> inner - text, text |-> text, gap |-> IF width > inner THEN 1 ELSE 0]

-----------------------------------------------------------------------------
(* mod.rs, table.rs, scrollbar.rs                                          *)

\* Mutant: one row too few is scrolled.
ViewportOffsetShort(selected, offset, height) ==
  IF height = 0 THEN 0
  ELSE IF selected < offset THEN selected
  ELSE IF selected >= offset + height THEN Minus(selected, height)
  ELSE offset

\* viewport_offset
ViewportOffset(selected, offset, height) ==
  IF height = 0 THEN 0
  ELSE IF selected < offset THEN selected
  ELSE IF selected >= offset + height THEN Minus(selected, height - 1)
  ELSE offset

\* table::draw: the rows of the body.  The first line is the header.
DrawnRows(total, selected, offset, height) ==
  LET body  == Minus(height, 1)
      first == ViewportOffset(selected, offset, body)
  IN  IF body = 0 THEN {} ELSE first..(Least(first + body, total) - 1)

\* The cells left for the columns: a scrollbar and the selection marker go first.
NeedsScrollbar(total, width, height) == width > 4 /\ total > Minus(height, 1)

ContentWidth(total, width, height) ==
  Minus(IF NeedsScrollbar(total, width, height) THEN width - 1 ELSE width, 1)

\* scrollbar::vertical, as the first cell of the thumb and its length; nothing
\* when everything fits.
ScrollThumb(total, visible, offset, height) ==
  LET len    == Least(Most(Round(visible * height, total), 1), height)
      max    == total - visible
      travel == height - len
  IN  IF height = 0 \/ visible = 0 \/ total <= visible THEN [start |-> 0, len |-> 0]
      ELSE [start |-> Least(Round(Least(offset, max) * travel, max), travel), len |-> len]

-----------------------------------------------------------------------------
(* meter.rs, spark.rs, glyphs.rs, overlay.rs, chrome.rs                    *)

\* fill_spans with bar_line's track: how many cells of each colour.  A partial
\* cell has seven steps; one that rounds to eight is not drawn at all.
Fill(percent, track, partials) ==
  LET scaled  == track * percent
      full    == Least(scaled \div 100, track)
      step    == Round((scaled % 100) * 8, 100)
      partial == IF partials /\ full < track /\ step \in 1..7 THEN 1 ELSE 0
      warn    == Round(track, 2)
      danger  == Round(track * 4, 5)
  IN  [green |-> Least(full, warn), yellow |-> Least(Minus(full, warn), danger - warn),
       red |-> Minus(full, danger), partial |-> partial, empty |-> Minus(track, full + partial)]

\* bar_line: the label, brackets, fill and readout; only the label when that is
\* all there is room for.
BarWidth(label, info, percent, width) ==
  IF width <= label + 2 THEN CellParts(label, width, "left").text + CellParts(label, width, "left").pad
  ELSE LET room == width - label - 2
           text == Truncate(info, room)
           f    == Fill(percent, room - text, TRUE)
       IN  label + 2 + text + f.green + f.yellow + f.red + f.partial + f.empty

\* spark::line: left padding and one level per sample, the newest last.
SparkLevel(v, max) == IF max = 0 THEN 0 ELSE Least(Round(Least(v, max) * 7, max), 7)

SparkLine(data, width) ==
  LET window == IF Len(data) > width THEN SubSeq(data, Len(data) - width + 1, Len(data)) ELSE data
      scale  == Most(1, Max(Range(window) \cup {0}))
  IN  [pad |-> width - Len(window), levels |-> [k \in DOMAIN window |-> SparkLevel(window[k], scale)]]

\* overlay::centered, one axis
Centered(size, room) == [start |-> (room - Least(size, room)) \div 2, len |-> Least(size, room)]

\* chrome::header_rows and split: what is left for the content.
HeaderRows(width) == IF width < 60 THEN 1 ELSE 2

ContentHeight(width, height) == Minus(height, HeaderRows(width) + 1)

\* Breakpoint::from_width: Xs, Sm, Md, Lg.
Breakpoint(width) ==
  CASE width < 60 -> 1 [] width \in 60..99 -> 2 [] width \in 100..139 -> 3 [] width > 139 -> 4

AllowsSidePanel(width) == Breakpoint(width) >= 3

\* The longest prefix of some texts that fits in a line.
Sum(lens) == FoldSeq(+, 0, lens)

FitPrefix(lens, room) ==
  SubSeq(lens, 1, Max({n \in 0..Len(lens) : Sum(SubSeq(lens, 1, n)) <= room}))

\* draw_statusbar without a toast: state segments, each with blanks and a
\* separator, then keys and labels in turn, for as long as they fit.
StatusBar(segments, hints, width) ==
  LET states == FitPrefix([k \in DOMAIN segments |-> segments[k] + 3], width)
  IN  [states |-> states, hints |-> FitPrefix(hints, width - Sum(states))]

-----------------------------------------------------------------------------
(* general.rs and inspector.rs                                             *)

TwoColumn(screen, width) == Breakpoint(screen) >= 3 /\ width >= 96

HalfUp(n) == (n + 1) \div 2

\* cpu_height
CoreRows(cores, two) == IF cores > 8 \/ two THEN HalfUp(cores) ELSE cores

CpuHeight(cores, available, two) ==
  IF cores = 0 THEN 3
  ELSE Least(Most(CoreRows(cores, two) + 2, 3), Most(available \div 2, 3))

\* draw_cpu: the cores with a bar, inside the border of a panel.
CoresDrawn(cores, width, height) ==
  LET rows == Minus(height, 2)
      cols == Minus(width, 2)
  IN  CASE rows = 0 \/ cols = 0 -> 0
        [] rows > 0 /\ cols > 0 /\ (cores > rows \/ cols >= 64) ->
             Least(HalfUp(cores), rows) + Least(cores - HalfUp(cores), rows)
        [] OTHER -> Least(cores, rows)

KEY_WIDTH == 14

\* render_row: the lines of a wrapped value.  An empty one has none.
WrappedLines(len, width) ==
  LET avail == Most(Minus(width, KEY_WIDTH), 8) IN (len + avail - 1) \div avail

\* draw_inspector: a panel beside the table or an overlay over it.
SidePanel(screen, width, height) == AllowsSidePanel(screen) /\ width >= 80 /\ height >= 6

PanelWidth(width) == width - (width * 58) \div 100

\* The lines of the inspector in sight, its footer taken off.
InspectorLines(total, offset, inner) ==
  LET body  == Minus(inner, 1)
      first == Least(offset, Minus(total, body))
  IN  (first + 1)..Least(first + body, total)
=============================================================================

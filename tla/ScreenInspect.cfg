CONSTANTS
  Kinds = {"kube"}
  Lists <- MCLists
  MaxFilterLen = 2
  Deltas <- MCDeltas
  MaxHeight = 4
  Widths <- MCWidths
SPECIFICATION Spec
INVARIANT InspectsHighlighted

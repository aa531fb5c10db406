CONSTANTS
  Kinds = {"processes", "network", "containers", "kube", "gpu"}
  Lists <- MCLists
  MaxFilterLen = 2
  Deltas <- MCDeltas
  MaxHeight = 4
  Widths <- MCWidths
SPECIFICATION Spec
INVARIANT CursorOnScreen

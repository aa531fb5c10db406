SPECIFICATION RunSpec
CONSTANTS
  InitialBackoff = 1
  MaxBackoff = 4
  ChannelCap = 2
  Order <- MCOrder
  Seeded = {"kube", "gpu"}
  Cached = {"kube"}
  Untimed = {"gpu"}
  TxCapacity = 1
INVARIANTS ExitRestores ScreenCurrent HandleMeansStopped
PROPERTIES SessionEnds CancelEnds DownIsShown
CHECK_DEADLOCK FALSE

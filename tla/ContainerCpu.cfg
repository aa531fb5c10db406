SPECIFICATION ContainersSpec
CONSTANTS
  Containers <- MCContainers
  Short <- MCShort
  HistoryLen = 2
  MaxWork = 2
PROPERTY WarmUpIsOneTick
CHECK_DEADLOCK FALSE

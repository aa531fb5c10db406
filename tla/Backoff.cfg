SPECIFICATION Spec
CONSTANTS
  InitialBackoff = 1
  MaxBackoff = 30
  ChannelCap = 2
INVARIANT BackoffResets
CHECK_DEADLOCK FALSE

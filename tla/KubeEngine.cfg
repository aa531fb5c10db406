SPECIFICATION FairSpec
CONSTANTS
  Togglers = {t1, t2}
INVARIANTS OutOfScopeOnlyIfRaced NoStaleNumbers
PROPERTY ViewSettles
CHECK_DEADLOCK FALSE

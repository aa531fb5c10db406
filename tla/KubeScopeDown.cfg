SPECIFICATION Spec
CONSTANTS
  Togglers = {t1}
INVARIANT ScopeDownLeavesNoRow
CHECK_DEADLOCK FALSE

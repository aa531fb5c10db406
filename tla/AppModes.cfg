CONSTANTS
  Tabs <- MCTabs
  MaxActive = 2
  MaxTasks = 2
SPECIFICATION Spec
INVARIANTS
  OneOwner
  RemoteReadOnly
  EscStepsBack
  OutcomesAccounted

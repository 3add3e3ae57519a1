CONSTANTS
  Managers = {m1, m2}
  Workers = {}
  Timeout = 1
SPECIFICATION Spec
INVARIANT QuietWhenStopped
PROPERTIES SavedBeforeStopped KubeletLast EnabledWhenCompleted

CONSTANTS
  Members = {m1, m2, m3}
  Timeout = 2
  Retries = 1
SPECIFICATION Spec
INVARIANTS DroppedForAReason ReturnedSetIsExact

\* bootprep's use: every image has at most one base image.
CONSTANTS
  Members = {a, b, c}
  SingleDependency = TRUE
  Timeout = 2
  Retries = 1
SPECIFICATION Spec
INVARIANTS NoLostWakeup Acyclic
PROPERTIES OrderSpec EventuallyReturns
